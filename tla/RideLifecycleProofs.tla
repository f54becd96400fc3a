------------------------ MODULE RideLifecycleProofs ------------------------
(***************************************************************************)
(* Proofs about RideLifecycle, for any number of drivers and of handlers   *)
(* in flight, any number of failures and any length of history.            *)
(***************************************************************************)
EXTENDS RideLifecycle, TLAPS

-----------------------------------------------------------------------------
(***************************************************************************)
(* Facts about the tables and about the operators on request records.      *)
(***************************************************************************)

\* transitionRideStatus sets a status, and never from a terminal one.
LEMMA TransitionTables ==
  ASSUME NEW s \in Transitions
  PROVE  /\ NextStatus[s] \in RideStatus
         /\ AllowedStatuses[s] \subseteq RideStatus \ Terminal
BY DEF Transitions, NextStatus, AllowedStatuses, RideStatus, Terminal

\* A slot without a handler is a request record.
LEMMA IdleType == Idle \in Request
BY ConstantsAssumption
DEF Idle, Request, Operations, PC, Transitions, Ride, InitialRide, RideStatus, Fare

\* A handler goes on to a request record, of the same operation and driver
\* unless it ends.
LEMMA ContinueType ==
  ASSUME NEW q \in Request, NEW row \in Ride
  PROVE  /\ Continue(q, row) \in Request
         /\ \/ Continue(q, row) = Idle
            \/ Continue(q, row).pc \in {"read", "merge", "list"}
<1> DEFINE kept == [q EXCEPT !.pc = "list"]
           zero == [row EXCEPT !.fare = "zero"]
           due  == [row EXCEPT !.fare = "due"]
<1>1. zero \in Ride /\ due \in Ride
  BY DEF Ride, Fare
<1>2. CASE q.stage = "assign" \/ q.stage = "release"
  BY <1>2 DEF Continue, Request, PC, Transitions, Updates
<1>3. CASE q.stage = "cancel" \/ q.stage = "complete"
  BY <1>1, <1>3 DEF Continue, Request, PC, Transitions, Updates
<1>4. CASE q.stage \in {"zeroFare", "confirm"}
  BY <1>4 DEF Continue, Request, PC, Transitions, Updates
<1>5. CASE q.stage \in {"accept", "revert", "start", "settle"}
  BY <1>5, IdleType DEF Continue
<1>6. q.stage \in Transitions \cup Updates
  BY DEF Request
<1> QED
  BY <1>2, <1>3, <1>4, <1>5, <1>6 DEF Transitions, Updates

\* The merge of two rows is a row: the driver and the status of the entity.
LEMMA MergeType ==
  ASSUME NEW current \in Ride, NEW changes \in Ride
  PROVE  /\ MergeRideData(current, changes) \in Ride
         /\ MergeRideData(current, changes).driver = changes.driver
         /\ MergeRideData(current, changes).status = changes.status
BY DEF MergeRideData, Ride

\* Every request that arrives finds a ride that is not over, and takes the
\* driver who calls or the driver of the ride.
Arrival(r, op, d, pc, stage) ==
  /\ Begin(r, op, d, pc, stage)
  /\ ride.status \notin Terminal
  /\ \/ op = "cancel" /\ d = NoDriver /\ pc = "read" /\ stage = "cancel"
     \/ op = "accept" /\ d \in Drivers /\ pc = "candidate" /\ stage = "assign"
     \/ op = "reject" /\ d \in Drivers /\ pc = "candidate" /\ stage = "release"
     \/ op = "confirm" /\ d = ride.driver /\ pc = "candidate" /\ stage = "confirm"
     \/ op = "riderReject" /\ d = ride.driver /\ pc = "candidate" /\ stage = "release"
     \/ op = "start" /\ d = ride.driver /\ pc = "read" /\ stage = "start"
     \/ op = "complete" /\ d = ride.driver /\ pc = "read" /\ stage = "complete"
  /\ op \in {"confirm", "riderReject", "start", "complete"} => d # NoDriver
  /\ op = "start" => ride.status \in {"enroute", "trip_started"}
  /\ op \in {"confirm", "riderReject"} =>
       ride.status \notin {"assigned", "requested", "enroute"}
  /\ op = "reject" => ride.status # "enroute"

\* The entry guards of the seven handlers.
LEMMA ArrivalShape ==
  ASSUME NEW r \in Requests, Arrive(r)
  PROVE  \E op \in Operations, d \in Drivers \cup {NoDriver, ride.driver},
            pc \in PC, stage \in Transitions \cup Updates :
           Arrival(r, op, d, pc, stage)
<1>1. CASE CancelRide(r)
  BY <1>1 DEF CancelRide, Arrival, Terminal, Operations, PC, Transitions
<1>2. CASE \E d \in Drivers : AcceptRideByDriver(r, d)
  BY <1>2 DEF AcceptRideByDriver, Arrival, Terminal, Operations, PC, Transitions
<1>3. CASE \E d \in Drivers : RejectRideByDriver(r, d)
  BY <1>3 DEF RejectRideByDriver, Arrival, Terminal, Operations, PC, Updates
<1>4. CASE ConfirmDriverAcceptance(r)
  BY <1>4 DEF ConfirmDriverAcceptance, Arrival, Terminal, Operations, PC, Transitions
<1>5. CASE RejectDriverAcceptance(r)
  BY <1>5 DEF RejectDriverAcceptance, Arrival, Terminal, Operations, PC, Updates
<1>6. CASE StartRide(r)
  BY <1>6 DEF StartRide, Arrival, Terminal, Operations, PC, Transitions
<1>7. CASE CompleteRide(r)
  BY <1>7 DEF CompleteRide, Arrival, Terminal, Operations, PC, Transitions
<1> QED
  BY <1>1, <1>2, <1>3, <1>4, <1>5, <1>6, <1>7 DEF Arrive

-----------------------------------------------------------------------------
(***************************************************************************)
(* Type correctness, under any Overlapping.                                *)
(***************************************************************************)

\* The initial state is well typed.
LEMMA InitTypeOK == Init => TypeOK
<1> SUFFICES ASSUME Init PROVE TypeOK
  OBVIOUS
<1>1. ride \in Ride
  BY ConstantsAssumption DEF Init, InitialRide, Ride, RideStatus, Fare
<1>2. candidates \in [Drivers -> CandidateStatus]
  BY DEF Init, CandidateStatus
<1>3. history \in Seq([from : RideStatus \cup {"null"}, to : RideStatus])
  BY DEF Init, InitialHistory, RideStatus
<1>4. req \in [Requests -> Request]
  BY IdleType DEF Init
<1>5. failures \in 0 .. MaxFailures
  BY ConstantsAssumption DEF Init
<1>6. \A r \in Requests :
        req[r].pc \in {"candidate", "supersede", "claim", "save"} =>
          req[r].driver \in Drivers
  BY DEF Init, Idle
<1> QED
  BY <1>1, <1>2, <1>3, <1>4, <1>5, <1>6 DEF TypeOK

\* A step that gives one request a well-typed record, with a driver where one
\* is needed, keeps the requests well typed.
LEMMA RequestsStayTyped ==
  ASSUME TypeOK, NEW r \in Requests, NEW q \in Request,
         req' = [req EXCEPT ![r] = q],
         q.pc \in {"candidate", "supersede", "claim", "save"} => q.driver \in Drivers
  PROVE  /\ req' \in [Requests -> Request]
         /\ \A p \in Requests :
              req'[p].pc \in {"candidate", "supersede", "claim", "save"} =>
                req'[p].driver \in Drivers
BY DEF TypeOK

\* Every step keeps the variables well typed.
LEMMA NextTypeOK == TypeOK /\ [Next]_vars => TypeOK'
<1> SUFFICES ASSUME TypeOK, [Next]_vars PROVE TypeOK'
  OBVIOUS
<1>1. CASE UNCHANGED vars
  BY <1>1 DEF TypeOK, vars
<1>2. ASSUME NEW r \in Requests, Arrive(r) \/ Step(r) \/ Fail(r)
      PROVE  TypeOK'
  <2> USE <1>2
  <2>t. /\ ride \in Ride
        /\ req[r] \in Request
        /\ req[r].row \in Ride
    BY DEF TypeOK, Request
  <2>p. ASSUME NEW pc \in PC,
               pc \in {"candidate", "supersede", "claim", "save"} =>
                 req[r].driver \in Drivers,
               Goto(r, pc)
        PROVE  /\ req' \in [Requests -> Request]
               /\ \A p \in Requests :
                    req'[p].pc \in {"candidate", "supersede", "claim", "save"} =>
                      req'[p].driver \in Drivers
    <3>1. [req[r] EXCEPT !.pc = pc] \in Request
      BY <2>t, <2>p DEF Request
    <3>2. req' = [req EXCEPT ![r] = [req[r] EXCEPT !.pc = pc]]
      BY <2>p DEF Goto
    <3>3. [req[r] EXCEPT !.pc = pc].driver = req[r].driver
          /\ [req[r] EXCEPT !.pc = pc].pc = pc
      BY <2>t DEF Request
    <3> QED
      BY <3>1, <3>2, <3>3, <2>p, RequestsStayTyped
  <2>f. ASSUME Finish(r)
        PROVE  /\ req' \in [Requests -> Request]
               /\ \A p \in Requests :
                    req'[p].pc \in {"candidate", "supersede", "claim", "save"} =>
                      req'[p].driver \in Drivers
    BY <2>f, IdleType, RequestsStayTyped, Idle.pc = "idle" DEF Finish, Idle
  <2>c. ASSUME NEW row \in Ride, req' = [req EXCEPT ![r] = Continue(req[r], row)]
        PROVE  /\ req' \in [Requests -> Request]
               /\ \A p \in Requests :
                    req'[p].pc \in {"candidate", "supersede", "claim", "save"} =>
                      req'[p].driver \in Drivers
    <3>1. /\ Continue(req[r], row) \in Request
          /\ Continue(req[r], row).pc \in {"idle", "read", "merge", "list"}
      BY <2>t, ContinueType DEF Idle
    <3> QED
      BY <2>c, <3>1, RequestsStayTyped
  <2>1. CASE Arrive(r)
    <3>1. PICK op \in Operations, d \in Drivers \cup {NoDriver, ride.driver},
               pc \in PC, stage \in Transitions \cup Updates :
               Arrival(r, op, d, pc, stage)
      BY <2>1, ArrivalShape
    <3> DEFINE q == [Idle EXCEPT !.op = op, !.pc = pc, !.stage = stage,
                                 !.driver = d, !.row = ride]
    <3>2. q \in Request /\ q.pc = pc /\ q.driver = d
      BY <2>t, IdleType DEF Request, Ride
    <3>3. pc = "candidate" => d \in Drivers
      BY <3>1, <2>t DEF Arrival, Ride
    <3>4. pc \notin {"supersede", "claim", "save"}
      BY <3>1 DEF Arrival
    <3>5. req' = [req EXCEPT ![r] = q] /\ UNCHANGED <<ride, candidates, history, failures>>
      BY <3>1 DEF Arrival, Begin
    <3> QED
      BY <3>2, <3>3, <3>4, <3>5, RequestsStayTyped DEF TypeOK
  <2>2. CASE AcceptCandidate(r)
    BY <2>2, <2>p, <2>f DEF AcceptCandidate, TypeOK, PC
  <2>3. CASE RejectCandidate(r)
    BY <2>3, <2>p, <2>f DEF RejectCandidate, TypeOK, PC
  <2>4. CASE ConfirmCandidate(r)
    BY <2>4, <2>p, <2>f DEF ConfirmCandidate, TypeOK, PC
  <2>5. CASE RiderRejectCandidate(r)
    BY <2>5, <2>p, <2>f DEF RiderRejectCandidate, TypeOK, PC
  <2>6. CASE MarkCandidateSuperseded(r)
    BY <2>6, <2>f DEF MarkCandidateSuperseded, TypeOK, CandidateStatus
  <2>7. CASE ClaimDriver(r)
    <3>1. ride' \in Ride
      BY <2>7, <2>t DEF ClaimDriver, TypeOK, Ride
    <3> QED
      BY <2>7, <3>1, <2>p, <2>f DEF ClaimDriver, TypeOK, PC
  <2>8. CASE SaveCandidate(r)
    <3>1. candidates' \in [Drivers -> CandidateStatus]
      BY <2>8 DEF SaveCandidate, TypeOK, CandidateStatus, AnswerOf
    <3> DEFINE q == [req[r] EXCEPT !.row = [@ EXCEPT !.driver = NoDriver], !.pc = "merge"]
    <3>2. q \in Request /\ q.pc = "merge"
      BY <2>t DEF Request, Ride, PC
    <3>3. \/ Goto(r, "read")
          \/ req' = [req EXCEPT ![r] = q]
          \/ Finish(r)
      BY <2>8, <2>t DEF SaveCandidate, Request, Ride
    <3>4. /\ req' \in [Requests -> Request]
          /\ \A p \in Requests :
               req'[p].pc \in {"candidate", "supersede", "claim", "save"} =>
                 req'[p].driver \in Drivers
      BY <3>2, <3>3, <2>p, <2>f, RequestsStayTyped DEF PC
    <3> QED
      BY <2>8, <3>1, <3>4 DEF SaveCandidate, TypeOK
  <2>9. CASE TransitionRideStatus(r)
    <3> DEFINE stage == req[r].stage
               q == [req[r] EXCEPT !.row = [ride EXCEPT !.status = NextStatus[stage]],
                                   !.from = ride.status, !.pc = "merge"]
    <3>1. NextStatus[stage] \in RideStatus
      BY <2>9, TransitionTables DEF TransitionRideStatus
    <3>2. q \in Request /\ q.pc = "merge"
      BY <3>1, <2>t DEF Request, Ride, PC
    <3>3. \/ req' = [req EXCEPT ![r] = q]
          \/ req' = [req EXCEPT ![r] = Continue(req[r], ride)]
      BY <2>9, <2>t DEF TransitionRideStatus, Request
    <3>4. /\ req' \in [Requests -> Request]
          /\ \A p \in Requests :
               req'[p].pc \in {"candidate", "supersede", "claim", "save"} =>
                 req'[p].driver \in Drivers
      BY <3>2, <3>3, <2>c, <2>t, RequestsStayTyped
    <3> QED
      BY <2>9, <3>4 DEF TransitionRideStatus, TypeOK
  <2>10. CASE UpdateRideMerge(r)
    <3> DEFINE q == [req[r] EXCEPT !.row = MergeRideData(ride, @), !.pc = "write"]
    <3>1. q \in Request /\ q.pc = "write"
      BY <2>t, MergeType DEF Request, PC
    <3>2. req' = [req EXCEPT ![r] = q]
      BY <2>10, <2>t DEF UpdateRideMerge, Request
    <3> QED
      BY <2>10, <3>1, <3>2, RequestsStayTyped DEF UpdateRideMerge, TypeOK
  <2>11. CASE UpdateRideWrite(r)
    BY <2>11, <2>t, <2>p DEF UpdateRideWrite, TypeOK, PC
  <2>12. CASE UpdateRideReload(r)
    <3> DEFINE q == [req[r] EXCEPT !.row = ride, !.pc = "history"]
    <3>1. q \in Request /\ q.pc = "history"
      BY <2>t DEF Request, PC
    <3>2. \/ req' = [req EXCEPT ![r] = q]
          \/ req' = [req EXCEPT ![r] = Continue(req[r], ride)]
      BY <2>12, <2>t DEF UpdateRideReload, Request
    <3>3. /\ req' \in [Requests -> Request]
          /\ \A p \in Requests :
               req'[p].pc \in {"candidate", "supersede", "claim", "save"} =>
                 req'[p].driver \in Drivers
      BY <3>1, <3>2, <2>c, <2>t, RequestsStayTyped
    <3> QED
      BY <2>12, <3>3 DEF UpdateRideReload, TypeOK
  <2>13. CASE RecordStatusChange(r)
    <3> DEFINE e == [from |-> req[r].from, to |-> NextStatus[req[r].stage]]
    <3>1. e \in [from : RideStatus \cup {"null"}, to : RideStatus]
      BY <2>13, <2>t, TransitionTables DEF RecordStatusChange, Request
    <3>2. history' \in Seq([from : RideStatus \cup {"null"}, to : RideStatus])
      BY <2>13, <3>1 DEF RecordStatusChange, TypeOK
    <3>3. req' = [req EXCEPT ![r] = Continue(req[r], req[r].row)]
      BY <2>13 DEF RecordStatusChange, TypeOK
    <3> QED
      BY <2>13, <3>2, <3>3, <2>c, <2>t DEF RecordStatusChange, TypeOK
  <2>14. CASE ListCandidates(r)
    <3> DEFINE q == [req[r] EXCEPT !.todo = ToUpdate(req[r]), !.pc = "each"]
    <3>1. q \in Request /\ q.pc = "each"
      BY <2>t DEF Request, PC, ToUpdate
    <3>2. req' = [req EXCEPT ![r] = q] \/ Finish(r)
      BY <2>14, <2>t DEF ListCandidates, Request
    <3>3. /\ req' \in [Requests -> Request]
          /\ \A p \in Requests :
               req'[p].pc \in {"candidate", "supersede", "claim", "save"} =>
                 req'[p].driver \in Drivers
      BY <3>1, <3>2, <2>f, RequestsStayTyped
    <3> QED
      BY <2>14, <3>3 DEF ListCandidates, TypeOK
  <2>15. CASE SaveMany(r)
    <3>1. PICK d \in req[r].todo :
            /\ candidates' = [candidates EXCEPT ![d] =
                 IF req[r].op = "confirm" /\ d = req[r].driver
                   THEN "confirmed" ELSE "canceled"]
            /\ IF req[r].todo = {d}
                 THEN Finish(r)
                 ELSE req' = [req EXCEPT ![r].todo = @ \ {d}]
      BY <2>15 DEF SaveMany
    <3> DEFINE q == [req[r] EXCEPT !.todo = @ \ {d}]
    <3>2. q \in Request /\ q.pc = "each"
      BY <2>15, <2>t DEF SaveMany, Request
    <3>3. req' = [req EXCEPT ![r] = q] \/ Finish(r)
      BY <3>1, <2>t DEF Request
    <3>4. candidates' \in [Drivers -> CandidateStatus]
      BY <3>1 DEF TypeOK, CandidateStatus
    <3>5. /\ req' \in [Requests -> Request]
          /\ \A p \in Requests :
               req'[p].pc \in {"candidate", "supersede", "claim", "save"} =>
                 req'[p].driver \in Drivers
      BY <3>2, <3>3, <2>f, RequestsStayTyped
    <3> QED
      BY <2>15, <3>4, <3>5 DEF SaveMany, TypeOK
  <2>16. CASE Fail(r)
    <3>1. failures' \in 0 .. MaxFailures
      BY <2>16, ConstantsAssumption DEF Fail, TypeOK
    <3> QED
      BY <2>16, <3>1, <2>f DEF Fail, TypeOK
  <2> QED
    BY <2>1, <2>2, <2>3, <2>4, <2>5, <2>6, <2>7, <2>8, <2>9, <2>10, <2>11,
       <2>12, <2>13, <2>14, <2>15, <2>16 DEF Step
<1> QED
  BY <1>1, <1>2 DEF Next

\* The variables of the ride, its candidates, its history and the handlers in
\* flight keep their types, whatever overlaps and whatever fails.
THEOREM TypeCorrect == Spec => []TypeOK
<1>1. Init => TypeOK
  BY InitTypeOK
<1>2. TypeOK /\ [Next]_vars => TypeOK'
  BY NextTypeOK
<1> QED
  BY <1>1, <1>2, PTL DEF Spec

-----------------------------------------------------------------------------
(***************************************************************************)
(* The inductive invariants.  The properties are not inductive: they need  *)
(* what each handler in flight still knows about the row it read.          *)
(***************************************************************************)
Accesses == {"read", "merge", "write", "reload", "history"}

\* Where a handler can be, by its operation.
Shape(q) ==
  q.pc # "idle" =>
    /\ \/ /\ q.op = "accept"
          /\ \/ q.stage = "assign" /\ q.pc \in {"candidate", "supersede", "claim", "save"}
             \/ q.stage \in {"assign", "accept"} /\ q.pc \in Accesses
       \/ /\ q.op = "cancel"
          /\ q.stage \in {"cancel", "zeroFare"}
          /\ q.pc \in Accesses \cup {"list", "each"}
       \/ /\ q.op \in {"reject", "riderReject"}
          /\ \/ q.stage = "release" /\ q.pc \in {"candidate", "save"}
             \/ q.stage \in {"release", "revert"} /\ q.pc \in Accesses
       \/ /\ q.op = "confirm" /\ q.stage = "confirm"
          /\ q.pc \in Accesses \cup {"candidate", "list", "each"}
       \/ /\ q.op = "start" /\ q.stage = "start" /\ q.pc \in Accesses
       \/ /\ q.op = "complete" /\ q.stage \in {"complete", "settle"}
          /\ q.pc \in Accesses

\* Operations outside `set' have the ride to themselves.
Exclusive(set) ==
  \A r, p \in Requests :
    r # p /\ req[r].pc # "idle" /\ req[p].pc # "idle" =>
      req[r].op \in set /\ req[p].op \in set

\* What a handler knows of driver_id, in the row and in the candidates.
DriverKnown(q, row, cand) ==
  /\ q.op = "accept" /\ q.pc \in Accesses \cup {"save"} =>
       q.driver \in Drivers /\ row.driver = q.driver
  /\ q.op = "accept" /\ q.pc = "candidate" /\ q.row.driver # NoDriver =>
       row.driver = q.row.driver
  /\ q.op \in {"confirm", "start", "complete"} /\ q.pc # "idle" =>
       q.driver \in Drivers /\ row.driver = q.driver
  /\ q.op \in {"reject", "riderReject"} /\ q.pc \in {"candidate", "save"} =>
       /\ q.row.driver = row.driver
       /\ q.op = "riderReject" => q.driver = row.driver
  /\ q.pc \in {"merge", "write", "history"} =>
       q.row.driver = IF q.stage = "release" THEN NoDriver ELSE row.driver
  /\ q.pc \in {"merge", "write"} /\ q.stage = "release" =>
       \A d \in Drivers : cand[d] \notin {"accepted", "confirmed"}

DriverInv ==
  /\ TypeOK
  /\ Exclusive(KeepDriver)
  /\ \A r \in Requests : Shape(req[r]) /\ DriverKnown(req[r], ride, candidates)
  /\ HolderHasRide

\* What a handler knows of the statuses of the ride and of its candidate.
StatusKnown(q, row, cand) ==
  /\ q.op = "accept" /\ q.pc # "idle" => row.status \notin Terminal
  /\ q.op = "accept" /\ q.pc \in {"merge", "write"} => q.row.status \notin Terminal
  /\ q.op # "accept" /\ q.pc \in {"candidate", "save", "history"} =>
       q.row.status = row.status
  /\ q.op # "accept" /\ q.pc \in {"merge", "write"} /\ row.status \in Terminal =>
       q.row.status = row.status
  /\ q.op = "accept" /\ q.pc \in {"claim", "save"} => cand[q.driver] # "declined"
  /\ q.op = "confirm" /\ q.pc \notin {"idle", "candidate"} =>
       cand[q.driver] # "declined"

StatusInv ==
  /\ TypeOK
  /\ Exclusive({"accept"})
  /\ \A r \in Requests : Shape(req[r]) /\ StatusKnown(req[r], ride, candidates)

-----------------------------------------------------------------------------
(***************************************************************************)
(* One step of a handler, seen from the handlers that do not move.         *)
(***************************************************************************)

\* A handler that goes on with its operation, or ends, keeps the exclusion.
LEMMA ExclusiveKept ==
  ASSUME NEW set, Exclusive(set), TypeOK, NEW r \in Requests, NEW q \in Request,
         req[r].pc # "idle",
         req' = [req EXCEPT ![r] = q],
         q.pc = "idle" \/ q.op = req[r].op
  PROVE  Exclusive(set)'
BY DEF Exclusive, TypeOK

\* Arriving requests respect the exclusion that Overlapping gives.
LEMMA ExclusiveOnArrival ==
  ASSUME NEW set, Overlapping \subseteq set, Exclusive(set), TypeOK,
         NEW r \in Requests, NEW op, NEW d, NEW pc, NEW stage,
         Begin(r, op, d, pc, stage)
  PROVE  Exclusive(set)'
<1>1. [Idle EXCEPT !.op = op, !.pc = pc, !.stage = stage,
                   !.driver = d, !.row = ride].op = op
  BY DEF Idle
<1>2. \A p \in Requests : p # r => req'[p] = req[p]
  BY DEF Begin, TypeOK
<1>3. req'[r].op = op
  BY <1>1 DEF Begin, TypeOK
<1>4. \A p \in Requests : req[p].pc # "idle" => op \in set /\ req[p].op \in set
  BY DEF Begin
<1> QED
  BY <1>2, <1>3, <1>4 DEF Exclusive

\* The handlers that do not move still know driver_id when it stays, when it
\* was not set, and when the one that moves is alone.
LEMMA DriverInvKept ==
  ASSUME DriverInv, TypeOK', HolderHasRide',
         NEW r \in Requests, NEW q \in Request,
         req[r].pc # "idle",
         req' = [req EXCEPT ![r] = q],
         q.pc = "idle" \/ q.op = req[r].op,
         Shape(q),
         DriverKnown(q, ride', candidates'),
         \/ ride'.driver = ride.driver
         \/ ride.driver = NoDriver
         \/ req[r].op \notin KeepDriver
  PROVE  DriverInv'
<1>1. Exclusive(KeepDriver)'
  BY ExclusiveKept DEF DriverInv
<1>2. ASSUME NEW p \in Requests
      PROVE  Shape(req'[p]) /\ DriverKnown(req'[p], ride', candidates')
  <2>1. CASE p = r
    BY <2>1 DEF DriverInv, TypeOK
  <2>2. CASE p # r /\ req[p].pc = "idle"
    BY <2>2 DEF DriverInv, TypeOK, Shape, DriverKnown, Accesses
  <2>3. CASE p # r /\ req[p].pc # "idle"
    <3>1. req'[p] = req[p]
      BY <2>3 DEF DriverInv, TypeOK
    <3>2. req[r].op \in KeepDriver /\ req[p].op \in KeepDriver
      BY <2>3 DEF DriverInv, Exclusive
    <3>3. Shape(req[p]) /\ DriverKnown(req[p], ride, candidates)
      BY DEF DriverInv
    <3>4. req[p].stage # "release" /\ req[p].op \notin {"reject", "riderReject"}
      BY <2>3, <3>2, <3>3 DEF Shape, KeepDriver
    <3>5. CASE ride'.driver = ride.driver
      BY <3>3, <3>4, <3>5 DEF DriverKnown
    <3>6. CASE ride.driver = NoDriver
      BY <2>3, <3>2, <3>3, <3>4, <3>6, ConstantsAssumption
      DEF DriverKnown, Shape, KeepDriver, Accesses
    <3> QED
      BY <3>1, <3>2, <3>3, <3>5, <3>6
  <2> QED
    BY <2>1, <2>2, <2>3
<1> QED
  BY <1>1, <1>2 DEF DriverInv

\* A handler that ended knows nothing and needs nothing.
LEMMA IdleKnows ==
  ASSUME NEW row, NEW cand
  PROVE  /\ Idle \in Request /\ Idle.pc = "idle"
         /\ Shape(Idle)
         /\ DriverKnown(Idle, row, cand)
         /\ StatusKnown(Idle, row, cand)
BY IdleType DEF Idle, Shape, DriverKnown, StatusKnown, Accesses

\* Where a handler in a given stage goes on, field by field.
LEMMA ContinueShape ==
  ASSUME NEW q \in Request, NEW row \in Ride, Shape(q), q.pc # "idle",
         q.pc \in Accesses
  PROVE  LET n == Continue(q, row) IN
         \/ n = Idle
         \/ /\ n.op = q.op /\ n.driver = q.driver /\ Shape(n)
            /\ \/ n.pc \in {"read", "list"}
               \/ /\ n.pc = "merge" /\ n.stage \in {"zeroFare", "settle"}
                  /\ n.row.driver = row.driver /\ n.row.status = row.status
                  /\ n.op \in {"cancel", "complete"}
            /\ n.pc = "list" => n.op \in {"cancel", "confirm"}
<1> DEFINE n == Continue(q, row)
<1>1. q.stage \in Transitions \cup Updates
  BY DEF Request
<1>2. CASE q.stage = "assign"
  BY <1>2 DEF Continue, Shape, Request, Accesses
<1>3. CASE q.stage = "release"
  BY <1>3 DEF Continue, Shape, Request, Accesses
<1>4. CASE q.stage = "cancel"
  <2>1. n = [q EXCEPT !.stage = "zeroFare", !.pc = "merge",
                      !.row = [row EXCEPT !.fare = "zero"]]
    BY <1>4 DEF Continue
  <2> QED
    BY <1>4, <2>1 DEF Shape, Request, Accesses, Ride
<1>5. CASE q.stage = "complete"
  <2>1. n = [q EXCEPT !.stage = "settle", !.pc = "merge",
                      !.row = [row EXCEPT !.fare = "due"]]
    BY <1>5 DEF Continue
  <2> QED
    BY <1>5, <2>1 DEF Shape, Request, Accesses, Ride
<1>6. CASE q.stage \in {"zeroFare", "confirm"}
  BY <1>6 DEF Continue, Shape, Request, Accesses
<1>7. CASE q.stage \in {"accept", "revert", "start", "settle"}
  BY <1>7 DEF Continue
<1> QED
  BY <1>1, <1>2, <1>3, <1>4, <1>5, <1>6, <1>7 DEF Transitions, Updates

-----------------------------------------------------------------------------
(***************************************************************************)
(* One driver at a time.                                                   *)
(***************************************************************************)

\* DriverInv holds initially.
LEMMA InitDriverInv == Init => DriverInv
BY InitTypeOK, IdleKnows DEF Init, DriverInv, Exclusive, HolderHasRide

\* Every step keeps DriverInv when only operations that keep the driver
\* overlap.
LEMMA NextDriverInv ==
  ASSUME Overlapping \subseteq KeepDriver, DriverInv, [Next]_vars
  PROVE  DriverInv'
<1>t. TypeOK /\ TypeOK'
  BY NextTypeOK DEF DriverInv
<1>1. CASE UNCHANGED vars
  <2>1. Exclusive(KeepDriver)'
    BY <1>1 DEF DriverInv, Exclusive, vars
  <2> QED
    BY <1>1, <1>t, <2>1 DEF DriverInv, HolderHasRide, vars
<1>2. ASSUME NEW r \in Requests, Arrive(r)
      PROVE  DriverInv'
  <2>1. PICK op \in Operations, d \in Drivers \cup {NoDriver, ride.driver},
             pc \in PC, stage \in Transitions \cup Updates :
             Arrival(r, op, d, pc, stage)
    BY <1>2, ArrivalShape
  <2> DEFINE q == [Idle EXCEPT !.op = op, !.pc = pc, !.stage = stage,
                               !.driver = d, !.row = ride]
  <2>2. /\ q.op = op /\ q.pc = pc /\ q.stage = stage
        /\ q.driver = d /\ q.row = ride
    BY DEF Idle
  <2>3. /\ req' = [req EXCEPT ![r] = q]
        /\ UNCHANGED <<ride, candidates>>
    BY <2>1 DEF Arrival, Begin
  <2>4. Exclusive(KeepDriver)'
    BY <2>1, ExclusiveOnArrival DEF Arrival, DriverInv
  <2>5. Shape(q)
    BY <2>1, <2>2 DEF Arrival, Shape, Accesses
  <2>6. ride.driver \in Drivers \cup {NoDriver}
    BY <1>t DEF TypeOK, Ride
  <2>7. DriverKnown(q, ride, candidates)
    BY <2>1, <2>2, <2>6 DEF Arrival, DriverKnown, Accesses
  <2>8. \A p \in Requests : Shape(req'[p]) /\ DriverKnown(req'[p], ride, candidates)
    BY <2>3, <2>5, <2>7, <1>t DEF DriverInv, TypeOK
  <2> QED
    BY <1>t, <2>3, <2>4, <2>8 DEF DriverInv, HolderHasRide
<1>3. ASSUME NEW r \in Requests, Step(r) \/ Fail(r)
      PROVE  DriverInv'
  <2>t. /\ ride \in Ride
        /\ req[r] \in Request
        /\ req[r].row \in Ride
        /\ Shape(req[r])
        /\ DriverKnown(req[r], ride, candidates)
    BY <1>t DEF DriverInv, TypeOK, Request
  \* The steps that end the request and leave driver_id alone.
  <2>f. ASSUME Finish(r), ride' = ride, HolderHasRide', req[r].pc # "idle"
        PROVE  DriverInv'
    BY <2>f, <1>t, IdleKnows, DriverInvKept DEF Finish
  \* The steps that only move the program counter.
  <2>p. ASSUME NEW pc \in PC, Goto(r, pc), ride' = ride, HolderHasRide',
               req[r].pc # "idle",
               Shape([req[r] EXCEPT !.pc = pc]),
               DriverKnown([req[r] EXCEPT !.pc = pc], ride, candidates')
        PROVE  DriverInv'
    <3> DEFINE q == [req[r] EXCEPT !.pc = pc]
    <3>1. q \in Request /\ q.op = req[r].op
      BY <2>t DEF Request
    <3>2. req' = [req EXCEPT ![r] = q]
      BY <2>p DEF Goto
    <3>3. Shape(q) /\ DriverKnown(q, ride', candidates')
      BY <2>p
    <3> HIDE DEF q
    <3> QED
      BY <2>p, <1>t, <3>1, <3>2, <3>3, DriverInvKept
  \* The steps that leave a transition or an update.
  <2>c. ASSUME NEW row \in Ride, row.driver = ride.driver,
               req' = [req EXCEPT ![r] = Continue(req[r], row)],
               ride' = ride, candidates' = candidates,
               req[r].pc \in Accesses
        PROVE  DriverInv'
    <3> DEFINE q == Continue(req[r], row)
    <3>1. HolderHasRide'
      BY <2>c DEF DriverInv, HolderHasRide
    <3>2. req[r].pc # "idle"
      BY <2>c DEF Accesses
    <3>3. q \in Request
      BY <2>t, ContinueType
    <3>4. \/ q = Idle
          \/ /\ q.op = req[r].op /\ q.driver = req[r].driver /\ Shape(q)
             /\ \/ q.pc \in {"read", "list"}
                \/ /\ q.pc = "merge" /\ q.stage \in {"zeroFare", "settle"}
                   /\ q.row.driver = row.driver
                   /\ q.op \in {"cancel", "complete"}
             /\ q.pc = "list" => q.op \in {"cancel", "confirm"}
      BY <2>t, <2>c, <3>2, ContinueShape
    <3> HIDE DEF q
    <3>5. CASE q = Idle
      BY <2>c, <1>t, <3>1, <3>2, <3>5, IdleKnows, DriverInvKept DEF q
    <3>6. CASE q # Idle
      <4>1. DriverKnown(q, ride, candidates)
        BY <2>t, <2>c, <3>4, <3>6 DEF DriverKnown, Accesses
      <4> QED
        BY <2>c, <1>t, <3>1, <3>2, <3>3, <3>4, <3>6, <4>1, DriverInvKept DEF q
    <3> QED
      BY <3>5, <3>6
  <2>h. ride' = ride /\ candidates' = candidates => HolderHasRide'
    BY DEF DriverInv, HolderHasRide
  <2>1. CASE AcceptCandidate(r)
    <3>1. CASE Finish(r)
      BY <2>1, <3>1, <2>f, <2>h DEF AcceptCandidate
    <3>2. CASE ~Finish(r)
      <4> DEFINE pc == IF req[r].row.driver = NoDriver THEN "claim"
                       ELSE IF req[r].row.driver = req[r].driver
                              THEN "save" ELSE "supersede"
                 q == [req[r] EXCEPT !.pc = pc]
      <4>1. /\ Goto(r, pc) /\ ride' = ride /\ candidates' = candidates
            /\ req[r].pc = "candidate" /\ req[r].op = "accept"
        BY <2>1, <3>2 DEF AcceptCandidate
      <4>2. /\ q.pc = pc /\ q.op = "accept" /\ q.stage = req[r].stage
            /\ q.driver = req[r].driver /\ q.row = req[r].row
        BY <2>t, <4>1 DEF Request
      <4>3. Shape(q)
        BY <2>t, <4>1, <4>2 DEF Shape, Accesses
      <4>4. req[r].driver \in Drivers
        BY <1>t, <4>1 DEF TypeOK
      <4>5. DriverKnown(q, ride, candidates)
        BY <2>t, <4>1, <4>2, <4>4 DEF DriverKnown, Accesses
      <4>6. pc \in PC
        BY DEF PC
      <4> HIDE DEF pc
      <4> QED
        BY <2>p, <2>h, <4>1, <4>3, <4>5, <4>6
    <3> QED
      BY <3>1, <3>2
  <2>2. CASE RejectCandidate(r)
    <3> DEFINE q == [req[r] EXCEPT !.pc = "save"]
    <3>1. /\ ride' = ride /\ candidates' = candidates
          /\ req[r].pc = "candidate" /\ req[r].op = "reject"
          /\ Finish(r) \/ Goto(r, "save")
      BY <2>2 DEF RejectCandidate
    <3>2. /\ q.pc = "save" /\ q.op = "reject" /\ q.stage = req[r].stage
          /\ q.driver = req[r].driver /\ q.row = req[r].row
      BY <2>t, <3>1 DEF Request
    <3>3. Shape(q) /\ DriverKnown(q, ride, candidates)
      BY <2>t, <3>1, <3>2 DEF Shape, DriverKnown, Accesses
    <3> QED
      BY <2>p, <2>f, <2>h, <3>1, <3>3 DEF PC
  <2>3. CASE ConfirmCandidate(r)
    <3> DEFINE q == [req[r] EXCEPT !.pc = "read"]
    <3>1. /\ ride' = ride /\ candidates' = candidates
          /\ req[r].pc = "candidate" /\ req[r].op = "confirm"
          /\ Finish(r) \/ Goto(r, "read")
      BY <2>3 DEF ConfirmCandidate
    <3>2. /\ q.pc = "read" /\ q.op = "confirm" /\ q.stage = req[r].stage
          /\ q.driver = req[r].driver /\ q.row = req[r].row
      BY <2>t, <3>1 DEF Request
    <3>3. Shape(q) /\ DriverKnown(q, ride, candidates)
      BY <2>t, <3>1, <3>2 DEF Shape, DriverKnown, Accesses
    <3> QED
      BY <2>p, <2>f, <2>h, <3>1, <3>3 DEF PC
  <2>4. CASE RiderRejectCandidate(r)
    <3> DEFINE q == [req[r] EXCEPT !.pc = "save"]
    <3>1. /\ ride' = ride /\ candidates' = candidates
          /\ req[r].pc = "candidate" /\ req[r].op = "riderReject"
          /\ Goto(r, "save")
      BY <2>4 DEF RiderRejectCandidate
    <3>2. /\ q.pc = "save" /\ q.op = "riderReject" /\ q.stage = req[r].stage
          /\ q.driver = req[r].driver /\ q.row = req[r].row
      BY <2>t, <3>1 DEF Request
    <3>3. Shape(q) /\ DriverKnown(q, ride, candidates)
      BY <2>t, <3>1, <3>2 DEF Shape, DriverKnown, Accesses
    <3> QED
      BY <2>p, <2>f, <2>h, <3>1, <3>3 DEF PC
  <2>5. CASE MarkCandidateSuperseded(r)
    <3>1. HolderHasRide'
      BY <2>5, <1>t DEF MarkCandidateSuperseded, DriverInv, HolderHasRide, TypeOK
    <3> QED
      BY <2>5, <3>1, <2>f DEF MarkCandidateSuperseded
  <2>6. CASE ClaimDriver(r)
    <3>1. CASE Finish(r) /\ UNCHANGED ride
      BY <2>6, <3>1, <2>f, <2>h DEF ClaimDriver
    <3>2. CASE ~(Finish(r) /\ UNCHANGED ride)
      <4> DEFINE q == [req[r] EXCEPT !.pc = "save"]
      <4>1. /\ ride.driver = NoDriver
            /\ ride' = [ride EXCEPT !.driver = req[r].driver]
            /\ Goto(r, "save") /\ candidates' = candidates
            /\ req[r].pc = "claim"
        BY <2>6, <3>2 DEF ClaimDriver
      <4>2. req[r].driver \in Drivers /\ req[r].op = "accept"
        BY <4>1, <1>t, <2>t DEF TypeOK, Shape, Accesses
      <4>3. /\ q \in Request
            /\ q.pc = "save" /\ q.op = "accept" /\ q.stage = req[r].stage
            /\ q.driver = req[r].driver
        BY <2>t, <4>2 DEF Request, PC
      <4>4. ride'.driver = req[r].driver
        BY <4>1, <2>t DEF Ride
      <4>5. Shape(q) /\ DriverKnown(q, ride', candidates')
        BY <2>t, <4>1, <4>2, <4>3, <4>4 DEF Shape, DriverKnown, Accesses
      <4>6. HolderHasRide'
        BY <4>1, ConstantsAssumption DEF DriverInv, HolderHasRide
      <4>7. req' = [req EXCEPT ![r] = q]
        BY <4>1 DEF Goto
      <4> HIDE DEF q
      <4> QED
        BY <1>t, <4>1, <4>2, <4>3, <4>5, <4>6, <4>7, DriverInvKept
    <3> QED
      BY <3>1, <3>2
  <2>7. CASE SaveCandidate(r)
    <3>1. /\ req[r].pc = "save" /\ ride' = ride
          /\ req[r].op \in {"accept", "reject", "riderReject"}
          /\ candidates' = [candidates EXCEPT ![req[r].driver] = AnswerOf[req[r].op]]
          /\ req[r].driver \in Drivers
      BY <2>7, <1>t DEF SaveCandidate, TypeOK
    <3>2. CASE req[r].op = "accept"
      <4> DEFINE q == [req[r] EXCEPT !.pc = "read"]
      <4>1. Goto(r, "read")
        BY <2>7, <3>2 DEF SaveCandidate
      <4>2. ride.driver = req[r].driver
        BY <2>t, <3>1, <3>2 DEF DriverKnown
      <4>3. HolderHasRide'
        BY <3>1, <4>2, <1>t DEF DriverInv, HolderHasRide, TypeOK
      <4>4. /\ q.pc = "read" /\ q.op = "accept" /\ q.stage = req[r].stage
            /\ q.driver = req[r].driver /\ q.row = req[r].row
        BY <2>t, <3>2 DEF Request
      <4>5. Shape(q) /\ DriverKnown(q, ride, candidates')
        BY <2>t, <3>1, <3>2, <4>2, <4>4 DEF Shape, DriverKnown, Accesses
      <4> QED
        BY <2>p, <3>1, <4>1, <4>3, <4>5 DEF PC
    <3>3. CASE req[r].op # "accept"
      <4>1. candidates'[req[r].driver] \in {"declined", "canceled"}
        BY <3>1, <3>3, <1>t DEF AnswerOf, TypeOK
      <4>2. \A d \in Drivers : candidates'[d] \in {"accepted", "confirmed"} =>
              d # req[r].driver /\ candidates'[d] = candidates[d]
        BY <3>1, <4>1, <1>t DEF TypeOK
      <4>3. HolderHasRide'
        BY <3>1, <4>2 DEF DriverInv, HolderHasRide
      <4>4. CASE Finish(r)
        BY <2>f, <3>1, <4>3, <4>4
      <4>5. CASE ~Finish(r)
        <5> DEFINE q == [req[r] EXCEPT !.row = [@ EXCEPT !.driver = NoDriver],
                                       !.pc = "merge"]
        <5>1. /\ req' = [req EXCEPT ![r] = q]
              /\ req[r].op = "riderReject" \/ req[r].row.driver = req[r].driver
          BY <2>7, <3>3, <4>5, <2>t DEF SaveCandidate, Request, Ride
        <5>2. /\ q \in Request /\ q.op = req[r].op /\ q.stage = req[r].stage
              /\ q.pc = "merge" /\ q.row.driver = NoDriver
          BY <2>t DEF Request, Ride, PC
        <5>3. req[r].stage = "release" /\ ride.driver = req[r].driver
          BY <2>t, <3>1, <3>3, <5>1 DEF Shape, DriverKnown, Accesses
        <5>4. \A d \in Drivers : candidates'[d] \notin {"accepted", "confirmed"}
          BY <4>2, <5>3 DEF DriverInv, HolderHasRide
        <5>5. Shape(q) /\ DriverKnown(q, ride', candidates')
          BY <2>t, <3>1, <3>3, <5>2, <5>3, <5>4 DEF Shape, DriverKnown, Accesses
        <5> HIDE DEF q
        <5> QED
          BY <1>t, <3>1, <4>3, <5>1, <5>2, <5>5, DriverInvKept
      <4> QED
        BY <4>4, <4>5
    <3> QED
      BY <3>2, <3>3
  <2>8. CASE TransitionRideStatus(r)
    <3>1. req[r].pc = "read" /\ ride' = ride /\ candidates' = candidates
      BY <2>8 DEF TransitionRideStatus
    <3>2. CASE req' = [req EXCEPT ![r] = Continue(req[r], ride)]
      BY <2>c, <2>t, <3>1, <3>2 DEF Accesses
    <3>3. CASE req' # [req EXCEPT ![r] = Continue(req[r], ride)]
      <4> DEFINE q == [req[r] EXCEPT !.row = [ride EXCEPT !.status = NextStatus[req[r].stage]],
                                     !.from = ride.status, !.pc = "merge"]
      <4>1. /\ req' = [req EXCEPT ![r] = q]
            /\ req[r].stage \in Transitions
        BY <2>8, <3>3, <2>t DEF TransitionRideStatus, Request
      <4>2. NextStatus[req[r].stage] \in RideStatus
        BY <4>1, TransitionTables
      <4>3. /\ q \in Request /\ q.op = req[r].op /\ q.stage = req[r].stage
            /\ q.driver = req[r].driver
            /\ q.pc = "merge" /\ q.row.driver = ride.driver
        BY <2>t, <4>2 DEF Request, Ride, PC
      <4>4. Shape(q)
        BY <2>t, <3>1, <4>3 DEF Shape, Accesses
      <4>5. req[r].stage # "release"
        BY <4>1 DEF Transitions
      <4>6. DriverKnown(q, ride', candidates')
        BY <2>t, <3>1, <4>3, <4>5 DEF DriverKnown, Accesses
      <4> HIDE DEF q
      <4> QED
        BY <1>t, <2>h, <3>1, <4>1, <4>3, <4>4, <4>6, DriverInvKept
    <3> QED
      BY <3>2, <3>3
  <2>9. CASE UpdateRideMerge(r)
    <3> DEFINE q == [req[r] EXCEPT !.row = MergeRideData(ride, @), !.pc = "write"]
    <3>1. /\ req[r].pc = "merge" /\ ride' = ride /\ candidates' = candidates
          /\ req' = [req EXCEPT ![r] = q]
      BY <2>9, <2>t DEF UpdateRideMerge, Request
    <3>2. /\ q \in Request /\ q.op = req[r].op /\ q.stage = req[r].stage
          /\ q.driver = req[r].driver
          /\ q.pc = "write" /\ q.row.driver = req[r].row.driver
      BY <2>t, MergeType DEF Request, PC
    <3>3. Shape(q)
      BY <2>t, <3>1, <3>2 DEF Shape, Accesses
    <3>4. DriverKnown(q, ride', candidates')
      BY <2>t, <3>1, <3>2 DEF DriverKnown, Accesses
    <3> HIDE DEF q
    <3> QED
      BY <1>t, <2>h, <3>1, <3>2, <3>3, <3>4, DriverInvKept
  <2>10. CASE UpdateRideWrite(r)
    <3> DEFINE q == [req[r] EXCEPT !.pc = "reload"]
    <3>1. /\ req[r].pc = "write" /\ ride' = req[r].row /\ candidates' = candidates
          /\ req' = [req EXCEPT ![r] = q]
      BY <2>10 DEF UpdateRideWrite, Goto
    <3>2. /\ q \in Request /\ q.op = req[r].op /\ q.stage = req[r].stage
          /\ q.driver = req[r].driver /\ q.pc = "reload"
      BY <2>t DEF Request, PC
    <3>3. ride'.driver = IF req[r].stage = "release" THEN NoDriver ELSE ride.driver
      BY <2>t, <3>1 DEF DriverKnown
    <3>4. req[r].stage = "release" =>
            /\ req[r].op \in {"reject", "riderReject"}
            /\ \A d \in Drivers : candidates'[d] \notin {"accepted", "confirmed"}
      BY <2>t, <3>1 DEF DriverKnown, Shape
    <3>5. Shape(q)
      BY <2>t, <3>1, <3>2 DEF Shape, Accesses
    <3>6. DriverKnown(q, ride', candidates')
      BY <2>t, <3>1, <3>2, <3>3, <3>4 DEF DriverKnown, Accesses
    <3>7. HolderHasRide'
      BY <3>1, <3>3, <3>4 DEF DriverInv, HolderHasRide
    <3> HIDE DEF q
    <3> QED
      BY <1>t, <3>1, <3>2, <3>3, <3>4, <3>5, <3>6, <3>7, DriverInvKept DEF KeepDriver
  <2>11. CASE UpdateRideReload(r)
    <3>1. req[r].pc = "reload" /\ ride' = ride /\ candidates' = candidates
      BY <2>11 DEF UpdateRideReload
    <3>2. CASE req' = [req EXCEPT ![r] = Continue(req[r], ride)]
      BY <2>c, <2>t, <3>1, <3>2 DEF Accesses
    <3>3. CASE req' # [req EXCEPT ![r] = Continue(req[r], ride)]
      <4> DEFINE q == [req[r] EXCEPT !.row = ride, !.pc = "history"]
      <4>1. req' = [req EXCEPT ![r] = q] /\ req[r].stage \in Transitions
        BY <2>11, <3>3, <2>t DEF UpdateRideReload, Request
      <4>2. /\ q \in Request /\ q.op = req[r].op /\ q.stage = req[r].stage
            /\ q.driver = req[r].driver /\ q.pc = "history" /\ q.row = ride
        BY <2>t DEF Request, PC
      <4>3. Shape(q)
        BY <2>t, <3>1, <4>2 DEF Shape, Accesses
      <4>4. req[r].stage # "release"
        BY <4>1 DEF Transitions
      <4>5. DriverKnown(q, ride', candidates')
        BY <2>t, <3>1, <4>2, <4>4 DEF DriverKnown, Accesses
      <4> HIDE DEF q
      <4> QED
        BY <1>t, <2>h, <3>1, <4>1, <4>2, <4>3, <4>5, DriverInvKept
    <3> QED
      BY <3>2, <3>3
  <2>12. CASE RecordStatusChange(r)
    <3>1. /\ req[r].pc = "history" /\ ride' = ride /\ candidates' = candidates
          /\ req[r].stage \in Transitions
          /\ req' = [req EXCEPT ![r] = Continue(req[r], req[r].row)]
      BY <2>12, <1>t DEF RecordStatusChange, TypeOK
    <3>2. req[r].row.driver = ride.driver
      BY <2>t, <3>1 DEF DriverKnown, Transitions
    <3> QED
      BY <2>c, <2>t, <3>1, <3>2 DEF Accesses
  <2>13. CASE ListCandidates(r)
    <3>1. req[r].pc = "list" /\ ride' = ride /\ candidates' = candidates
      BY <2>13 DEF ListCandidates
    <3>2. CASE Finish(r)
      BY <2>f, <2>h, <3>1, <3>2
    <3>3. CASE ~Finish(r)
      <4> DEFINE q == [req[r] EXCEPT !.todo = ToUpdate(req[r]), !.pc = "each"]
      <4>1. req' = [req EXCEPT ![r] = q]
        BY <2>13, <3>3, <2>t DEF ListCandidates, Request
      <4>2. /\ q \in Request /\ q.op = req[r].op /\ q.stage = req[r].stage
            /\ q.driver = req[r].driver /\ q.pc = "each" /\ q.row = req[r].row
        BY <2>t DEF Request, PC, ToUpdate
      <4>3. Shape(q) /\ DriverKnown(q, ride', candidates')
        BY <2>t, <3>1, <4>2 DEF Shape, DriverKnown, Accesses
      <4> HIDE DEF q
      <4> QED
        BY <1>t, <2>h, <3>1, <4>1, <4>2, <4>3, DriverInvKept
    <3> QED
      BY <3>2, <3>3
  <2>14. CASE SaveMany(r)
    <3>1. req[r].pc = "each" /\ ride' = ride
      BY <2>14 DEF SaveMany
    <3>2. PICK d \in req[r].todo :
            /\ candidates' = [candidates EXCEPT ![d] =
                 IF req[r].op = "confirm" /\ d = req[r].driver
                   THEN "confirmed" ELSE "canceled"]
            /\ IF req[r].todo = {d}
                 THEN Finish(r)
                 ELSE req' = [req EXCEPT ![r].todo = @ \ {d}]
      BY <2>14 DEF SaveMany
    <3>3. d \in Drivers
      BY <2>t DEF Request
    <3>4. req[r].op = "confirm" => ride.driver = req[r].driver
      BY <2>t, <3>1 DEF DriverKnown
    <3>5. HolderHasRide'
      BY <3>1, <3>2, <3>3, <3>4, <1>t DEF DriverInv, HolderHasRide, TypeOK
    <3>6. CASE Finish(r)
      BY <2>f, <3>1, <3>5, <3>6
    <3>7. CASE ~Finish(r)
      <4> DEFINE q == [req[r] EXCEPT !.todo = @ \ {d}]
      <4>1. req' = [req EXCEPT ![r] = q]
        BY <3>2, <3>7, <2>t DEF Request
      <4>2. /\ q \in Request /\ q.op = req[r].op /\ q.stage = req[r].stage
            /\ q.driver = req[r].driver /\ q.pc = "each" /\ q.row = req[r].row
        BY <2>t, <3>1 DEF Request
      <4>3. Shape(q) /\ DriverKnown(q, ride', candidates')
        BY <2>t, <3>1, <4>2 DEF Shape, DriverKnown, Accesses
      <4> HIDE DEF q
      <4> QED
        BY <1>t, <3>1, <3>5, <4>1, <4>2, <4>3, DriverInvKept
    <3> QED
      BY <3>6, <3>7
  <2>15. CASE Fail(r)
    BY <2>15, <2>f, <2>h DEF Fail
  <2> QED
    BY <1>3, <2>1, <2>2, <2>3, <2>4, <2>5, <2>6, <2>7, <2>8, <2>9, <2>10,
       <2>11, <2>12, <2>13, <2>14, <2>15 DEF Step
<1> QED
  BY <1>1, <1>2, <1>3 DEF Next

\* Only claimDriver and updateRide write driver_id: the first when it is not
\* set, the second with the driver the row has or with none.
LEMMA NextNoHandover ==
  ASSUME DriverInv, [Next]_vars
  PROVE  ride'.driver # ride.driver => NoDriver \in {ride.driver, ride'.driver}
<1>1. CASE UNCHANGED ride
  BY <1>1
<1>2. CASE ~UNCHANGED ride
  <2>1. PICK r \in Requests : Arrive(r) \/ Step(r) \/ Fail(r)
    BY <1>2 DEF Next, vars
  <2>2. ClaimDriver(r) \/ UpdateRideWrite(r)
    BY <1>2, <2>1
    DEF Arrive, CancelRide, AcceptRideByDriver, RejectRideByDriver,
        ConfirmDriverAcceptance, RejectDriverAcceptance, StartRide,
        CompleteRide, Begin, Step, AcceptCandidate, RejectCandidate,
        ConfirmCandidate, RiderRejectCandidate, MarkCandidateSuperseded,
        SaveCandidate, TransitionRideStatus, UpdateRideMerge,
        UpdateRideReload, RecordStatusChange, ListCandidates, SaveMany, Fail
  <2>3. CASE ClaimDriver(r)
    BY <1>2, <2>3 DEF ClaimDriver
  <2>4. CASE UpdateRideWrite(r)
    BY <2>4 DEF UpdateRideWrite, DriverInv, DriverKnown
  <2> QED
    BY <2>2, <2>3, <2>4
<1> QED
  BY <1>1, <1>2

\* As long as the requests that overlap are accepts, confirmations, starts and
\* completions, only the driver in driver_id has an accepted or a confirmed
\* candidate, for any number of drivers, requests and failures.
THEOREM OneDriver ==
  ASSUME Overlapping \subseteq KeepDriver
  PROVE  Spec => []HolderHasRide
<1>1. Init => DriverInv
  BY InitDriverInv
<1>2. DriverInv /\ [Next]_vars => DriverInv'
  BY NextDriverInv
<1>3. DriverInv => HolderHasRide
  BY DEF DriverInv
<1> QED
  BY <1>1, <1>2, <1>3, PTL DEF Spec

\* Under the same assumption a ride goes from one driver to another only
\* through being released.
THEOREM DriverIsReleasedFirst ==
  ASSUME Overlapping \subseteq KeepDriver
  PROVE  Spec => NoHandover
<1>1. Init => DriverInv
  BY InitDriverInv
<1>2. DriverInv /\ [Next]_vars => DriverInv'
  BY NextDriverInv
<1>3. DriverInv /\ [Next]_vars =>
        [ride'.driver # ride.driver => NoDriver \in {ride.driver, ride'.driver}]_vars
  BY NextNoHandover
<1> QED
  BY <1>1, <1>2, <1>3, PTL DEF Spec, NoHandover

-----------------------------------------------------------------------------
(***************************************************************************)
(* What each handler knows of the statuses when only accepts overlap, on   *)
(* which the refinement rests.                                             *)
(***************************************************************************)

\* StatusInv holds initially.
LEMMA InitStatusInv == Init => StatusInv
BY InitTypeOK, IdleKnows DEF Init, StatusInv, Exclusive

\* The handlers that do not move still know the statuses when the one that
\* moves leaves a ride that is not over so, and no answer becomes declined
\* while another handler is in flight.
LEMMA StatusInvKept ==
  ASSUME StatusInv, TypeOK',
         NEW r \in Requests, NEW q \in Request,
         req[r].pc # "idle",
         req' = [req EXCEPT ![r] = q],
         q.pc = "idle" \/ q.op = req[r].op,
         Shape(q),
         StatusKnown(q, ride', candidates'),
         req[r].op = "accept" =>
           /\ ride.status \notin Terminal => ride'.status \notin Terminal
           /\ \A d \in Drivers : candidates[d] # "declined" => candidates'[d] # "declined"
  PROVE  StatusInv'
<1>1. Exclusive({"accept"})'
  BY ExclusiveKept DEF StatusInv
<1>2. ASSUME NEW p \in Requests
      PROVE  Shape(req'[p]) /\ StatusKnown(req'[p], ride', candidates')
  <2>1. CASE p = r
    BY <2>1 DEF StatusInv, TypeOK
  <2>2. CASE p # r /\ req[p].pc = "idle"
    BY <2>2 DEF StatusInv, TypeOK, Shape, StatusKnown
  <2>3. CASE p # r /\ req[p].pc # "idle"
    <3>1. req'[p] = req[p]
      BY <2>3 DEF StatusInv, TypeOK
    <3>2. req[r].op = "accept" /\ req[p].op = "accept"
      BY <2>3 DEF StatusInv, Exclusive
    <3>3. Shape(req[p]) /\ StatusKnown(req[p], ride, candidates)
      BY DEF StatusInv
    <3>4. req[p].pc \in {"claim", "save"} => req[p].driver \in Drivers
      BY DEF StatusInv, TypeOK
    <3>5. StatusKnown(req[p], ride', candidates')
      BY <2>3, <3>2, <3>3, <3>4 DEF StatusKnown
    <3> QED
      BY <3>1, <3>3, <3>5
  <2> QED
    BY <2>1, <2>2, <2>3
<1> QED
  BY <1>1, <1>2 DEF StatusInv

\* Every step keeps StatusInv when only accepts overlap.
LEMMA NextStatusInv ==
  ASSUME Overlapping \subseteq {"accept"}, StatusInv, [Next]_vars
  PROVE  StatusInv'
<1>t. TypeOK /\ TypeOK'
  BY NextTypeOK DEF StatusInv
<1>1. CASE UNCHANGED vars
  <2>1. Exclusive({"accept"})'
    BY <1>1 DEF StatusInv, Exclusive, vars
  <2> QED
    BY <1>1, <1>t, <2>1 DEF StatusInv, vars
<1>2. ASSUME NEW r \in Requests, Arrive(r)
      PROVE  StatusInv'
  <2>1. PICK op \in Operations, d \in Drivers \cup {NoDriver, ride.driver},
             pc \in PC, stage \in Transitions \cup Updates :
             Arrival(r, op, d, pc, stage)
    BY <1>2, ArrivalShape
  <2> DEFINE q == [Idle EXCEPT !.op = op, !.pc = pc, !.stage = stage,
                               !.driver = d, !.row = ride]
  <2>2. /\ q.op = op /\ q.pc = pc /\ q.stage = stage
        /\ q.driver = d /\ q.row = ride
    BY DEF Idle
  <2>3. /\ req' = [req EXCEPT ![r] = q]
        /\ UNCHANGED <<ride, candidates>>
    BY <2>1 DEF Arrival, Begin
  <2>4. Exclusive({"accept"})'
    BY <2>1, ExclusiveOnArrival DEF Arrival, StatusInv
  <2>5. Shape(q)
    BY <2>1, <2>2 DEF Arrival, Shape, Accesses
  <2>6. StatusKnown(q, ride, candidates)
    BY <2>1, <2>2 DEF Arrival, StatusKnown
  <2>7. \A p \in Requests : Shape(req'[p]) /\ StatusKnown(req'[p], ride, candidates)
    BY <2>3, <2>5, <2>6, <1>t DEF StatusInv, TypeOK
  <2> QED
    BY <1>t, <2>3, <2>4, <2>7 DEF StatusInv
<1>3. ASSUME NEW r \in Requests, Step(r) \/ Fail(r)
      PROVE  StatusInv'
  <2>t. /\ ride \in Ride
        /\ req[r] \in Request
        /\ req[r].row \in Ride
        /\ Shape(req[r])
        /\ StatusKnown(req[r], ride, candidates)
    BY <1>t DEF StatusInv, TypeOK, Request
  \* The steps that end the request.
  <2>f. ASSUME Finish(r), ride' = ride, req[r].pc # "idle",
               req[r].op = "accept" =>
                 \A d \in Drivers : candidates[d] # "declined" => candidates'[d] # "declined"
        PROVE  StatusInv'
    BY <2>f, <1>t, IdleKnows, StatusInvKept DEF Finish
  \* The steps that only move the program counter.
  <2>p. ASSUME NEW pc \in PC, Goto(r, pc), ride'.status = ride.status,
               req[r].pc # "idle",
               req[r].op = "accept" =>
                 \A d \in Drivers : candidates[d] # "declined" => candidates'[d] # "declined",
               Shape([req[r] EXCEPT !.pc = pc]),
               StatusKnown([req[r] EXCEPT !.pc = pc], ride', candidates')
        PROVE  StatusInv'
    <3> DEFINE q == [req[r] EXCEPT !.pc = pc]
    <3>1. q \in Request /\ q.op = req[r].op
      BY <2>t DEF Request
    <3>2. req' = [req EXCEPT ![r] = q]
      BY <2>p DEF Goto
    <3>3. Shape(q) /\ StatusKnown(q, ride', candidates')
      BY <2>p
    <3> HIDE DEF q
    <3> QED
      BY <2>p, <1>t, <3>1, <3>2, <3>3, StatusInvKept
  \* The steps that leave a transition or an update.
  <2>c. ASSUME NEW row \in Ride, req[r].op # "accept" => row.status = ride.status,
               req' = [req EXCEPT ![r] = Continue(req[r], row)],
               ride' = ride, candidates' = candidates,
               req[r].pc \in Accesses
        PROVE  StatusInv'
    <3> DEFINE q == Continue(req[r], row)
    <3>1. req[r].pc # "idle"
      BY <2>c DEF Accesses
    <3>2. q \in Request
      BY <2>t, ContinueType
    <3>3. \/ q = Idle
          \/ /\ q.op = req[r].op /\ q.driver = req[r].driver /\ Shape(q)
             /\ \/ q.pc \in {"read", "list"}
                \/ /\ q.pc = "merge"
                   /\ q.row.status = row.status
                   /\ q.op \in {"cancel", "complete"}
      BY <2>t, <2>c, <3>1, ContinueShape
    <3> HIDE DEF q
    <3>4. CASE q = Idle
      BY <2>c, <1>t, <3>1, <3>4, IdleKnows, StatusInvKept DEF q
    <3>5. CASE q # Idle
      <4>1. StatusKnown(q, ride, candidates)
        BY <2>t, <2>c, <3>3, <3>5 DEF StatusKnown, Accesses
      <4> QED
        BY <2>c, <1>t, <3>1, <3>2, <3>3, <3>5, <4>1, StatusInvKept DEF q
    <3> QED
      BY <3>4, <3>5
  <2>1. CASE AcceptCandidate(r)
    <3>1. CASE Finish(r)
      BY <2>1, <3>1, <2>f DEF AcceptCandidate
    <3>2. CASE ~Finish(r)
      <4> DEFINE pc == IF req[r].row.driver = NoDriver THEN "claim"
                       ELSE IF req[r].row.driver = req[r].driver
                              THEN "save" ELSE "supersede"
                 q == [req[r] EXCEPT !.pc = pc]
      <4>1. /\ Goto(r, pc) /\ ride' = ride /\ candidates' = candidates
            /\ req[r].pc = "candidate" /\ req[r].op = "accept"
            /\ candidates[req[r].driver] \in {"invited", "accepted"}
        BY <2>1, <3>2 DEF AcceptCandidate
      <4>2. /\ q.pc = pc /\ q.op = "accept" /\ q.stage = req[r].stage
            /\ q.driver = req[r].driver
        BY <2>t, <4>1 DEF Request
      <4>3. Shape(q)
        BY <2>t, <4>1, <4>2 DEF Shape, Accesses
      <4>4. StatusKnown(q, ride, candidates)
        BY <2>t, <4>1, <4>2 DEF StatusKnown
      <4>5. pc \in PC
        BY DEF PC
      <4> HIDE DEF pc
      <4> QED
        BY <2>p, <4>1, <4>3, <4>4, <4>5
    <3> QED
      BY <3>1, <3>2
  <2>2. CASE RejectCandidate(r)
    <3> DEFINE q == [req[r] EXCEPT !.pc = "save"]
    <3>1. /\ ride' = ride /\ candidates' = candidates
          /\ req[r].pc = "candidate" /\ req[r].op = "reject"
          /\ Finish(r) \/ Goto(r, "save")
      BY <2>2 DEF RejectCandidate
    <3>2. /\ q.pc = "save" /\ q.op = "reject" /\ q.stage = req[r].stage
          /\ q.row = req[r].row
      BY <2>t, <3>1 DEF Request
    <3>3. Shape(q) /\ StatusKnown(q, ride, candidates)
      BY <2>t, <3>1, <3>2 DEF Shape, StatusKnown, Accesses
    <3> QED
      BY <2>p, <2>f, <3>1, <3>3 DEF PC
  <2>3. CASE ConfirmCandidate(r)
    <3> DEFINE q == [req[r] EXCEPT !.pc = "read"]
    <3>1. /\ ride' = ride /\ candidates' = candidates
          /\ req[r].pc = "candidate" /\ req[r].op = "confirm"
          /\ Finish(r) \/ (Goto(r, "read") /\ candidates[req[r].driver] = "accepted")
      BY <2>3 DEF ConfirmCandidate
    <3>2. /\ q.pc = "read" /\ q.op = "confirm" /\ q.stage = req[r].stage
          /\ q.driver = req[r].driver
      BY <2>t, <3>1 DEF Request
    <3>3. CASE Finish(r)
      BY <2>f, <3>1, <3>3
    <3>4. CASE ~Finish(r)
      <4>1. Shape(q) /\ StatusKnown(q, ride, candidates)
        BY <2>t, <3>1, <3>2, <3>4 DEF Shape, StatusKnown, Accesses
      <4> QED
        BY <2>p, <3>1, <3>4, <4>1 DEF PC
    <3> QED
      BY <3>3, <3>4
  <2>4. CASE RiderRejectCandidate(r)
    <3> DEFINE q == [req[r] EXCEPT !.pc = "save"]
    <3>1. /\ ride' = ride /\ candidates' = candidates
          /\ req[r].pc = "candidate" /\ req[r].op = "riderReject"
          /\ Goto(r, "save")
      BY <2>4 DEF RiderRejectCandidate
    <3>2. /\ q.pc = "save" /\ q.op = "riderReject" /\ q.stage = req[r].stage
          /\ q.row = req[r].row
      BY <2>t, <3>1 DEF Request
    <3>3. Shape(q) /\ StatusKnown(q, ride, candidates)
      BY <2>t, <3>1, <3>2 DEF Shape, StatusKnown, Accesses
    <3> QED
      BY <2>p, <2>f, <3>1, <3>3 DEF PC
  <2>5. CASE MarkCandidateSuperseded(r)
    <3>1. \A d \in Drivers : candidates[d] # "declined" => candidates'[d] # "declined"
      BY <2>5, <1>t DEF MarkCandidateSuperseded, TypeOK
    <3> QED
      BY <2>5, <3>1, <2>f DEF MarkCandidateSuperseded
  <2>6. CASE ClaimDriver(r)
    <3>1. CASE Finish(r) /\ UNCHANGED ride
      BY <2>6, <3>1, <2>f DEF ClaimDriver
    <3>2. CASE ~(Finish(r) /\ UNCHANGED ride)
      <4> DEFINE q == [req[r] EXCEPT !.pc = "save"]
      <4>1. /\ ride' = [ride EXCEPT !.driver = req[r].driver]
            /\ Goto(r, "save") /\ candidates' = candidates
            /\ req[r].pc = "claim"
        BY <2>6, <3>2 DEF ClaimDriver
      <4>2. req[r].op = "accept" /\ ride'.status = ride.status
        BY <4>1, <2>t DEF Shape, Accesses, Ride
      <4>3. /\ q.pc = "save" /\ q.op = "accept" /\ q.stage = req[r].stage
            /\ q.driver = req[r].driver
        BY <2>t, <4>2 DEF Request
      <4>4. Shape(q) /\ StatusKnown(q, ride', candidates')
        BY <2>t, <4>1, <4>2, <4>3 DEF Shape, StatusKnown, Accesses
      <4> QED
        BY <2>p, <4>1, <4>2, <4>4 DEF PC
    <3> QED
      BY <3>1, <3>2
  <2>7. CASE SaveCandidate(r)
    <3>1. /\ req[r].pc = "save" /\ ride' = ride
          /\ req[r].op \in {"accept", "reject", "riderReject"}
          /\ candidates' = [candidates EXCEPT ![req[r].driver] = AnswerOf[req[r].op]]
          /\ req[r].driver \in Drivers
      BY <2>7, <1>t DEF SaveCandidate, TypeOK
    <3>2. CASE req[r].op = "accept"
      <4> DEFINE q == [req[r] EXCEPT !.pc = "read"]
      <4>1. Goto(r, "read")
        BY <2>7, <3>2 DEF SaveCandidate
      <4>2. \A d \in Drivers : candidates[d] # "declined" => candidates'[d] # "declined"
        BY <3>1, <3>2, <1>t DEF AnswerOf, TypeOK
      <4>3. /\ q.pc = "read" /\ q.op = "accept" /\ q.stage = req[r].stage
        BY <2>t, <3>2 DEF Request
      <4>4. Shape(q) /\ StatusKnown(q, ride', candidates')
        BY <2>t, <3>1, <3>2, <4>3 DEF Shape, StatusKnown, Accesses
      <4> QED
        BY <2>p, <3>1, <4>1, <4>2, <4>4 DEF PC
    <3>3. CASE req[r].op # "accept"
      <4>1. CASE Finish(r)
        BY <2>f, <3>1, <3>3, <4>1
      <4>2. CASE ~Finish(r)
        <5> DEFINE q == [req[r] EXCEPT !.row = [@ EXCEPT !.driver = NoDriver],
                                       !.pc = "merge"]
        <5>1. req' = [req EXCEPT ![r] = q]
          BY <2>7, <3>3, <4>2, <2>t DEF SaveCandidate, Request, Ride
        <5>2. /\ q \in Request /\ q.op = req[r].op /\ q.stage = req[r].stage
              /\ q.pc = "merge" /\ q.row.status = req[r].row.status
          BY <2>t DEF Request, Ride, PC
        <5>3. Shape(q) /\ StatusKnown(q, ride', candidates')
          BY <2>t, <3>1, <3>3, <5>2 DEF Shape, StatusKnown, Accesses
        <5> HIDE DEF q
        <5> QED
          BY <1>t, <3>1, <3>3, <5>1, <5>2, <5>3, StatusInvKept
      <4> QED
        BY <4>1, <4>2
    <3> QED
      BY <3>2, <3>3
  <2>8. CASE TransitionRideStatus(r)
    <3>1. req[r].pc = "read" /\ ride' = ride /\ candidates' = candidates
      BY <2>8 DEF TransitionRideStatus
    <3>2. CASE req' = [req EXCEPT ![r] = Continue(req[r], ride)]
      BY <2>c, <2>t, <3>1, <3>2 DEF Accesses
    <3>3. CASE req' # [req EXCEPT ![r] = Continue(req[r], ride)]
      <4> DEFINE q == [req[r] EXCEPT !.row = [ride EXCEPT !.status = NextStatus[req[r].stage]],
                                     !.from = ride.status, !.pc = "merge"]
      <4>1. /\ req' = [req EXCEPT ![r] = q]
            /\ req[r].stage \in Transitions
            /\ ride.status \in AllowedStatuses[req[r].stage]
        BY <2>8, <3>3, <2>t DEF TransitionRideStatus, Request
      <4>2. /\ NextStatus[req[r].stage] \in RideStatus
            /\ ride.status \notin Terminal
        BY <4>1, TransitionTables
      <4>3. /\ q \in Request /\ q.op = req[r].op /\ q.stage = req[r].stage
            /\ q.driver = req[r].driver
            /\ q.pc = "merge" /\ q.row.status = NextStatus[req[r].stage]
        BY <2>t, <4>2 DEF Request, Ride, PC
      <4>4. Shape(q)
        BY <2>t, <3>1, <4>3 DEF Shape, Accesses
      <4>5. q.op = "accept" => q.row.status \in {"assigned", "accepted"}
        BY <4>3, <4>4 DEF Shape, NextStatus
      <4>6. StatusKnown(q, ride', candidates')
        BY <2>t, <3>1, <4>2, <4>3, <4>5 DEF StatusKnown, Terminal
      <4> HIDE DEF q
      <4> QED
        BY <1>t, <3>1, <4>1, <4>3, <4>4, <4>6, StatusInvKept
    <3> QED
      BY <3>2, <3>3
  <2>9. CASE UpdateRideMerge(r)
    <3> DEFINE q == [req[r] EXCEPT !.row = MergeRideData(ride, @), !.pc = "write"]
    <3>1. /\ req[r].pc = "merge" /\ ride' = ride /\ candidates' = candidates
          /\ req' = [req EXCEPT ![r] = q]
      BY <2>9, <2>t DEF UpdateRideMerge, Request
    <3>2. /\ q \in Request /\ q.op = req[r].op /\ q.stage = req[r].stage
          /\ q.driver = req[r].driver
          /\ q.pc = "write" /\ q.row.status = req[r].row.status
      BY <2>t, MergeType DEF Request, PC
    <3>3. Shape(q)
      BY <2>t, <3>1, <3>2 DEF Shape, Accesses
    <3>4. StatusKnown(q, ride', candidates')
      BY <2>t, <3>1, <3>2 DEF StatusKnown
    <3> HIDE DEF q
    <3> QED
      BY <1>t, <3>1, <3>2, <3>3, <3>4, StatusInvKept
  <2>10. CASE UpdateRideWrite(r)
    <3> DEFINE q == [req[r] EXCEPT !.pc = "reload"]
    <3>1. /\ req[r].pc = "write" /\ ride' = req[r].row /\ candidates' = candidates
          /\ req' = [req EXCEPT ![r] = q]
      BY <2>10 DEF UpdateRideWrite, Goto
    <3>2. /\ q \in Request /\ q.op = req[r].op /\ q.stage = req[r].stage
          /\ q.driver = req[r].driver /\ q.pc = "reload"
      BY <2>t DEF Request, PC
    <3>3. Shape(q)
      BY <2>t, <3>1, <3>2 DEF Shape, Accesses
    <3>4. StatusKnown(q, ride', candidates')
      BY <2>t, <3>1, <3>2 DEF StatusKnown
    <3>5. req[r].op = "accept" => ride'.status \notin Terminal
      BY <2>t, <3>1 DEF StatusKnown
    <3> HIDE DEF q
    <3> QED
      BY <1>t, <3>1, <3>2, <3>3, <3>4, <3>5, StatusInvKept
  <2>11. CASE UpdateRideReload(r)
    <3>1. req[r].pc = "reload" /\ ride' = ride /\ candidates' = candidates
      BY <2>11 DEF UpdateRideReload
    <3>2. CASE req' = [req EXCEPT ![r] = Continue(req[r], ride)]
      BY <2>c, <2>t, <3>1, <3>2 DEF Accesses
    <3>3. CASE req' # [req EXCEPT ![r] = Continue(req[r], ride)]
      <4> DEFINE q == [req[r] EXCEPT !.row = ride, !.pc = "history"]
      <4>1. req' = [req EXCEPT ![r] = q]
        BY <2>11, <3>3, <2>t DEF UpdateRideReload, Request
      <4>2. /\ q \in Request /\ q.op = req[r].op /\ q.stage = req[r].stage
            /\ q.driver = req[r].driver /\ q.pc = "history" /\ q.row = ride
        BY <2>t DEF Request, PC
      <4>3. Shape(q)
        BY <2>t, <3>1, <4>2 DEF Shape, Accesses
      <4>4. StatusKnown(q, ride', candidates')
        BY <2>t, <3>1, <4>2 DEF StatusKnown
      <4> HIDE DEF q
      <4> QED
        BY <1>t, <3>1, <4>1, <4>2, <4>3, <4>4, StatusInvKept
    <3> QED
      BY <3>2, <3>3
  <2>12. CASE RecordStatusChange(r)
    <3>1. /\ req[r].pc = "history" /\ ride' = ride /\ candidates' = candidates
          /\ req' = [req EXCEPT ![r] = Continue(req[r], req[r].row)]
      BY <2>12, <1>t DEF RecordStatusChange, TypeOK
    <3>2. req[r].op # "accept" => req[r].row.status = ride.status
      BY <2>t, <3>1 DEF StatusKnown
    <3> QED
      BY <2>c, <2>t, <3>1, <3>2 DEF Accesses
  <2>13. CASE ListCandidates(r)
    <3>1. req[r].pc = "list" /\ ride' = ride /\ candidates' = candidates
      BY <2>13 DEF ListCandidates
    <3>2. CASE Finish(r)
      BY <2>f, <3>1, <3>2
    <3>3. CASE ~Finish(r)
      <4> DEFINE q == [req[r] EXCEPT !.todo = ToUpdate(req[r]), !.pc = "each"]
      <4>1. req' = [req EXCEPT ![r] = q]
        BY <2>13, <3>3, <2>t DEF ListCandidates, Request
      <4>2. /\ q \in Request /\ q.op = req[r].op /\ q.stage = req[r].stage
            /\ q.driver = req[r].driver /\ q.pc = "each"
        BY <2>t DEF Request, PC, ToUpdate
      <4>3. Shape(q) /\ StatusKnown(q, ride', candidates')
        BY <2>t, <3>1, <4>2 DEF Shape, StatusKnown, Accesses
      <4> HIDE DEF q
      <4> QED
        BY <1>t, <3>1, <4>1, <4>2, <4>3, StatusInvKept
    <3> QED
      BY <3>2, <3>3
  <2>14. CASE SaveMany(r)
    <3>1. req[r].pc = "each" /\ ride' = ride /\ req[r].op # "accept"
      BY <2>14, <2>t DEF SaveMany, Shape, Accesses
    <3>2. PICK d \in req[r].todo :
            /\ candidates' = [candidates EXCEPT ![d] =
                 IF req[r].op = "confirm" /\ d = req[r].driver
                   THEN "confirmed" ELSE "canceled"]
            /\ IF req[r].todo = {d}
                 THEN Finish(r)
                 ELSE req' = [req EXCEPT ![r].todo = @ \ {d}]
      BY <2>14 DEF SaveMany
    <3>3. CASE Finish(r)
      BY <2>f, <3>1, <3>3
    <3>4. CASE ~Finish(r)
      <4> DEFINE q == [req[r] EXCEPT !.todo = @ \ {d}]
      <4>1. req' = [req EXCEPT ![r] = q]
        BY <3>2, <3>4, <2>t DEF Request
      <4>2. /\ q \in Request /\ q.op = req[r].op /\ q.stage = req[r].stage
            /\ q.driver = req[r].driver /\ q.pc = "each"
        BY <2>t, <3>1 DEF Request
      <4>3. req[r].op = "confirm" => candidates'[req[r].driver] # "declined"
        BY <2>t, <3>1, <3>2, <1>t DEF StatusKnown, TypeOK, Request
      <4>4. Shape(q) /\ StatusKnown(q, ride', candidates')
        BY <2>t, <3>1, <4>2, <4>3 DEF Shape, StatusKnown, Accesses
      <4> HIDE DEF q
      <4> QED
        BY <1>t, <3>1, <4>1, <4>2, <4>4, StatusInvKept
    <3> QED
      BY <3>3, <3>4
  <2>15. CASE Fail(r)
    BY <2>15, <2>f DEF Fail
  <2> QED
    BY <1>3, <2>1, <2>2, <2>3, <2>4, <2>5, <2>6, <2>7, <2>8, <2>9, <2>10,
       <2>11, <2>12, <2>13, <2>14, <2>15 DEF Step
<1> QED
  BY <1>1, <1>2, <1>3 DEF Next

-----------------------------------------------------------------------------
(***************************************************************************)
(* The history accounts for the ride, whatever overlaps.                   *)
(***************************************************************************)

\* The status was written, and the row of the history is still to come.
Recording(q) == q.stage \in Transitions /\ q.pc \in {"reload", "history"}

\* A row of the history leads to the status, or one that is to come does.
Covered(x, hist, handlers) ==
  \/ \E i \in DOMAIN hist : hist[i].to = x
  \/ \E r \in Requests : Recording(handlers[r]) /\ NextStatus[handlers[r].stage] = x

\* Where a handler has its statuses from.
HistoryKnown(q, hist, handlers) ==
  /\ q.op \in {"reject", "riderReject"} /\ q.pc \in {"candidate", "claim", "save"} =>
       q.stage = "release"
  /\ IF q.stage \in Transitions /\ q.pc \in {"merge", "write"}
       THEN q.row.status = NextStatus[q.stage]
       ELSE q.pc # "idle" => Covered(q.row.status, hist, handlers)
  /\ q.stage \in Transitions /\ q.pc \in {"merge", "write", "reload", "history"} =>
       Covered(q.from, hist, handlers) /\ q.from # NextStatus[q.stage]

HistoryInv ==
  /\ TypeOK
  /\ failures = 0 =>
       /\ Covered(ride.status, history, req)
       /\ \A i \in DOMAIN history :
            \/ history[i].from = "null"
            \/ /\ Covered(history[i].from, history, req)
               /\ history[i].from # history[i].to
       /\ \A r \in Requests : HistoryKnown(req[r], history, req)

\* A handler that ended needs to know nothing.
LEMMA IdleHistory ==
  ASSUME NEW hist, NEW handlers
  PROVE  HistoryKnown(Idle, hist, handlers) /\ ~Recording(Idle)
BY DEF Idle, HistoryKnown, Recording

\* HistoryInv holds initially: the two rows of createRideWithDetails.
LEMMA InitHistoryInv == Init => HistoryInv
<1> SUFFICES ASSUME Init PROVE HistoryInv
  OBVIOUS
<1>1. TypeOK
  BY InitTypeOK
<1>2. \A r \in Requests : HistoryKnown(req[r], history, req)
  BY IdleHistory DEF Init
<1>3. /\ DOMAIN history = {1, 2}
      /\ history[1].from = "null" /\ history[1].to = "requested"
      /\ history[2].from = "requested" /\ history[2].to = "candidates_computed"
  BY DEF Init, InitialHistory
<1>4. Covered("requested", history, req) /\ Covered("candidates_computed", history, req)
  BY <1>3 DEF Covered
<1>5. ride.status = "candidates_computed"
  BY DEF Init, InitialRide
<1> QED
  BY <1>1, <1>2, <1>3, <1>4, <1>5 DEF HistoryInv

\* What is covered stays so while the history is kept and no handler forgets
\* what it has to record.
LEMMA CoveredKept ==
  ASSUME TypeOK, NEW r \in Requests, NEW q \in Request,
         req' = [req EXCEPT ![r] = q], history' = history,
         Recording(req[r]) => Recording(q) /\ q.stage = req[r].stage
  PROVE  \A x : Covered(x, history, req) => Covered(x, history', req')
<1> SUFFICES ASSUME NEW x, NEW p \in Requests, Recording(req[p]),
                    NextStatus[req[p].stage] = x
             PROVE  Covered(x, history', req')
  BY DEF Covered
<1>1. req'[p] = IF p = r THEN q ELSE req[p]
  BY DEF TypeOK
<1>2. Recording(req'[p]) /\ NextStatus[req'[p].stage] = x
  BY <1>1
<1> QED
  BY <1>2 DEF Covered

\* A step that records nothing.
LEMMA HistoryInvKept ==
  ASSUME HistoryInv, TypeOK', NEW r \in Requests, NEW q \in Request,
         req' = [req EXCEPT ![r] = q], history' = history, failures' = failures,
         Recording(req[r]) => Recording(q) /\ q.stage = req[r].stage,
         failures = 0 => /\ HistoryKnown(q, history', req')
                         /\ Covered(ride'.status, history', req')
  PROVE  HistoryInv'
<1> SUFFICES ASSUME failures = 0
             PROVE  /\ \A i \in DOMAIN history' :
                         \/ history'[i].from = "null"
                         \/ /\ Covered(history'[i].from, history', req')
                            /\ history'[i].from # history'[i].to
                    /\ \A p \in Requests : HistoryKnown(req'[p], history', req')
  BY DEF HistoryInv
<1>t. TypeOK
  BY DEF HistoryInv
<1>1. \A x : Covered(x, history, req) => Covered(x, history', req')
  BY <1>t, CoveredKept
<1>2. ASSUME NEW p \in Requests PROVE HistoryKnown(req'[p], history', req')
  <2>1. CASE p = r
    BY <2>1, <1>t DEF TypeOK
  <2>2. CASE p # r
    <3>1. req'[p] = req[p]
      BY <2>2, <1>t DEF TypeOK
    <3>2. HistoryKnown(req[p], history, req)
      BY DEF HistoryInv
    <3> QED
      BY <1>1, <3>1, <3>2 DEF HistoryKnown
  <2> QED
    BY <2>1, <2>2
<1> QED
  BY <1>1, <1>2 DEF HistoryInv

\* A handler goes on after a transition or an update with the entity it had or
\* with the one that was returned.
LEMMA ContinueHistory ==
  ASSUME NEW q \in Request, NEW row \in Ride, NEW hist, NEW handlers,
         Covered(q.row.status, hist, handlers), Covered(row.status, hist, handlers)
  PROVE  /\ HistoryKnown(Continue(q, row), hist, handlers)
         /\ ~Recording(Continue(q, row))
<1> DEFINE n == Continue(q, row)
<1>0. q.stage \in Transitions \cup Updates
  BY DEF Request
<1>1. CASE q.stage \in {"assign", "release", "zeroFare", "confirm"}
  <2>1. n.pc \in {"read", "list"} /\ n.row = q.row
    BY <1>1 DEF Continue, Request
  <2> QED
    BY <2>1 DEF HistoryKnown, Recording
<1>2. CASE q.stage \in {"cancel", "complete"}
  <2>1. n.pc = "merge" /\ n.stage \in {"zeroFare", "settle"} /\ n.row.status = row.status
    BY <1>2 DEF Continue, Request, Ride
  <2>2. n.stage \notin Transitions
    BY <2>1 DEF Transitions
  <2> QED
    BY <2>1, <2>2 DEF HistoryKnown, Recording
<1>3. CASE q.stage \in {"accept", "revert", "start", "settle"}
  BY <1>3, IdleHistory DEF Continue
<1> QED
  BY <1>0, <1>1, <1>2, <1>3 DEF Transitions, Updates

\* A handler that does not write, and has nothing to record, moves on with the
\* entity it has, or ends.
LEMMA MoveHistory ==
  ASSUME HistoryInv, TypeOK', NEW r \in Requests, NEW q \in Request,
         req' = [req EXCEPT ![r] = q], UNCHANGED <<history, failures>>,
         ride'.status = ride.status,
         req[r].pc \in {"candidate", "supersede", "claim", "save", "list", "each"},
         \/ q = Idle
         \/ /\ q.op = req[r].op /\ q.stage = req[r].stage
            /\ q.row.status = req[r].row.status
            /\ \/ q.pc \in {"supersede", "read", "each"}
               \/ q.pc \in {"claim", "save"} /\ req[r].pc \in {"candidate", "claim"}
               \/ q.pc = "merge" /\ q.stage = "release"
  PROVE  HistoryInv'
<1>t. TypeOK
  BY DEF HistoryInv
<1>1. ~Recording(req[r])
  BY DEF Recording
<1>2. ASSUME failures = 0 PROVE HistoryKnown(q, history', req') /\ Covered(ride'.status, history', req')
  <2>1. \A x : Covered(x, history, req) => Covered(x, history', req')
    BY <1>t, <1>1, CoveredKept
  <2>2. Covered(req[r].row.status, history, req) /\ Covered(ride.status, history, req)
    BY <1>2 DEF HistoryInv, HistoryKnown
  <2>3. HistoryKnown(req[r], history, req)
    BY <1>2 DEF HistoryInv
  <2>4. "release" \notin Transitions
    BY DEF Transitions
  <2>5. CASE q = Idle
    BY <2>1, <2>2, <2>5, IdleHistory
  <2>6. CASE q # Idle
    BY <2>1, <2>2, <2>3, <2>4, <2>6 DEF HistoryKnown
  <2> QED
    BY <2>5, <2>6
<1> QED
  BY <1>1, <1>2, HistoryInvKept

\* recordStatusChange adds the row that the status was waiting for.
LEMMA RecordHistory ==
  ASSUME HistoryInv, TypeOK', NEW r \in Requests, RecordStatusChange(r)
  PROVE  HistoryInv'
<1>t. /\ TypeOK /\ req[r] \in Request /\ req[r].row \in Ride
  BY DEF HistoryInv, TypeOK, Request
<1>1. /\ req[r].pc = "history" /\ req[r].stage \in Transitions
      /\ UNCHANGED <<ride, failures>>
  BY DEF RecordStatusChange
<1>2. PICK line : line = [from |-> req[r].from, to |-> NextStatus[req[r].stage]]
  OBVIOUS
<1>3. line.from = req[r].from /\ line.to = NextStatus[req[r].stage]
  BY <1>2
<1>4. history' = Append(history, line)
  BY <1>2 DEF RecordStatusChange
<1>5. PICK n \in Nat : n = Len(history)
  BY <1>t DEF TypeOK
<1>6. /\ DOMAIN history = 1 .. n /\ DOMAIN history' = 1 .. (n + 1)
      /\ \A i \in 1 .. n : history'[i] = history[i]
      /\ history'[n + 1] = line
  BY <1>t, <1>4, <1>5 DEF TypeOK
<1>7. PICK q : q = Continue(req[r], req[r].row)
  OBVIOUS
<1>8. req' = [req EXCEPT ![r] = q]
  BY <1>7, <1>t DEF RecordStatusChange, TypeOK
<1>9. \A x : Covered(x, history, req) => Covered(x, history', req')
  <2> SUFFICES ASSUME NEW x, Covered(x, history, req) PROVE Covered(x, history', req')
    OBVIOUS
  <2>1. CASE \E i \in DOMAIN history : history[i].to = x
    <3>1. PICK i \in 1 .. n : history[i].to = x
      BY <2>1, <1>6
    <3>2. i \in DOMAIN history' /\ history'[i].to = x
      BY <3>1, <1>6
    <3> QED
      BY <3>2 DEF Covered
  <2>2. ASSUME NEW p \in Requests, Recording(req[p]), NextStatus[req[p].stage] = x
        PROVE  Covered(x, history', req')
    <3>1. CASE p = r
      <4>1. n + 1 \in DOMAIN history' /\ history'[n + 1].to = x
        BY <1>3, <1>6, <2>2, <3>1
      <4> QED
        BY <4>1 DEF Covered
    <3>2. CASE p # r
      BY <1>8, <1>t, <2>2, <3>2 DEF Covered, TypeOK
    <3> QED
      BY <3>1, <3>2
  <2> QED
    BY <2>1, <2>2 DEF Covered
<1>10. CASE failures # 0
  BY <1>1, <1>10 DEF HistoryInv
<1>11. CASE failures = 0
  <2>1. /\ HistoryKnown(req[r], history, req)
        /\ Covered(ride'.status, history', req')
    BY <1>1, <1>9, <1>11 DEF HistoryInv
  <2>2. /\ Covered(line.from, history', req') /\ line.from # line.to
        /\ Covered(req[r].row.status, history', req')
    BY <1>1, <1>3, <1>9, <2>1 DEF HistoryKnown
  <2>3. ASSUME NEW i \in DOMAIN history'
        PROVE  \/ history'[i].from = "null"
               \/ /\ Covered(history'[i].from, history', req')
                  /\ history'[i].from # history'[i].to
    <3>1. CASE i = n + 1
      BY <1>6, <2>2, <3>1
    <3>2. CASE i # n + 1
      <4>1. i \in 1 .. n
        BY <1>6, <3>2
      <4>2. i \in DOMAIN history /\ history'[i] = history[i]
        BY <1>6, <4>1
      <4> QED
        BY <1>9, <1>11, <4>2 DEF HistoryInv
    <3> QED
      BY <3>1, <3>2
  <2>4. HistoryKnown(q, history', req')
    BY <1>t, <1>7, <2>2, ContinueHistory
  <2>5. ASSUME NEW p \in Requests PROVE HistoryKnown(req'[p], history', req')
    <3>1. CASE p = r
      BY <1>8, <1>t, <2>4, <3>1 DEF TypeOK
    <3>2. CASE p # r
      <4>1. req'[p] = req[p]
        BY <1>8, <1>t, <3>2 DEF TypeOK
      <4>2. HistoryKnown(req[p], history, req)
        BY <1>11 DEF HistoryInv
      <4> QED
        BY <1>9, <4>1, <4>2 DEF HistoryKnown
    <3> QED
      BY <3>1, <3>2
  <2> QED
    BY <2>1, <2>3, <2>5 DEF HistoryInv
<1> QED
  BY <1>10, <1>11

\* Every step keeps HistoryInv, whatever overlaps.
LEMMA NextHistoryInv == HistoryInv /\ [Next]_vars => HistoryInv'
<1> SUFFICES ASSUME HistoryInv, [Next]_vars PROVE HistoryInv'
  OBVIOUS
<1>t. TypeOK /\ TypeOK'
  BY NextTypeOK DEF HistoryInv
<1>1. CASE UNCHANGED vars
  <2>1. /\ history' = history /\ req' = req /\ ride' = ride /\ failures' = failures
    BY <1>1 DEF vars
  <2> QED
    BY <1>t, <2>1 DEF HistoryInv
<1>2. ASSUME NEW r \in Requests, Arrive(r) \/ Step(r) \/ Fail(r)
      PROVE  HistoryInv'
  <2>t. req[r] \in Request /\ req[r].row \in Ride /\ ride \in Ride /\ Idle \in Request
    BY <1>t, IdleType DEF TypeOK, Request
  <2>f. ASSUME req[r].pc \in {"candidate", "supersede", "claim", "save", "list", "each"},
               Finish(r), UNCHANGED <<history, failures>>, ride'.status = ride.status
        PROVE  HistoryInv'
    <3>1. ~Recording(req[r]) /\ req' = [req EXCEPT ![r] = Idle]
      BY <2>f DEF Recording, Finish
    <3>2. failures = 0 => Covered(ride'.status, history', req')
      BY <1>t, <2>f, <2>t, <3>1, CoveredKept DEF HistoryInv
    <3> QED
      BY <1>t, <2>f, <2>t, <3>1, <3>2, IdleHistory, HistoryInvKept
  <2>g. ASSUME NEW pc \in PC, Goto(r, pc), UNCHANGED <<history, failures>>,
               ride'.status = ride.status,
               \/ /\ req[r].pc \in {"candidate", "claim"}
                  /\ pc \in {"supersede", "claim", "save", "read"}
               \/ req[r].pc = "save" /\ pc = "read"
        PROVE  HistoryInv'
    <3>1. PICK q : q = [req[r] EXCEPT !.pc = pc]
      OBVIOUS
    <3>2. /\ q \in Request /\ q.op = req[r].op /\ q.stage = req[r].stage
          /\ q.row = req[r].row /\ q.pc = pc
      BY <2>t, <3>1 DEF Request
    <3>3. req' = [req EXCEPT ![r] = q]
      BY <2>g, <3>1 DEF Goto
    <3> QED
      BY <1>t, <2>g, <3>2, <3>3, MoveHistory
  <2>1. CASE Arrive(r)
    <3>1. PICK op \in Operations, d \in Drivers \cup {NoDriver, ride.driver},
               pc \in PC, stage \in Transitions \cup Updates :
               Arrival(r, op, d, pc, stage)
      BY <2>1, ArrivalShape
    <3>2. PICK q : q = [Idle EXCEPT !.op = op, !.pc = pc, !.stage = stage,
                                    !.driver = d, !.row = ride]
      OBVIOUS
    <3>3. /\ q \in Request /\ q.op = op /\ q.pc = pc /\ q.stage = stage
          /\ q.row = ride
      BY <2>t, <3>2, IdleType DEF Request, Ride, Idle
    <3>4. /\ req' = [req EXCEPT ![r] = q] /\ UNCHANGED <<ride, history, failures>>
          /\ ~Recording(req[r])
      BY <3>1, <3>2 DEF Arrival, Begin, Recording
    <3>5. /\ pc \in {"candidate", "read"}
          /\ op \in {"reject", "riderReject"} => stage = "release"
      BY <3>1 DEF Arrival
    <3>6. failures = 0 => Covered(ride.status, history', req')
      BY <1>t, <3>3, <3>4, CoveredKept DEF HistoryInv
    <3>7. failures = 0 => HistoryKnown(q, history', req')
      BY <3>3, <3>5, <3>6 DEF HistoryKnown
    <3> QED
      BY <1>t, <3>3, <3>4, <3>6, <3>7, HistoryInvKept
  <2>2. CASE AcceptCandidate(r)
    BY <2>2, <2>f, <2>g DEF AcceptCandidate, PC
  <2>3. CASE RejectCandidate(r) \/ ConfirmCandidate(r) \/ RiderRejectCandidate(r)
    BY <2>3, <2>f, <2>g DEF RejectCandidate, ConfirmCandidate, RiderRejectCandidate, PC
  <2>4. CASE MarkCandidateSuperseded(r)
    BY <2>4, <2>f DEF MarkCandidateSuperseded
  <2>5. CASE ClaimDriver(r)
    <3>1. UNCHANGED <<history, failures>> /\ ride'.status = ride.status /\ req[r].pc = "claim"
      BY <2>5, <2>t DEF ClaimDriver, Ride
    <3> QED
      BY <2>5, <2>f, <2>g, <3>1 DEF ClaimDriver, PC
  <2>6. CASE SaveCandidate(r)
    <3>1. UNCHANGED <<ride, history, failures>> /\ req[r].pc = "save"
      BY <2>6 DEF SaveCandidate
    <3>2. CASE Goto(r, "read") \/ Finish(r)
      BY <2>f, <2>g, <3>1, <3>2 DEF PC
    <3>3. CASE /\ req[r].op \in {"reject", "riderReject"}
               /\ req' = [req EXCEPT ![r].row.driver = NoDriver, ![r].pc = "merge"]
      <4>1. PICK q : q = [req[r] EXCEPT !.row.driver = NoDriver, !.pc = "merge"]
        OBVIOUS
      <4>2. /\ q \in Request /\ q.op = req[r].op /\ q.stage = req[r].stage
            /\ q.row.status = req[r].row.status /\ q.pc = "merge"
        BY <2>t, <4>1 DEF Request, Ride, PC
      <4>3. req' = [req EXCEPT ![r] = q]
        BY <3>3, <4>1, <1>t DEF TypeOK
      <4>4. CASE failures = 0
        <5>1. req[r].stage = "release"
          BY <3>1, <3>3, <4>4 DEF HistoryInv, HistoryKnown
        <5> QED
          BY <1>t, <3>1, <4>2, <4>3, <5>1, MoveHistory
      <4>5. CASE failures # 0
        BY <1>t, <3>1, <4>5 DEF HistoryInv
      <4> QED
        BY <4>4, <4>5
    <3> QED
      BY <2>6, <3>2, <3>3 DEF SaveCandidate
  \* The steps after which the handler holds q and has nothing to record.
  <2>k. ASSUME NEW q \in Request, req' = [req EXCEPT ![r] = q],
               ~Recording(req[r]), UNCHANGED <<ride, history, failures>>,
               failures = 0 /\ (\A x : Covered(x, history, req) => Covered(x, history', req'))
                 => HistoryKnown(q, history', req')
        PROVE  HistoryInv'
    <3>1. \A x : Covered(x, history, req) => Covered(x, history', req')
      BY <1>t, <2>k, CoveredKept
    <3>2. failures = 0 => Covered(ride'.status, history', req')
      BY <2>k, <3>1 DEF HistoryInv
    <3> QED
      BY <1>t, <2>k, <3>1, <3>2, HistoryInvKept
  <2>7. CASE TransitionRideStatus(r)
    <3>1. /\ UNCHANGED <<ride, history, failures>> /\ req[r].pc = "read"
          /\ req[r].stage \in Transitions /\ ~Recording(req[r])
      BY <2>7 DEF TransitionRideStatus, Recording
    <3>2. CASE ride.status \in AllowedStatuses[req[r].stage] \ {NextStatus[req[r].stage]}
      <4>1. PICK q : q = [req[r] EXCEPT !.row = [ride EXCEPT !.status = NextStatus[req[r].stage]],
                                        !.from = ride.status, !.pc = "merge"]
        OBVIOUS
      <4>2. NextStatus[req[r].stage] \in RideStatus
        BY <3>1, TransitionTables
      <4>3. /\ q \in Request /\ q.stage = req[r].stage /\ q.pc = "merge"
            /\ q.row.status = NextStatus[req[r].stage] /\ q.from = ride.status
        BY <2>t, <4>1, <4>2 DEF Request, Ride, PC
      <4>4. req' = [req EXCEPT ![r] = q]
        BY <2>7, <3>2, <4>1, <1>t DEF TransitionRideStatus, TypeOK
      <4>5. failures = 0 => Covered(q.from, history, req)
        BY <4>3 DEF HistoryInv
      <4>6. failures = 0 /\ (\A x : Covered(x, history, req) => Covered(x, history', req'))
              => HistoryKnown(q, history', req')
        BY <3>1, <3>2, <4>3, <4>5 DEF HistoryKnown
      <4> QED
        BY <2>k, <3>1, <4>3, <4>4, <4>6
    <3>3. CASE ride.status \notin AllowedStatuses[req[r].stage] \ {NextStatus[req[r].stage]}
      <4>1. req' = [req EXCEPT ![r] = Continue(req[r], ride)]
        BY <2>7, <3>3, <1>t DEF TransitionRideStatus, TypeOK
      <4>2. Continue(req[r], ride) \in Request
        BY <2>t, ContinueType
      <4>3. failures = 0 => Covered(req[r].row.status, history, req) /\ Covered(ride.status, history, req)
        BY <3>1 DEF HistoryInv, HistoryKnown
      <4>4. failures = 0 /\ (\A x : Covered(x, history, req) => Covered(x, history', req'))
              => HistoryKnown(Continue(req[r], ride), history', req')
        BY <2>t, <4>3, ContinueHistory
      <4> QED
        BY <2>k, <3>1, <4>1, <4>2, <4>4
    <3> QED
      BY <3>2, <3>3
  <2>8. CASE UpdateRideMerge(r)
    <3>1. UNCHANGED <<ride, history, failures>> /\ req[r].pc = "merge" /\ ~Recording(req[r])
      BY <2>8 DEF UpdateRideMerge, Recording
    <3>2. PICK q : q = [req[r] EXCEPT !.row = MergeRideData(ride, req[r].row), !.pc = "write"]
      OBVIOUS
    <3>3. PICK row : row = MergeRideData(ride, req[r].row)
      OBVIOUS
    <3>4. row \in Ride /\ row.status = req[r].row.status
      BY <2>t, <3>3, MergeType
    <3>5. /\ q \in Request /\ q.op = req[r].op /\ q.stage = req[r].stage
          /\ q.row = row /\ q.from = req[r].from /\ q.pc = "write"
      BY <2>t, <3>2, <3>3, <3>4 DEF Request, PC
    <3>6. req' = [req EXCEPT ![r] = q]
      BY <2>8, <3>2, <1>t DEF UpdateRideMerge, TypeOK
    <3>7. failures = 0 => HistoryKnown(req[r], history, req)
      BY DEF HistoryInv
    <3>8. failures = 0 /\ (\A x : Covered(x, history, req) => Covered(x, history', req'))
            => HistoryKnown(q, history', req')
      BY <3>1, <3>4, <3>5, <3>7 DEF HistoryKnown
    <3> QED
      BY <2>k, <3>1, <3>5, <3>6, <3>8
  <2>9. CASE UpdateRideWrite(r)
    <3>1. /\ UNCHANGED <<history, failures>> /\ req[r].pc = "write" /\ ~Recording(req[r])
          /\ ride' = req[r].row
      BY <2>9 DEF UpdateRideWrite, Recording
    <3>2. PICK q : q = [req[r] EXCEPT !.pc = "reload"]
      OBVIOUS
    <3>3. /\ q \in Request /\ q.op = req[r].op /\ q.stage = req[r].stage
          /\ q.row = req[r].row /\ q.from = req[r].from /\ q.pc = "reload"
      BY <2>t, <3>2 DEF Request, PC
    <3>4. req' = [req EXCEPT ![r] = q]
      BY <2>9, <3>2 DEF UpdateRideWrite, Goto
    <3>5. \A x : Covered(x, history, req) => Covered(x, history', req')
      BY <1>t, <3>1, <3>3, <3>4, CoveredKept
    <3>6. failures = 0 => HistoryKnown(req[r], history, req)
      BY DEF HistoryInv
    <3>7. failures = 0 => Covered(q.row.status, history', req')
      <4>1. CASE q.stage \in Transitions
        <5>1. Recording(q) /\ req'[r] = q
          BY <1>t, <3>3, <3>4, <4>1 DEF Recording, TypeOK
        <5>2. failures = 0 => q.row.status = NextStatus[q.stage]
          BY <3>1, <3>3, <3>6, <4>1 DEF HistoryKnown
        <5> QED
          BY <5>1, <5>2 DEF Covered
      <4>2. CASE q.stage \notin Transitions
        BY <3>1, <3>3, <3>5, <3>6, <4>2 DEF HistoryKnown
      <4> QED
        BY <4>1, <4>2
    <3>8. failures = 0 => HistoryKnown(q, history', req')
      BY <3>1, <3>3, <3>5, <3>6, <3>7 DEF HistoryKnown
    <3> QED
      BY <1>t, <3>1, <3>3, <3>4, <3>7, <3>8, HistoryInvKept
  <2>10. CASE UpdateRideReload(r)
    <3>1. UNCHANGED <<ride, history, failures>> /\ req[r].pc = "reload"
      BY <2>10 DEF UpdateRideReload
    <3>0. failures = 0 => HistoryKnown(req[r], history, req) /\ Covered(ride.status, history, req)
      BY DEF HistoryInv
    <3>2. CASE req[r].stage \in Transitions
      <4>1. PICK q : q = [req[r] EXCEPT !.row = ride, !.pc = "history"]
        OBVIOUS
      <4>2. /\ q \in Request /\ q.op = req[r].op /\ q.stage = req[r].stage
            /\ q.row = ride /\ q.from = req[r].from /\ q.pc = "history"
        BY <2>t, <4>1 DEF Request, PC
      <4>3. req' = [req EXCEPT ![r] = q] /\ Recording(q)
        BY <2>10, <3>2, <4>1, <4>2, <1>t DEF UpdateRideReload, TypeOK, Recording
      <4>4. \A x : Covered(x, history, req) => Covered(x, history', req')
        BY <1>t, <3>1, <4>2, <4>3, CoveredKept
      <4>5. failures = 0 => HistoryKnown(q, history', req') /\ Covered(ride'.status, history', req')
        BY <3>0, <3>1, <3>2, <4>2, <4>4 DEF HistoryKnown
      <4> QED
        BY <1>t, <3>1, <4>2, <4>3, <4>5, HistoryInvKept
    <3>3. CASE req[r].stage \notin Transitions
      <4>1. req' = [req EXCEPT ![r] = Continue(req[r], ride)] /\ ~Recording(req[r])
        BY <2>10, <3>3, <1>t DEF UpdateRideReload, TypeOK, Recording
      <4>2. Continue(req[r], ride) \in Request
        BY <2>t, ContinueType
      <4>3. failures = 0 => Covered(req[r].row.status, history, req)
        BY <3>0, <3>1, <3>3 DEF HistoryKnown
      <4>4. failures = 0 /\ (\A x : Covered(x, history, req) => Covered(x, history', req'))
              => HistoryKnown(Continue(req[r], ride), history', req')
        BY <2>t, <3>0, <4>3, ContinueHistory
      <4> QED
        BY <2>k, <3>1, <4>1, <4>2, <4>4
    <3> QED
      BY <3>2, <3>3
  <2>11. CASE RecordStatusChange(r)
    BY <1>t, <2>t, <2>11, RecordHistory
  <2>12. CASE ListCandidates(r)
    <3>1. UNCHANGED <<ride, history, failures>> /\ req[r].pc = "list"
      BY <2>12 DEF ListCandidates
    <3>2. CASE Finish(r)
      BY <2>f, <3>1, <3>2
    <3>3. CASE req' = [req EXCEPT ![r].todo = ToUpdate(req[r]), ![r].pc = "each"]
      <4>1. PICK todo : todo = ToUpdate(req[r])
        OBVIOUS
      <4>2. todo \in SUBSET Drivers
        BY <4>1 DEF ToUpdate
      <4>3. PICK q : q = [req[r] EXCEPT !.todo = todo, !.pc = "each"]
        OBVIOUS
      <4>4. /\ q \in Request /\ q.op = req[r].op /\ q.stage = req[r].stage
            /\ q.row = req[r].row /\ q.pc = "each"
        BY <2>t, <4>2, <4>3 DEF Request, PC
      <4>5. req' = [req EXCEPT ![r] = q]
        BY <3>3, <4>1, <4>3, <1>t DEF TypeOK
      <4> QED
        BY <1>t, <3>1, <4>4, <4>5, MoveHistory
    <3> QED
      BY <2>12, <3>2, <3>3 DEF ListCandidates
  <2>13. CASE SaveMany(r)
    <3>1. UNCHANGED <<ride, history, failures>> /\ req[r].pc = "each"
      BY <2>13 DEF SaveMany
    <3>2. PICK d \in req[r].todo :
            Finish(r) \/ req' = [req EXCEPT ![r].todo = @ \ {d}]
      BY <2>13 DEF SaveMany
    <3>3. CASE Finish(r)
      BY <2>f, <3>1, <3>3
    <3>4. CASE req' = [req EXCEPT ![r].todo = @ \ {d}]
      <4>1. PICK q : q = [req[r] EXCEPT !.todo = req[r].todo \ {d}]
        OBVIOUS
      <4>2. /\ q \in Request /\ q.op = req[r].op /\ q.stage = req[r].stage
            /\ q.row = req[r].row /\ q.pc = req[r].pc
        BY <2>t, <4>1 DEF Request
      <4>3. req' = [req EXCEPT ![r] = q]
        BY <3>4, <4>1, <1>t DEF TypeOK
      <4> QED
        BY <1>t, <3>1, <4>2, <4>3, MoveHistory
    <3> QED
      BY <3>2, <3>3, <3>4
  <2>14. CASE Fail(r)
    <3>1. failures' # 0
      BY <2>14, <1>t, ConstantsAssumption DEF Fail, TypeOK
    <3> QED
      BY <1>t, <3>1 DEF HistoryInv
  <2> QED
    BY <1>2, <2>1, <2>2, <2>3, <2>4, <2>5, <2>6, <2>7, <2>8, <2>9, <2>10,
       <2>11, <2>12, <2>13, <2>14 DEF Step
<1> QED
  BY <1>1, <1>2 DEF Next

\* At rest nothing is left to record, so that the rows of the history account
\* for every status, whatever operations overlap: recordStatusChange comes
\* after each write of updateRide, and a stale entity carries a status that a
\* transition wrote before.
THEOREM HistoryCorrect == Spec => []HistoryIsConnected
<1>1. HistoryInv => HistoryIsConnected
  <2> SUFFICES ASSUME HistoryInv, AtRest, failures = 0
               PROVE  /\ \E i \in DOMAIN history : history[i].to = ride.status
                      /\ \A i \in DOMAIN history :
                           \/ history[i].from = "null"
                           \/ \E j \in DOMAIN history \ {i} : history[j].to = history[i].from
    BY DEF HistoryIsConnected
  <2>1. \A r \in Requests : ~Recording(req[r])
    BY DEF AtRest, InFlight, Recording
  <2>2. \A x : Covered(x, history, req) => \E i \in DOMAIN history : history[i].to = x
    BY <2>1 DEF Covered
  <2> QED
    BY <2>2 DEF HistoryInv
<1>2. HistoryInv /\ [Next]_vars => HistoryInv'
  BY NextHistoryInv
<1> QED
  BY <1>1, <1>2, InitHistoryInv, PTL DEF Spec

-----------------------------------------------------------------------------
(***************************************************************************)
(* RideLifecycle implements RideOwnership when only drivers' accepts       *)
(* overlap.  DriverInv and StatusInv do not say who is out of the ride:    *)
(* OwnershipInv adds what each handler in flight knows about that.         *)
(***************************************************************************)
Out == {"declined", "canceled"}

Rejections == {"reject", "riderReject"}

\* What a handler knows of its candidate and of the end of the ride.
OwnershipKnown(q, row, cand) ==
  /\ q.op = "accept" /\ q.pc = "save" => cand[q.driver] \notin Out
  /\ q.op = "accept" /\ q.pc = "claim" /\ row.driver = NoDriver =>
       cand[q.driver] \notin Out
  /\ q.op = "accept" /\ q.pc = "supersede" =>
       row.driver # NoDriver /\ row.driver # q.driver
  /\ q.op = "confirm" /\ q.pc \notin {"idle", "candidate"} =>
       cand[q.driver] \notin Out \cup {"invited"}
  /\ q.op \in Rejections /\ q.pc # "idle" => row.status \notin Terminal
  /\ q.op \in Rejections /\ q.pc \in {"candidate", "save", "merge", "write"} =>
       q.row.status \notin Terminal
  /\ q.stage = "release" /\ q.pc \in {"merge", "write"} =>
       /\ q.driver \in Drivers /\ row.driver = q.driver
       /\ cand[q.driver] \in Out
  /\ q.pc \in {"merge", "write"} /\ row.status \notin Terminal
       /\ q.row.status = "completed" => q.op = "complete"

OwnershipInv ==
  /\ DriverInv
  /\ StatusInv
  /\ \A r \in Requests : OwnershipKnown(req[r], ride, candidates)

\* Accepts keep the driver of the ride.
LEMMA AcceptKeepsDriver == {"accept"} \subseteq KeepDriver
BY DEF KeepDriver

\* A handler that ended needs to know nothing.
LEMMA IdleOwnership ==
  ASSUME NEW row, NEW cand
  PROVE  OwnershipKnown(Idle, row, cand)
BY DEF Idle, OwnershipKnown, Rejections

\* OwnershipInv holds initially.
LEMMA InitOwnershipInv == Init => OwnershipInv
BY InitDriverInv, InitStatusInv, IdleOwnership DEF Init, OwnershipInv

\* The handlers that do not move are accepts: they still know what they need
\* when a driver stays and nobody but a loser of the race comes out.
LEMMA OwnershipInvKept ==
  ASSUME OwnershipInv, DriverInv', StatusInv',
         NEW r \in Requests, NEW q \in Request,
         req[r].pc # "idle",
         req' = [req EXCEPT ![r] = q],
         OwnershipKnown(q, ride', candidates'),
         req[r].op = "accept" =>
           /\ ride.driver # NoDriver => ride'.driver = ride.driver
           /\ \A d \in Drivers :
                candidates[d] \notin Out /\ candidates'[d] \in Out =>
                  ride.driver # NoDriver /\ ride.driver # d
  PROVE  OwnershipInv'
<1>1. ASSUME NEW p \in Requests
      PROVE  OwnershipKnown(req'[p], ride', candidates')
  <2>1. CASE p = r
    BY <2>1 DEF OwnershipInv, DriverInv, TypeOK
  <2>2. CASE p # r
    <3>1. req'[p] = req[p] /\ OwnershipKnown(req[p], ride, candidates)
      BY <2>2 DEF OwnershipInv, DriverInv, TypeOK
    <3>2. CASE req[p].pc = "idle"
      BY <3>1, <3>2 DEF OwnershipKnown
    <3>3. CASE req[p].pc # "idle"
      <4>1. req[r].op = "accept" /\ req[p].op = "accept"
        BY <2>2, <3>3 DEF OwnershipInv, StatusInv, Exclusive
      <4>2. /\ Shape(req[p])
            /\ DriverKnown(req[p], ride, candidates)
            /\ StatusKnown(req[p], ride, candidates)
            /\ req[p].pc \in {"claim", "save"} => req[p].driver \in Drivers
        BY DEF OwnershipInv, DriverInv, StatusInv, TypeOK
      <4>3. req[p].stage # "release"
        BY <3>3, <4>1, <4>2 DEF Shape
      <4>4. req[p].pc \in {"merge", "write"} => req[p].row.status # "completed"
        BY <4>1, <4>2 DEF StatusKnown, Terminal
      <4>5. req[p].pc = "save" => ride.driver = req[p].driver
        BY <4>1, <4>2 DEF DriverKnown
      <4>6. OwnershipKnown(req[p], ride', candidates')
        BY <3>1, <4>1, <4>2, <4>3, <4>4, <4>5 DEF OwnershipKnown, Rejections
      <4> QED
        BY <3>1, <4>6
    <3> QED
      BY <3>2, <3>3
  <2> QED
    BY <2>1, <2>2
<1> QED
  BY <1>1 DEF OwnershipInv

\* Every step keeps OwnershipInv when only accepts overlap.
LEMMA NextOwnershipInv ==
  ASSUME Overlapping \subseteq {"accept"}, OwnershipInv, [Next]_vars
  PROVE  OwnershipInv'
<1>t. DriverInv' /\ StatusInv'
  BY AcceptKeepsDriver, NextDriverInv, NextStatusInv DEF OwnershipInv
<1>1. CASE UNCHANGED vars
  BY <1>1, <1>t DEF OwnershipInv, vars
<1>2. ASSUME NEW r \in Requests, Arrive(r)
      PROVE  OwnershipInv'
  <2>1. PICK op \in Operations, d \in Drivers \cup {NoDriver, ride.driver},
             pc \in PC, stage \in Transitions \cup Updates :
             Arrival(r, op, d, pc, stage)
    BY <1>2, ArrivalShape
  <2> DEFINE q == [Idle EXCEPT !.op = op, !.pc = pc, !.stage = stage,
                               !.driver = d, !.row = ride]
  <2>2. /\ q.op = op /\ q.pc = pc /\ q.stage = stage
        /\ q.driver = d /\ q.row = ride
    BY DEF Idle
  <2>3. /\ req' = [req EXCEPT ![r] = q]
        /\ UNCHANGED <<ride, candidates>>
    BY <2>1 DEF Arrival, Begin
  <2>4. OwnershipKnown(q, ride, candidates)
    BY <2>1, <2>2 DEF Arrival, OwnershipKnown, Rejections
  <2>5. \A p \in Requests : OwnershipKnown(req'[p], ride, candidates)
    BY <2>3, <2>4 DEF OwnershipInv, DriverInv, TypeOK
  <2> QED
    BY <1>t, <2>3, <2>5 DEF OwnershipInv
<1>3. ASSUME NEW r \in Requests, Step(r) \/ Fail(r)
      PROVE  OwnershipInv'
  <2>t. /\ ride \in Ride
        /\ candidates \in [Drivers -> CandidateStatus]
        /\ req \in [Requests -> Request]
        /\ req[r] \in Request
        /\ req[r].row \in Ride
        /\ Shape(req[r])
        /\ DriverKnown(req[r], ride, candidates)
        /\ StatusKnown(req[r], ride, candidates)
        /\ OwnershipKnown(req[r], ride, candidates)
    BY DEF OwnershipInv, DriverInv, StatusInv, TypeOK, Request
  \* The steps that change neither the ride nor a candidate.
  <2>s. ASSUME NEW q \in Request, req' = [req EXCEPT ![r] = q],
               req[r].pc # "idle", ride' = ride, candidates' = candidates,
               OwnershipKnown(q, ride, candidates)
        PROVE  OwnershipInv'
    BY <1>t, <2>s, OwnershipInvKept
  \* The steps that end the request.
  <2>f. ASSUME Finish(r), ride' = ride, candidates' = candidates,
               req[r].pc # "idle"
        PROVE  OwnershipInv'
    BY <2>f, <2>s, IdleType, IdleOwnership DEF Finish
  \* The steps that only move the program counter.
  <2>g. ASSUME NEW pc \in PC, Goto(r, pc)
        PROVE  LET q == [req[r] EXCEPT !.pc = pc] IN
               /\ req' = [req EXCEPT ![r] = q]
               /\ q \in Request /\ q.pc = pc
               /\ q.op = req[r].op /\ q.stage = req[r].stage
               /\ q.driver = req[r].driver /\ q.row = req[r].row
    BY <2>t, <2>g DEF Goto, Request
  \* The steps that leave a transition or an update.
  <2>c. ASSUME NEW row \in Ride, req[r].op # "accept" => row.status = ride.status,
               req' = [req EXCEPT ![r] = Continue(req[r], row)],
               ride' = ride, candidates' = candidates,
               req[r].pc \in Accesses
        PROVE  OwnershipInv'
    <3> DEFINE q == Continue(req[r], row)
    <3>1. req[r].pc # "idle"
      BY <2>c DEF Accesses
    <3>2. q \in Request
      BY <2>t, ContinueType
    <3>3. \/ q = Idle
          \/ /\ q.op = req[r].op /\ q.driver = req[r].driver /\ Shape(q)
             /\ \/ q.pc \in {"read", "list"}
                \/ /\ q.pc = "merge" /\ q.stage \in {"zeroFare", "settle"}
                   /\ q.row.status = row.status
                   /\ q.op \in {"cancel", "complete"}
      BY <2>t, <2>c, <3>1, ContinueShape
    <3>4. OwnershipKnown(q, ride, candidates)
      <4> HIDE DEF q
      <4>1. CASE q = Idle
        BY <4>1, IdleOwnership
      <4>2. CASE q # Idle
        BY <2>t, <2>c, <3>3, <4>2
        DEF OwnershipKnown, Accesses, Rejections, Terminal
      <4> QED
        BY <4>1, <4>2
    <3> QED
      BY <2>c, <2>s, <3>1, <3>2, <3>4
  <2>1. CASE AcceptCandidate(r)
    <3>1. CASE Finish(r)
      BY <2>1, <3>1, <2>f DEF AcceptCandidate
    <3>2. CASE ~Finish(r)
      <4> DEFINE pc == IF req[r].row.driver = NoDriver THEN "claim"
                       ELSE IF req[r].row.driver = req[r].driver
                              THEN "save" ELSE "supersede"
                 q == [req[r] EXCEPT !.pc = pc]
      <4>1. /\ Goto(r, pc) /\ ride' = ride /\ candidates' = candidates
            /\ req[r].pc = "candidate" /\ req[r].op = "accept"
            /\ candidates[req[r].driver] \in {"invited", "accepted"}
        BY <2>1, <3>2 DEF AcceptCandidate
      <4>2. pc \in PC
        BY DEF PC
      <4>3. /\ req' = [req EXCEPT ![r] = q] /\ q \in Request
            /\ q.pc = pc /\ q.op = "accept" /\ q.stage = req[r].stage
            /\ q.driver = req[r].driver
        BY <4>1, <4>2, <2>g
      <4>4. q.stage = "assign"
        BY <2>t, <4>1, <4>3 DEF Shape, Accesses
      <4>5. OwnershipKnown(q, ride, candidates)
        BY <2>t, <4>1, <4>3, <4>4 DEF DriverKnown, OwnershipKnown, Rejections, Out
      <4> HIDE DEF q
      <4> QED
        BY <2>s, <4>1, <4>3, <4>5
    <3> QED
      BY <3>1, <3>2
  <2>2. CASE RejectCandidate(r) \/ RiderRejectCandidate(r)
    <3> DEFINE q == [req[r] EXCEPT !.pc = "save"]
    <3>1. /\ ride' = ride /\ candidates' = candidates
          /\ req[r].pc = "candidate" /\ req[r].op \in Rejections
          /\ Finish(r) \/ Goto(r, "save")
      BY <2>2 DEF RejectCandidate, RiderRejectCandidate, Rejections
    <3>2. CASE Finish(r)
      BY <2>f, <3>1, <3>2
    <3>3. CASE Goto(r, "save")
      <4>1. /\ req' = [req EXCEPT ![r] = q] /\ q \in Request
            /\ q.pc = "save" /\ q.op = req[r].op /\ q.row = req[r].row
        BY <3>3, <2>g DEF PC
      <4>2. OwnershipKnown(q, ride, candidates)
        BY <2>t, <3>1, <4>1 DEF OwnershipKnown, Rejections
      <4> HIDE DEF q
      <4> QED
        BY <2>s, <3>1, <4>1, <4>2
    <3> QED
      BY <3>1, <3>2, <3>3
  <2>3. CASE ConfirmCandidate(r)
    <3> DEFINE q == [req[r] EXCEPT !.pc = "read"]
    <3>1. /\ ride' = ride /\ candidates' = candidates
          /\ req[r].pc = "candidate" /\ req[r].op = "confirm"
          /\ Finish(r) \/ (Goto(r, "read") /\ candidates[req[r].driver] = "accepted")
      BY <2>3 DEF ConfirmCandidate
    <3>2. CASE Finish(r)
      BY <2>f, <3>1, <3>2
    <3>3. CASE ~Finish(r)
      <4>1. /\ req' = [req EXCEPT ![r] = q] /\ q \in Request
            /\ q.pc = "read" /\ q.op = "confirm" /\ q.driver = req[r].driver
        BY <3>1, <3>3, <2>g DEF PC
      <4>2. OwnershipKnown(q, ride, candidates)
        BY <3>1, <3>3, <4>1 DEF OwnershipKnown, Rejections, Out
      <4> HIDE DEF q
      <4> QED
        BY <2>s, <3>1, <4>1, <4>2
    <3> QED
      BY <3>2, <3>3
  \* The loser of the race is not the driver of the ride.
  <2>4. CASE MarkCandidateSuperseded(r)
    <3>1. /\ req[r].pc = "supersede" /\ ride' = ride
          /\ candidates' = [candidates EXCEPT ![req[r].driver] = "canceled"]
          /\ req' = [req EXCEPT ![r] = Idle]
      BY <2>4 DEF MarkCandidateSuperseded, Finish
    <3>2. ride.driver # NoDriver /\ ride.driver # req[r].driver
      BY <2>t, <3>1 DEF Shape, Accesses, OwnershipKnown
    <3>3. \A d \in Drivers :
            candidates[d] \notin Out /\ candidates'[d] \in Out => ride.driver # d
      BY <2>t, <3>1, <3>2
    <3> QED
      BY <1>t, <3>1, <3>2, <3>3, IdleType, IdleOwnership, OwnershipInvKept
  <2>5. CASE ClaimDriver(r)
    <3>1. CASE Finish(r) /\ UNCHANGED ride
      BY <2>5, <3>1, <2>f DEF ClaimDriver
    <3>2. CASE ~(Finish(r) /\ UNCHANGED ride)
      <4> DEFINE q == [req[r] EXCEPT !.pc = "save"]
      <4>1. /\ ride.driver = NoDriver
            /\ ride' = [ride EXCEPT !.driver = req[r].driver]
            /\ Goto(r, "save") /\ candidates' = candidates
            /\ req[r].pc = "claim"
        BY <2>5, <3>2 DEF ClaimDriver
      <4>2. req[r].op = "accept"
        BY <4>1, <2>t DEF Shape, Accesses
      <4>3. /\ req' = [req EXCEPT ![r] = q] /\ q \in Request
            /\ q.pc = "save" /\ q.op = "accept" /\ q.driver = req[r].driver
            /\ q.stage = req[r].stage
        BY <4>1, <4>2, <2>g DEF PC
      <4>4. OwnershipKnown(q, ride', candidates')
        BY <2>t, <4>1, <4>2, <4>3 DEF OwnershipKnown, Rejections
      <4> HIDE DEF q
      <4> QED
        BY <1>t, <4>1, <4>3, <4>4, OwnershipInvKept
    <3> QED
      BY <3>1, <3>2
  <2>6. CASE SaveCandidate(r)
    <3>1. /\ req[r].pc = "save" /\ ride' = ride
          /\ req[r].op \in {"accept", "reject", "riderReject"}
          /\ candidates' = [candidates EXCEPT ![req[r].driver] = AnswerOf[req[r].op]]
          /\ req[r].driver \in Drivers
      BY <2>6 DEF SaveCandidate, OwnershipInv, DriverInv, TypeOK
    <3>2. CASE req[r].op = "accept"
      <4> DEFINE q == [req[r] EXCEPT !.pc = "read"]
      <4>1. /\ req' = [req EXCEPT ![r] = q] /\ q \in Request
            /\ q.pc = "read" /\ q.op = "accept"
        BY <2>6, <3>2, <2>g DEF SaveCandidate, PC
      <4>2. \A d \in Drivers : candidates[d] \notin Out => candidates'[d] \notin Out
        BY <3>1, <3>2, <2>t DEF AnswerOf, Out
      <4>3. OwnershipKnown(q, ride', candidates')
        BY <4>1 DEF OwnershipKnown, Rejections
      <4> HIDE DEF q
      <4> QED
        BY <1>t, <3>1, <4>1, <4>2, <4>3, OwnershipInvKept
    <3>3. CASE req[r].op # "accept"
      <4>1. CASE Finish(r)
        BY <1>t, <3>1, <3>3, <4>1, IdleType, IdleOwnership, OwnershipInvKept
        DEF Finish
      <4>2. CASE ~Finish(r)
        <5> DEFINE q == [req[r] EXCEPT !.row = [@ EXCEPT !.driver = NoDriver],
                                       !.pc = "merge"]
        <5>1. /\ req' = [req EXCEPT ![r] = q]
              /\ req[r].op = "riderReject" \/ req[r].row.driver = req[r].driver
          BY <2>6, <3>3, <4>2, <2>t DEF SaveCandidate, Request, Ride
        <5>2. /\ q \in Request /\ q.op = req[r].op /\ q.driver = req[r].driver
              /\ q.pc = "merge" /\ q.row.status = req[r].row.status
          BY <2>t DEF Request, Ride, PC
        <5>3. /\ req[r].op \in Rejections
              /\ ride.status \notin Terminal
              /\ q.row.status \notin Terminal
          BY <2>t, <3>1, <3>3, <5>2 DEF OwnershipKnown, Rejections
        <5>4. ride.driver = req[r].driver
          BY <2>t, <3>1, <3>3, <5>1 DEF DriverKnown
        <5>5. candidates'[req[r].driver] \in Out
          BY <2>t, <3>1, <3>3 DEF AnswerOf, Out
        <5>6. OwnershipKnown(q, ride', candidates')
          BY <3>1, <3>3, <5>2, <5>3, <5>4, <5>5
          DEF OwnershipKnown, Rejections, Terminal
        <5> HIDE DEF q
        <5> QED
          BY <1>t, <3>1, <3>3, <5>1, <5>2, <5>6, OwnershipInvKept
      <4> QED
        BY <4>1, <4>2
    <3> QED
      BY <3>2, <3>3
  <2>7. CASE TransitionRideStatus(r)
    <3>1. req[r].pc = "read" /\ ride' = ride /\ candidates' = candidates
      BY <2>7 DEF TransitionRideStatus
    <3>2. CASE req' = [req EXCEPT ![r] = Continue(req[r], ride)]
      BY <2>c, <2>t, <3>1, <3>2 DEF Accesses
    <3>3. CASE req' # [req EXCEPT ![r] = Continue(req[r], ride)]
      <4> DEFINE q == [req[r] EXCEPT !.row = [ride EXCEPT !.status = NextStatus[req[r].stage]],
                                     !.from = ride.status, !.pc = "merge"]
      <4>1. /\ req' = [req EXCEPT ![r] = q]
            /\ req[r].stage \in Transitions
            /\ ride.status \in AllowedStatuses[req[r].stage]
        BY <2>7, <3>3, <2>t DEF TransitionRideStatus, Request
      <4>2. NextStatus[req[r].stage] \in RideStatus
        BY <4>1, TransitionTables
      <4>3. /\ q \in Request /\ q.op = req[r].op /\ q.stage = req[r].stage
            /\ q.driver = req[r].driver
            /\ q.pc = "merge" /\ q.row.status = NextStatus[req[r].stage]
        BY <2>t, <4>2, ConstantsAssumption DEF Request, Ride, RideStatus, PC
      <4>4. /\ q.op \in Rejections => q.row.status = "candidates_computed"
            /\ q.row.status = "completed" => q.op = "complete"
            /\ q.stage # "release"
        BY <2>t, <3>1, <4>1, <4>3
        DEF Shape, Accesses, NextStatus, Rejections, Transitions
      <4>5. OwnershipKnown(q, ride, candidates)
        BY <2>t, <3>1, <4>3, <4>4 DEF OwnershipKnown, Rejections, Terminal
      <4> HIDE DEF q
      <4> QED
        BY <2>s, <3>1, <4>1, <4>3, <4>5
    <3> QED
      BY <3>2, <3>3
  <2>8. CASE UpdateRideMerge(r)
    <3> DEFINE q == [req[r] EXCEPT !.row = MergeRideData(ride, @), !.pc = "write"]
    <3>1. /\ req[r].pc = "merge" /\ ride' = ride /\ candidates' = candidates
          /\ req' = [req EXCEPT ![r] = q]
      BY <2>8, <2>t DEF UpdateRideMerge, Request
    <3>2. /\ q \in Request /\ q.op = req[r].op /\ q.stage = req[r].stage
          /\ q.driver = req[r].driver
          /\ q.pc = "write" /\ q.row.status = req[r].row.status
      BY <2>t, MergeType DEF Request, PC
    <3>3. OwnershipKnown(q, ride, candidates)
      BY <2>t, <3>1, <3>2 DEF OwnershipKnown
    <3> HIDE DEF q
    <3> QED
      BY <2>s, <3>1, <3>2, <3>3
  <2>9. CASE UpdateRideWrite(r)
    <3> DEFINE q == [req[r] EXCEPT !.pc = "reload"]
    <3>1. /\ req[r].pc = "write" /\ ride' = req[r].row /\ candidates' = candidates
          /\ Goto(r, "reload")
      BY <2>9 DEF UpdateRideWrite
    <3>2. /\ req' = [req EXCEPT ![r] = q] /\ q \in Request
          /\ q.pc = "reload" /\ q.op = req[r].op /\ q.stage = req[r].stage
          /\ q.driver = req[r].driver
      BY <3>1, <2>g DEF PC
    <3>3. OwnershipKnown(q, ride', candidates')
      BY <2>t, <3>1, <3>2 DEF OwnershipKnown, Rejections
    <3>4. req[r].op = "accept" => ride'.driver = ride.driver
      BY <2>t, <3>1 DEF DriverKnown, Shape
    <3> HIDE DEF q
    <3> QED
      BY <1>t, <3>1, <3>2, <3>3, <3>4, OwnershipInvKept
  <2>10. CASE UpdateRideReload(r)
    <3>1. req[r].pc = "reload" /\ ride' = ride /\ candidates' = candidates
      BY <2>10 DEF UpdateRideReload
    <3>2. CASE req' = [req EXCEPT ![r] = Continue(req[r], ride)]
      BY <2>c, <2>t, <3>1, <3>2 DEF Accesses
    <3>3. CASE req' # [req EXCEPT ![r] = Continue(req[r], ride)]
      <4> DEFINE q == [req[r] EXCEPT !.row = ride, !.pc = "history"]
      <4>1. req' = [req EXCEPT ![r] = q]
        BY <2>10, <3>3, <2>t DEF UpdateRideReload, Request
      <4>2. /\ q \in Request /\ q.op = req[r].op /\ q.stage = req[r].stage
            /\ q.driver = req[r].driver /\ q.pc = "history"
        BY <2>t DEF Request, PC
      <4>3. OwnershipKnown(q, ride, candidates)
        BY <2>t, <3>1, <4>2 DEF OwnershipKnown, Rejections
      <4> HIDE DEF q
      <4> QED
        BY <2>s, <3>1, <4>1, <4>2, <4>3
    <3> QED
      BY <3>2, <3>3
  <2>11. CASE RecordStatusChange(r)
    <3>1. /\ req[r].pc = "history" /\ ride' = ride /\ candidates' = candidates
          /\ req' = [req EXCEPT ![r] = Continue(req[r], req[r].row)]
      BY <2>11, <2>t DEF RecordStatusChange
    <3>2. req[r].op # "accept" => req[r].row.status = ride.status
      BY <2>t, <3>1 DEF StatusKnown
    <3> QED
      BY <2>c, <2>t, <3>1, <3>2 DEF Accesses
  <2>12. CASE ListCandidates(r)
    <3>1. req[r].pc = "list" /\ ride' = ride /\ candidates' = candidates
      BY <2>12 DEF ListCandidates
    <3>2. CASE Finish(r)
      BY <2>f, <3>1, <3>2
    <3>3. CASE ~Finish(r)
      <4> DEFINE q == [req[r] EXCEPT !.todo = ToUpdate(req[r]), !.pc = "each"]
      <4>1. req' = [req EXCEPT ![r] = q]
        BY <2>12, <3>3, <2>t DEF ListCandidates, Request
      <4>2. /\ q \in Request /\ q.op = req[r].op /\ q.stage = req[r].stage
            /\ q.driver = req[r].driver /\ q.pc = "each"
        BY <2>t DEF Request, PC, ToUpdate
      <4>3. OwnershipKnown(q, ride, candidates)
        BY <2>t, <3>1, <4>2 DEF OwnershipKnown, Rejections
      <4> HIDE DEF q
      <4> QED
        BY <2>s, <3>1, <4>1, <4>2, <4>3
    <3> QED
      BY <3>2, <3>3
  <2>13. CASE SaveMany(r)
    <3>1. /\ req[r].pc = "each" /\ ride' = ride
          /\ req[r].op \in {"cancel", "confirm"}
      BY <2>13, <2>t DEF SaveMany, Shape, Accesses
    <3>2. PICK d \in req[r].todo :
            /\ candidates' = [candidates EXCEPT ![d] =
                 IF req[r].op = "confirm" /\ d = req[r].driver
                   THEN "confirmed" ELSE "canceled"]
            /\ IF req[r].todo = {d}
                 THEN Finish(r)
                 ELSE req' = [req EXCEPT ![r].todo = @ \ {d}]
      BY <2>13 DEF SaveMany
    <3>3. CASE Finish(r)
      BY <1>t, <3>1, <3>3, IdleType, IdleOwnership, OwnershipInvKept DEF Finish
    <3>4. CASE ~Finish(r)
      <4> DEFINE q == [req[r] EXCEPT !.todo = @ \ {d}]
      <4>1. req' = [req EXCEPT ![r] = q]
        BY <3>2, <3>4, <2>t DEF Request
      <4>2. /\ q \in Request /\ q.op = req[r].op /\ q.driver = req[r].driver
            /\ q.pc = "each"
        BY <2>t, <3>1 DEF Request
      <4>3. req[r].op = "confirm" => candidates'[req[r].driver] \notin Out \cup {"invited"}
        <5>1. req[r].op = "confirm" =>
                candidates[req[r].driver] \notin Out \cup {"invited"}
          BY <2>t, <3>1 DEF OwnershipKnown
        <5>2. d \in Drivers
          BY <2>t, <3>2 DEF Request
        <5> QED
          BY <2>t, <3>2, <5>1, <5>2 DEF Out
      <4>4. OwnershipKnown(q, ride', candidates')
        BY <3>1, <4>2, <4>3 DEF OwnershipKnown, Rejections
      <4> HIDE DEF q
      <4> QED
        BY <1>t, <3>1, <4>1, <4>2, <4>4, OwnershipInvKept
    <3> QED
      BY <3>3, <3>4
  <2>14. CASE Fail(r)
    BY <2>14, <2>f DEF Fail
  <2> QED
    BY <1>3, <2>1, <2>2, <2>3, <2>4, <2>5, <2>6, <2>7, <2>8, <2>9, <2>10,
       <2>11, <2>12, <2>13, <2>14 DEF Step
<1> QED
  BY <1>1, <1>2, <1>3 DEF Next

-----------------------------------------------------------------------------
(***************************************************************************)
(* The refinement.                                                         *)
(***************************************************************************)

\* The initial ride is the initial abstract ride.
LEMMA InitOwnership == Init => Ownership!Init
BY DEF Init, InitialRide, Ownership!Init, StandingOf, Terminal

\* A candidate that a step saves as out withdraws its driver.
LEMMA WithdrawStep ==
  ASSUME TypeOK, NEW d \in Drivers, NEW c \in Out,
         candidates' = [candidates EXCEPT ![d] = c], ride' = ride
  PROVE  Ownership!Next
<1> DEFINE answer == [e \in Drivers |-> StandingOf[candidates[e]]]
<1>1. /\ candidates \in [Drivers -> CandidateStatus]
      /\ StandingOf[c] = "out"
  BY DEF TypeOK, StandingOf, Out
<1>2. answer' = [answer EXCEPT ![d] = "out"]
  BY <1>1
<1>3. Ownership!Withdraw(d)
  BY <1>2 DEF Ownership!Withdraw
<1> QED
  BY <1>3 DEF Ownership!Next

\* A step that leaves the driver, the standing of every driver and the
\* outcome alone is no step of the abstract ride.
LEMMA OwnershipStutters ==
  ASSUME TypeOK, TypeOK',
         ride'.driver = ride.driver,
         ride'.status = ride.status \/ {ride.status, ride'.status} \cap Terminal = {},
         \A d \in Drivers : StandingOf[candidates'[d]] = StandingOf[candidates[d]]
  PROVE  UNCHANGED Ownership!vars
<1>1. [d \in Drivers |-> StandingOf[candidates[d]]]'
        = [d \in Drivers |-> StandingOf[candidates[d]]]
  OBVIOUS
<1>2. (IF ride.status \in Terminal THEN ride.status ELSE "open")'
        = IF ride.status \in Terminal THEN ride.status ELSE "open"
  OBVIOUS
<1> QED
  BY <1>1, <1>2 DEF Ownership!vars

\* Every database access is a step of the abstract ride or none.
LEMMA NextOwnership ==
  ASSUME OwnershipInv, OwnershipInv', [Next]_vars
  PROVE  [Ownership!Next]_(Ownership!vars)
<1>t. /\ TypeOK /\ TypeOK'
      /\ ride \in Ride
      /\ candidates \in [Drivers -> CandidateStatus]
      /\ HolderHasRide
  BY DEF OwnershipInv, DriverInv, TypeOK
<1> DEFINE answer == [e \in Drivers |-> StandingOf[candidates[e]]]
           outcome == IF ride.status \in Terminal THEN ride.status ELSE "open"
<1>1. CASE UNCHANGED <<ride, candidates>>
  BY <1>1, <1>t, OwnershipStutters
<1>2. CASE ~UNCHANGED <<ride, candidates>>
  <2>1. PICK r \in Requests : Arrive(r) \/ Step(r) \/ Fail(r)
    BY <1>2 DEF Next, vars
  <2>2. \/ MarkCandidateSuperseded(r) \/ SaveCandidate(r) \/ SaveMany(r)
        \/ ClaimDriver(r) \/ UpdateRideWrite(r)
    BY <1>2, <2>1
    DEF Arrive, CancelRide, AcceptRideByDriver, RejectRideByDriver,
        ConfirmDriverAcceptance, RejectDriverAcceptance, StartRide,
        CompleteRide, Begin, Step, AcceptCandidate, RejectCandidate,
        ConfirmCandidate, RiderRejectCandidate, TransitionRideStatus,
        UpdateRideMerge, UpdateRideReload, RecordStatusChange,
        ListCandidates, Fail
  <2>t. /\ req[r] \in Request
        /\ Shape(req[r])
        /\ DriverKnown(req[r], ride, candidates)
        /\ StatusKnown(req[r], ride, candidates)
        /\ OwnershipKnown(req[r], ride, candidates)
        /\ req[r].pc \in {"supersede", "claim", "save"} => req[r].driver \in Drivers
    BY DEF OwnershipInv, DriverInv, StatusInv, TypeOK
  <2>3. CASE MarkCandidateSuperseded(r)
    BY <1>t, <2>t, <2>3, WithdrawStep DEF MarkCandidateSuperseded, Out
  <2>4. CASE SaveCandidate(r)
    <3>1. /\ req[r].pc = "save" /\ ride' = ride
          /\ req[r].op \in {"accept", "reject", "riderReject"}
          /\ candidates' = [candidates EXCEPT ![req[r].driver] = AnswerOf[req[r].op]]
          /\ req[r].driver \in Drivers
      BY <2>4, <2>t DEF SaveCandidate
    <3>2. CASE req[r].op # "accept"
      <4>1. AnswerOf[req[r].op] \in Out
        BY <3>1, <3>2 DEF AnswerOf, Out
      <4> QED
        BY <1>t, <3>1, <4>1, WithdrawStep
    <3>3. CASE req[r].op = "accept"
      <4>1. /\ candidates' = [candidates EXCEPT ![req[r].driver] = "accepted"]
            /\ ride.driver = req[r].driver
            /\ ride.status \notin Terminal
            /\ candidates[req[r].driver] \in {"invited", "accepted", "confirmed"}
        BY <1>t, <2>t, <3>1, <3>3
        DEF AnswerOf, DriverKnown, StatusKnown, OwnershipKnown, CandidateStatus, Out
      <4>2. CASE candidates[req[r].driver] = "invited"
        <5>1. /\ StandingOf["invited"] = "open"
              /\ StandingOf["accepted"] = "engaged"
          BY DEF StandingOf
        <5>2. /\ answer[ride.driver] = "open"
              /\ answer' = [answer EXCEPT ![ride.driver] = "engaged"]
          BY <1>t, <3>1, <4>1, <4>2, <5>1
        <5>3. Ownership!Engage
          BY <3>1, <4>1, <5>2, ConstantsAssumption DEF Ownership!Engage
        <5> QED
          BY <5>3 DEF Ownership!Next
      <4>3. CASE candidates[req[r].driver] # "invited"
        <5>1. \A d \in Drivers : StandingOf[candidates'[d]] = StandingOf[candidates[d]]
          BY <1>t, <4>1, <4>3 DEF StandingOf
        <5> QED
          BY <1>t, <3>1, <5>1, OwnershipStutters
      <4> QED
        BY <4>2, <4>3
    <3> QED
      BY <3>2, <3>3
  <2>5. CASE SaveMany(r)
    <3>1. req[r].pc = "each" /\ ride' = ride
      BY <2>5 DEF SaveMany
    <3>2. PICK d \in req[r].todo :
            candidates' = [candidates EXCEPT ![d] =
              IF req[r].op = "confirm" /\ d = req[r].driver
                THEN "confirmed" ELSE "canceled"]
      BY <2>5 DEF SaveMany
    <3>3. d \in Drivers
      BY <2>t DEF Request
    <3>4. CASE req[r].op = "confirm" /\ d = req[r].driver
      <4>1. candidates[d] \in {"accepted", "confirmed"}
        BY <1>t, <2>t, <3>1, <3>3, <3>4 DEF OwnershipKnown, CandidateStatus, Out
      <4>2. \A e \in Drivers : StandingOf[candidates'[e]] = StandingOf[candidates[e]]
        BY <1>t, <3>2, <3>4, <4>1 DEF StandingOf
      <4> QED
        BY <1>t, <3>1, <4>2, OwnershipStutters
    <3>5. CASE ~(req[r].op = "confirm" /\ d = req[r].driver)
      <4>1. candidates' = [candidates EXCEPT ![d] = "canceled"]
        BY <3>2, <3>5
      <4> QED
        BY <1>t, <3>1, <3>3, <4>1, WithdrawStep DEF Out
    <3> QED
      BY <3>4, <3>5
  <2>6. CASE ClaimDriver(r)
    <3>1. /\ req[r].pc = "claim" /\ ride.driver = NoDriver
          /\ ride' = [ride EXCEPT !.driver = req[r].driver]
          /\ candidates' = candidates
      BY <1>2, <2>6 DEF ClaimDriver
    <3>2. /\ req[r].op = "accept" /\ req[r].driver \in Drivers
          /\ ride.status \notin Terminal
          /\ candidates[req[r].driver] \notin Out
      BY <2>t, <3>1 DEF Shape, Accesses, StatusKnown, OwnershipKnown
    <3>3. candidates[req[r].driver] = "invited"
      BY <1>t, <3>1, <3>2, ConstantsAssumption
      DEF HolderHasRide, CandidateStatus, Out
    <3>4. answer[req[r].driver] = "open"
      BY <3>2, <3>3 DEF StandingOf
    <3>5. ride'.driver = req[r].driver /\ ride'.status = ride.status
      BY <1>t, <3>1 DEF Ride
    <3>6. Ownership!Claim(req[r].driver)
      BY <3>1, <3>2, <3>4, <3>5 DEF Ownership!Claim
    <3> QED
      BY <3>2, <3>6 DEF Ownership!Next
  <2>7. CASE UpdateRideWrite(r)
    <3>1. /\ req[r].pc = "write" /\ ride' = req[r].row /\ candidates' = candidates
      BY <2>7 DEF UpdateRideWrite
    <3>2. answer' = answer
      BY <3>1
    <3>3. CASE req[r].stage = "release"
      <4>1. /\ ride'.driver = NoDriver
            /\ ride.driver = req[r].driver /\ req[r].driver \in Drivers
            /\ candidates[req[r].driver] \in Out
            /\ ride.status \notin Terminal /\ ride'.status \notin Terminal
        BY <2>t, <3>1, <3>3 DEF DriverKnown, OwnershipKnown, Shape, Accesses, Rejections
      <4>2. answer[ride.driver] = "out"
        BY <4>1 DEF StandingOf, Out
      <4>3. Ownership!Release
        BY <3>2, <4>1, <4>2, ConstantsAssumption DEF Ownership!Release
      <4> QED
        BY <4>3 DEF Ownership!Next
    <3>4. CASE req[r].stage # "release"
      <4>1. ride'.driver = ride.driver
        BY <2>t, <3>1, <3>4 DEF DriverKnown
      <4>2. CASE ride.status \in Terminal \/ ride'.status \notin Terminal
        <5>1. ride'.status = ride.status \/ {ride.status, ride'.status} \cap Terminal = {}
          BY <2>t, <3>1, <4>2 DEF StatusKnown
        <5> QED
          BY <1>t, <3>1, <4>1, <5>1, OwnershipStutters
      <4>3. CASE ride.status \notin Terminal /\ ride'.status = "completed"
        <5>1. ride.driver \in Drivers
          BY <2>t, <3>1, <4>3 DEF OwnershipKnown, DriverKnown
        <5>2. Ownership!Complete
          BY <3>2, <4>1, <4>3, <5>1, ConstantsAssumption
          DEF Ownership!Complete, Terminal
        <5> QED
          BY <5>2 DEF Ownership!Next
      <4>4. CASE ride.status \notin Terminal /\ ride'.status = "canceled"
        <5>1. Ownership!Cancel
          BY <3>2, <4>1, <4>4 DEF Ownership!Cancel, Terminal
        <5> QED
          BY <5>1 DEF Ownership!Next
      <4> QED
        BY <4>2, <4>3, <4>4 DEF Terminal
    <3> QED
      BY <3>3, <3>4
  <2> QED
    BY <2>2, <2>3, <2>4, <2>5, <2>6, <2>7
<1> QED
  BY <1>1, <1>2

\* While only accepts overlap, the handlers implement the abstract ride, for
\* any number of drivers, requests and failures: nobody gets a ride that it
\* lost or turned down before, that another driver has, or that is over, and
\* a ride is released only by a driver who is out.
THEOREM OwnershipImplemented ==
  ASSUME Overlapping \subseteq {"accept"}
  PROVE  Spec => ImplementsOwnership
<1>1. Init => OwnershipInv
  BY InitOwnershipInv
<1>2. OwnershipInv /\ [Next]_vars => OwnershipInv'
  BY NextOwnershipInv
<1>3. Init => Ownership!Init
  BY InitOwnership
<1>4. OwnershipInv /\ OwnershipInv' /\ [Next]_vars => [Ownership!Next]_(Ownership!vars)
  BY NextOwnership
<1> QED
  BY <1>1, <1>2, <1>3, <1>4, PTL DEF Spec, ImplementsOwnership, Ownership!Spec

-----------------------------------------------------------------------------
(***************************************************************************)
(* The handshake.  At rest a ride agrees with the answers of its drivers;  *)
(* while accepts run, one of them is still at work on an acceptance that   *)
(* is half done; any other operation has the ride to itself and knows how  *)
(* far it has brought it.                                                  *)
(***************************************************************************)

\* The ride, the candidates and the fare tell the same story, but for an
\* acceptance that is half done.
Agrees(row, cand) ==
  /\ row.status # "requested"
  /\ row.status = "assigned" => row.driver # NoDriver
  /\ row.status = "accepted" => row.driver # NoDriver /\ cand[row.driver] = "accepted"
  /\ row.status = "enroute" =>
       /\ row.driver # NoDriver /\ cand[row.driver] = "confirmed"
       /\ \A d \in Drivers \ {row.driver} : cand[d] \in Out
  /\ row.status = "trip_started" => \A d \in Drivers : cand[d] \in Out \cup {"confirmed"}
  /\ row.status = "canceled" => \A d \in Drivers : cand[d] = "canceled"
  /\ row.fare = "due" <=> row.status = "completed"
  /\ row.status = "canceled" => row.fare = "zero"

\* An acceptance is half done.
Half(row) == row.status \in {"candidates_computed", "assigned"} /\ row.driver # NoDriver

\* An accept that still brings the ride to accepted.
Working(q) ==
  /\ q.op = "accept"
  /\ \/ q.stage = "assign" /\ q.pc \in Accesses \cup {"save"}
     \/ q.stage = "accept" /\ q.pc \in {"read", "merge", "write"}

AcceptKnown(q, row, cand) ==
  /\ q.pc \in Accesses \cup {"claim", "save"} =>
       row.status \in {"candidates_computed", "assigned", "accepted"}
  /\ q.pc \in Accesses => cand[q.driver] = "accepted"
  /\ q.pc \in {"merge", "write"} =>
       q.row.status = NextStatus[q.stage] /\ q.row.fare # "due"

StartKnown(q, row, cand) ==
  /\ Agrees(row, cand)
  /\ q.pc \in {"merge", "write"} =>
       row.status = "enroute" /\ q.row.status = "trip_started" /\ q.row.fare # "due"
  /\ q.pc \in {"read", "reload", "history"} => row.status \in {"enroute", "trip_started"}

ConfirmKnown(q, row, cand) ==
  /\ row.fare # "due"
  /\ q.pc = "candidate" => Agrees(row, cand) /\ row.status \in {"accepted", "trip_started"}
  /\ q.pc \in {"read", "merge", "write"} => row.status = "accepted"
  /\ q.pc \in Accesses => cand[q.driver] = "accepted"
  /\ q.pc \in {"merge", "write"} => q.row.status = "enroute" /\ q.row.fare # "due"
  /\ q.pc \in {"reload", "history", "list", "each"} => row.status = "enroute"
  /\ q.pc = "each" =>
       \A d \in Drivers \ q.todo :
         IF d = q.driver THEN cand[d] = "confirmed" ELSE cand[d] \in Out

RejectKnown(q, row, cand) ==
  /\ row.fare # "due"
  /\ q.pc \in {"candidate", "save"} =>
       /\ Agrees(row, cand) /\ row.status \notin {"assigned", "enroute"} /\ q.row.fare # "due"
       /\ row.status = "candidates_computed" => row.driver = NoDriver
  /\ row.status = "trip_started" => \A d \in Drivers : cand[d] \in Out \cup {"confirmed"}
  /\ q.stage = "release" /\ q.pc \in Accesses => row.status \in {"accepted", "trip_started"}
  /\ q.stage = "release" /\ q.pc \in {"merge", "write"} =>
       q.row.status = row.status /\ q.row.fare # "due"
  /\ q.stage = "release" /\ q.pc = "reload" => row.driver = NoDriver
  /\ q.stage = "revert" =>
       /\ row.driver = NoDriver
       /\ q.pc = "read" => row.status \in {"accepted", "trip_started"}
       /\ q.pc \in {"merge", "write"} => q.row.status = "candidates_computed" /\ q.row.fare # "due"
       /\ q.pc \in {"reload", "history"} => row.status = "candidates_computed"

CancelKnown(q, row, cand) ==
  /\ row.fare # "due"
  /\ row.status = "trip_started" => \A d \in Drivers : cand[d] \in Out \cup {"confirmed"}
  /\ q.stage = "cancel" /\ q.pc = "read" =>
       row.status \in {"candidates_computed", "accepted", "enroute", "trip_started"}
  /\ q.stage = "cancel" /\ q.pc \in {"merge", "write"} =>
       q.row.status = "canceled" /\ q.row.fare # "due"
  /\ q.stage = "cancel" /\ q.pc \in {"reload", "history"} => row.status = "canceled"
  /\ q.stage = "zeroFare" => row.status \in {"canceled", "trip_started"}
  /\ q.stage = "zeroFare" /\ q.pc \in {"merge", "write"} =>
       q.row.status = row.status /\ q.row.fare = "zero"
  /\ q.stage = "zeroFare" /\ q.pc \in {"reload", "list", "each"} => row.fare = "zero"
  /\ q.pc \in {"list", "each"} => q.stage = "zeroFare"
  /\ q.pc = "each" => \A d \in Drivers \ q.todo : cand[d] = "canceled"

CompleteKnown(q, row, cand) ==
  /\ q.stage = "complete" /\ q.pc = "read" => row.status \in {"accepted", "enroute", "trip_started"}
  /\ q.stage = "complete" /\ q.pc \in {"merge", "write"} => q.row.status = "completed"
  /\ q.stage = "complete" /\ q.pc \in {"reload", "history"} => row.status = "completed"
  /\ q.stage = "settle" => row.status = "completed"
  /\ q.stage = "settle" /\ q.pc \in {"merge", "write"} =>
       q.row.status = "completed" /\ q.row.fare = "due"
  /\ q.stage = "settle" /\ q.pc = "reload" => row.fare = "due"

HandshakeKnown(q, row, cand) ==
  q.pc # "idle" =>
    /\ q.op = "accept" => AcceptKnown(q, row, cand)
    /\ q.op = "start" => StartKnown(q, row, cand)
    /\ q.op = "confirm" => ConfirmKnown(q, row, cand)
    /\ q.op \in Rejections => RejectKnown(q, row, cand)
    /\ q.op = "cancel" => CancelKnown(q, row, cand)
    /\ q.op = "complete" => CompleteKnown(q, row, cand)

Quiet(handlers) == \A r \in Requests : handlers[r].pc # "idle" => handlers[r].op = "accept"

HandshakeInv ==
  /\ OwnershipInv
  /\ failures = 0 =>
       /\ Quiet(req) => /\ Agrees(ride, candidates)
                        /\ Half(ride) => \E r \in Requests : Working(req[r])
       /\ \A r \in Requests : HandshakeKnown(req[r], ride, candidates)

\* Where a handler goes on after a transition or an update, field by field.
LEMMA ContinueFields ==
  ASSUME NEW q \in Request, NEW row \in Ride
  PROVE  LET n == Continue(q, row) IN
         /\ q.stage \in {"assign", "release", "cancel", "complete", "zeroFare", "confirm"} =>
              n.op = q.op /\ n.driver = q.driver
         /\ q.stage = "assign" => n.stage = "accept" /\ n.pc = "read"
         /\ q.stage = "release" => n.stage = "revert" /\ n.pc = "read"
         /\ q.stage = "cancel" =>
              /\ n.stage = "zeroFare" /\ n.pc = "merge"
              /\ n.row.status = row.status /\ n.row.fare = "zero"
         /\ q.stage = "complete" =>
              /\ n.stage = "settle" /\ n.pc = "merge"
              /\ n.row.status = row.status /\ n.row.fare = "due"
         /\ q.stage \in {"zeroFare", "confirm"} => n.stage = q.stage /\ n.pc = "list"
         /\ q.stage \in {"accept", "revert", "start", "settle"} => n = Idle
<1> DEFINE n == Continue(q, row)
<1>1. q.stage \in Transitions \cup Updates
  BY DEF Request
<1>2. CASE q.stage = "cancel"
  <2>1. n = [q EXCEPT !.stage = "zeroFare", !.pc = "merge",
                      !.row = [row EXCEPT !.fare = "zero"]]
    BY <1>2 DEF Continue
  <2> QED
    BY <1>2, <2>1 DEF Request, Ride
<1>3. CASE q.stage = "complete"
  <2>1. n = [q EXCEPT !.stage = "settle", !.pc = "merge",
                      !.row = [row EXCEPT !.fare = "due"]]
    BY <1>3 DEF Continue
  <2> QED
    BY <1>3, <2>1 DEF Request, Ride
<1>4. CASE q.stage \in {"assign", "release", "zeroFare", "confirm"}
  BY <1>4 DEF Continue, Request
<1>5. CASE q.stage \in {"accept", "revert", "start", "settle"}
  BY <1>5 DEF Continue
<1> QED
  BY <1>1, <1>2, <1>3, <1>4, <1>5 DEF Transitions, Updates

\* The handler has the same operation, driver and stage as before.
Same(q, p) == q.op = p.op /\ q.driver = p.driver /\ q.stage = p.stage

\* The database accesses of transitionRideStatus and updateRide, field by
\* field: p before, q after.
AccessStep(p, q, old, new) ==
  \/ /\ p.pc = "read" /\ new = old /\ p.stage \in Transitions
     /\ old.status \in AllowedStatuses[p.stage] /\ old.status # NextStatus[p.stage]
     /\ Same(q, p) /\ q.pc = "merge"
     /\ q.row.status = NextStatus[p.stage] /\ q.row.fare = old.fare
  \/ /\ p.pc = "read" /\ new = old /\ p.stage \in Transitions
     /\ \/ old.status \notin AllowedStatuses[p.stage]
        \/ old.status = NextStatus[p.stage]
     /\ q = Continue(p, old)
  \/ /\ p.pc = "merge" /\ new = old /\ Same(q, p) /\ q.pc = "write"
     /\ q.row.status = p.row.status
     /\ q.row.fare = IF p.row.fare = "unset" THEN old.fare ELSE p.row.fare
  \/ /\ p.pc = "write" /\ new = p.row /\ Same(q, p) /\ q.pc = "reload"
  \/ /\ p.pc = "reload" /\ new = old /\ p.stage \in Transitions
     /\ Same(q, p) /\ q.pc = "history" /\ q.row = old
  \/ /\ p.pc = "reload" /\ new = old /\ p.stage \notin Transitions
     /\ q = Continue(p, old)
  \/ /\ p.pc = "history" /\ new = old /\ p.stage \in Transitions
     /\ q = Continue(p, p.row)

\* The five actions of transitionRideStatus and updateRide are such accesses.
LEMMA AccessSteps ==
  ASSUME TypeOK, NEW r \in Requests, Step(r), req[r].pc \in Accesses
  PROVE  \E q \in Request :
           /\ req' = [req EXCEPT ![r] = q]
           /\ candidates' = candidates /\ failures' = failures
           /\ AccessStep(req[r], q, ride, ride')
<1>t. /\ req[r] \in Request /\ req[r].row \in Ride /\ ride \in Ride
      /\ req \in [Requests -> Request]
  BY DEF TypeOK, Request
<1>0. \/ TransitionRideStatus(r) \/ UpdateRideMerge(r) \/ UpdateRideWrite(r)
      \/ UpdateRideReload(r) \/ RecordStatusChange(r)
  BY DEF Step, Accesses, AcceptCandidate, RejectCandidate, ConfirmCandidate,
         RiderRejectCandidate, MarkCandidateSuperseded, ClaimDriver, SaveCandidate,
         ListCandidates, SaveMany
<1>1. CASE TransitionRideStatus(r)
  <2>1. /\ req[r].pc = "read" /\ ride' = ride /\ req[r].stage \in Transitions
        /\ candidates' = candidates /\ failures' = failures
    BY <1>1 DEF TransitionRideStatus
  <2>2. CASE ride.status \in AllowedStatuses[req[r].stage] \ {NextStatus[req[r].stage]}
    <3>1. PICK row : row = [ride EXCEPT !.status = NextStatus[req[r].stage]]
      OBVIOUS
    <3>2. row \in Ride /\ row.status = NextStatus[req[r].stage] /\ row.fare = ride.fare
      BY <1>t, <2>1, <3>1, TransitionTables DEF Ride
    <3>3. PICK q : q = [req[r] EXCEPT !.row = row, !.from = ride.status, !.pc = "merge"]
      OBVIOUS
    <3>4. /\ q \in Request /\ q.op = req[r].op /\ q.driver = req[r].driver
          /\ q.stage = req[r].stage /\ q.row = row /\ q.pc = "merge"
      BY <1>t, <3>2, <3>3 DEF Request, PC, Ride
    <3>5. req' = [req EXCEPT ![r] = q]
      BY <1>t, <1>1, <2>2, <3>1, <3>3 DEF TransitionRideStatus
    <3> QED
      BY <2>1, <2>2, <3>2, <3>4, <3>5 DEF AccessStep, Same
  <2>3. CASE ride.status \notin AllowedStatuses[req[r].stage] \ {NextStatus[req[r].stage]}
    <3>1. req' = [req EXCEPT ![r] = Continue(req[r], ride)]
      BY <1>t, <1>1, <2>3 DEF TransitionRideStatus
    <3>2. Continue(req[r], ride) \in Request
      BY <1>t, ContinueType
    <3> QED
      BY <2>1, <2>3, <3>1, <3>2 DEF AccessStep
  <2> QED
    BY <2>2, <2>3
<1>2. CASE UpdateRideMerge(r)
  <2>1. /\ req[r].pc = "merge" /\ ride' = ride
        /\ candidates' = candidates /\ failures' = failures
    BY <1>2 DEF UpdateRideMerge
  <2>2. PICK row : row = MergeRideData(ride, req[r].row)
    OBVIOUS
  <2>3. /\ row \in Ride /\ row.status = req[r].row.status
        /\ row.fare = IF req[r].row.fare = "unset" THEN ride.fare ELSE req[r].row.fare
    BY <1>t, <2>2, MergeType DEF MergeRideData, Ride
  <2>4. PICK q : q = [req[r] EXCEPT !.row = row, !.pc = "write"]
    OBVIOUS
  <2>5. /\ q \in Request /\ q.op = req[r].op /\ q.driver = req[r].driver
        /\ q.stage = req[r].stage /\ q.row = row /\ q.pc = "write"
    BY <1>t, <2>3, <2>4 DEF Request, PC
  <2>6. req' = [req EXCEPT ![r] = q]
    BY <1>t, <1>2, <2>2, <2>4 DEF UpdateRideMerge
  <2> QED
    BY <2>1, <2>3, <2>5, <2>6 DEF AccessStep, Same
<1>3. CASE UpdateRideWrite(r)
  <2>1. /\ req[r].pc = "write" /\ ride' = req[r].row
        /\ candidates' = candidates /\ failures' = failures
    BY <1>3 DEF UpdateRideWrite
  <2>2. PICK q : q = [req[r] EXCEPT !.pc = "reload"]
    OBVIOUS
  <2>3. /\ q \in Request /\ q.op = req[r].op /\ q.driver = req[r].driver
        /\ q.stage = req[r].stage /\ q.pc = "reload"
    BY <1>t, <2>2 DEF Request, PC
  <2>4. req' = [req EXCEPT ![r] = q]
    BY <1>3, <2>2 DEF UpdateRideWrite, Goto
  <2> QED
    BY <2>1, <2>3, <2>4 DEF AccessStep, Same
<1>4. CASE UpdateRideReload(r)
  <2>1. /\ req[r].pc = "reload" /\ ride' = ride
        /\ candidates' = candidates /\ failures' = failures
    BY <1>4 DEF UpdateRideReload
  <2>2. CASE req[r].stage \in Transitions
    <3>1. PICK q : q = [req[r] EXCEPT !.row = ride, !.pc = "history"]
      OBVIOUS
    <3>2. /\ q \in Request /\ q.op = req[r].op /\ q.driver = req[r].driver
          /\ q.stage = req[r].stage /\ q.row = ride /\ q.pc = "history"
      BY <1>t, <3>1 DEF Request, PC
    <3>3. req' = [req EXCEPT ![r] = q]
      BY <1>t, <1>4, <2>2, <3>1 DEF UpdateRideReload
    <3> QED
      BY <2>1, <2>2, <3>2, <3>3 DEF AccessStep, Same
  <2>3. CASE req[r].stage \notin Transitions
    <3>1. req' = [req EXCEPT ![r] = Continue(req[r], ride)]
      BY <1>t, <1>4, <2>3 DEF UpdateRideReload
    <3>2. Continue(req[r], ride) \in Request
      BY <1>t, ContinueType
    <3> QED
      BY <2>1, <2>3, <3>1, <3>2 DEF AccessStep
  <2> QED
    BY <2>2, <2>3
<1>5. CASE RecordStatusChange(r)
  <2>1. /\ req[r].pc = "history" /\ ride' = ride /\ req[r].stage \in Transitions
        /\ candidates' = candidates /\ failures' = failures
    BY <1>5 DEF RecordStatusChange
  <2>2. req' = [req EXCEPT ![r] = Continue(req[r], req[r].row)]
    BY <1>t, <1>5 DEF RecordStatusChange
  <2>3. Continue(req[r], req[r].row) \in Request
    BY <1>t, ContinueType
  <2> QED
    BY <2>1, <2>2, <2>3 DEF AccessStep
<1> QED
  BY <1>0, <1>1, <1>2, <1>3, <1>4, <1>5

\* A handler that ended needs to know nothing.
LEMMA IdleHandshake ==
  ASSUME NEW row, NEW cand
  PROVE  HandshakeKnown(Idle, row, cand) /\ ~Working(Idle) /\ Idle.pc = "idle"
BY DEF Idle, HandshakeKnown, Working, Accesses

\* HandshakeInv holds initially.
LEMMA InitHandshakeInv == Init => HandshakeInv
<1> SUFFICES ASSUME Init PROVE HandshakeInv
  OBVIOUS
<1>1. OwnershipInv
  BY InitOwnershipInv
<1>2. Agrees(ride, candidates) /\ ~Half(ride)
  BY DEF Init, InitialRide, Agrees, Half
<1>3. \A r \in Requests : HandshakeKnown(req[r], ride, candidates)
  BY IdleHandshake DEF Init
<1> QED
  BY <1>1, <1>2, <1>3 DEF HandshakeInv

\* A step of an operation that has the ride to itself.
LEMMA SoloKept ==
  ASSUME HandshakeInv, OwnershipInv', NEW r \in Requests, NEW q \in Request,
         req[r].pc # "idle", req[r].op # "accept",
         req' = [req EXCEPT ![r] = q],
         \/ q = Idle /\ Agrees(ride', candidates') /\ ~Half(ride')
         \/ q.pc # "idle" /\ q.op # "accept" /\ HandshakeKnown(q, ride', candidates')
  PROVE  HandshakeInv'
<1>1. \A p \in Requests : req'[p] = IF p = r THEN q ELSE req[p]
  BY DEF HandshakeInv, OwnershipInv, StatusInv, TypeOK
<1>2. \A p \in Requests \ {r} : req[p].pc = "idle"
  BY DEF HandshakeInv, OwnershipInv, StatusInv, Exclusive
<1>3. \A p \in Requests \ {r} : HandshakeKnown(req'[p], ride', candidates')
  BY <1>1, <1>2 DEF HandshakeKnown
<1>4. HandshakeKnown(req'[r], ride', candidates')
  BY <1>1, IdleHandshake
<1>5. CASE q = Idle /\ Agrees(ride', candidates') /\ ~Half(ride')
  BY <1>3, <1>4, <1>5 DEF HandshakeInv
<1>6. CASE q.pc # "idle" /\ q.op # "accept"
  <2>1. ~Quiet(req')
    BY <1>1, <1>6 DEF Quiet
  <2> QED
    BY <1>3, <1>4, <2>1 DEF HandshakeInv
<1> QED
  BY <1>5, <1>6

\* What is known of a handler of an operation that has the ride to itself.
Solo(r) ==
  /\ HandshakeInv /\ OwnershipInv' /\ failures = 0
  /\ Step(r) /\ req[r].pc # "idle"

\* The facts that every case below starts from.
LEMMA SoloFacts ==
  ASSUME NEW r \in Requests, Solo(r)
  PROVE  /\ TypeOK /\ req[r] \in Request /\ req[r].row \in Ride /\ ride \in Ride
         /\ candidates \in [Drivers -> CandidateStatus]
         /\ req \in [Requests -> Request] /\ req[r].todo \subseteq Drivers
         /\ Shape(req[r]) /\ DriverKnown(req[r], ride, candidates)
         /\ StatusKnown(req[r], ride, candidates)
         /\ OwnershipKnown(req[r], ride, candidates)
         /\ HandshakeKnown(req[r], ride, candidates)
         /\ HolderHasRide
BY DEF Solo, HandshakeInv, OwnershipInv, DriverInv, StatusInv, TypeOK, Request

\* startRide keeps HandshakeInv.
LEMMA StartHandshake ==
  ASSUME NEW r \in Requests, Solo(r), req[r].op = "start"
  PROVE  HandshakeInv'
<1>t. /\ TypeOK /\ req[r] \in Request /\ req[r].row \in Ride /\ ride \in Ride
      /\ Shape(req[r]) /\ DriverKnown(req[r], ride, candidates)
      /\ StartKnown(req[r], ride, candidates)
  BY SoloFacts DEF HandshakeKnown, Solo
<1>1. req[r].stage = "start" /\ req[r].pc \in Accesses
  BY <1>t DEF Shape, Solo
<1>2. PICK q \in Request :
         /\ req' = [req EXCEPT ![r] = q]
         /\ candidates' = candidates /\ failures' = failures
         /\ AccessStep(req[r], q, ride, ride')
  BY <1>t, <1>1, AccessSteps DEF Solo
<1>3. \A row \in Ride : Continue(req[r], row) = Idle
  BY <1>t, <1>1, ContinueFields
<1>4. \/ q = Idle /\ Agrees(ride', candidates') /\ ~Half(ride')
      \/ q.pc # "idle" /\ q.op = "start" /\ StartKnown(q, ride', candidates')
  <2>1. CASE req[r].pc = "read"
    BY <1>t, <1>1, <1>2, <1>3, <2>1
    DEF AccessStep, Same, StartKnown, NextStatus, AllowedStatuses, Agrees, Half, Transitions
  <2>2. CASE req[r].pc = "merge"
    BY <1>t, <1>1, <1>2, <2>2 DEF AccessStep, Same, StartKnown, Agrees
  <2>3. CASE req[r].pc = "write"
    <3>1. /\ ride.status = "enroute" /\ ride'.status = "trip_started" /\ ride'.fare # "due"
          /\ \A d \in Drivers : candidates[d] \in Out \cup {"confirmed"}
      BY <1>t, <1>2, <2>3 DEF AccessStep, StartKnown, Agrees
    <3>2. Agrees(ride', candidates')
      BY <3>1, <1>2 DEF Agrees
    <3> QED
      BY <1>1, <1>2, <2>3, <3>1, <3>2 DEF AccessStep, Same, StartKnown
  <2>4. CASE req[r].pc \in {"reload", "history"}
    BY <1>t, <1>1, <1>2, <1>3, <2>4 DEF AccessStep, Same, StartKnown, Half, Transitions
  <2> QED
    BY <1>1, <2>1, <2>2, <2>3, <2>4 DEF Accesses
<1>5. q.pc # "idle" /\ q.op = "start" /\ StartKnown(q, ride', candidates') =>
        q.op # "accept" /\ HandshakeKnown(q, ride', candidates')
  BY DEF HandshakeKnown, Rejections
<1> QED
  BY <1>2, <1>4, <1>5, SoloKept DEF Solo

\* completeRide keeps HandshakeInv.
LEMMA CompleteHandshake ==
  ASSUME NEW r \in Requests, Solo(r), req[r].op = "complete"
  PROVE  HandshakeInv'
<1>t. /\ TypeOK /\ req[r] \in Request /\ req[r].row \in Ride /\ ride \in Ride
      /\ Shape(req[r]) /\ StatusKnown(req[r], ride, candidates)
      /\ CompleteKnown(req[r], ride, candidates)
  BY SoloFacts DEF HandshakeKnown, Solo
<1>1. req[r].stage \in {"complete", "settle"} /\ req[r].pc \in Accesses
  BY <1>t DEF Shape, Solo
<1>2. PICK q \in Request :
         /\ req' = [req EXCEPT ![r] = q]
         /\ candidates' = candidates /\ failures' = failures
         /\ AccessStep(req[r], q, ride, ride')
  BY <1>t, <1>1, AccessSteps DEF Solo
<1>3. \A row \in Ride :
        LET n == Continue(req[r], row) IN
        IF req[r].stage = "settle" THEN n = Idle
        ELSE /\ n.op = "complete" /\ n.stage = "settle" /\ n.pc = "merge"
             /\ n.row.status = row.status /\ n.row.fare = "due"
  BY <1>t, <1>1, ContinueFields
<1>4. \/ q = Idle /\ Agrees(ride', candidates') /\ ~Half(ride')
      \/ q.pc # "idle" /\ q.op = "complete" /\ CompleteKnown(q, ride', candidates')
  <2>1. CASE req[r].pc = "read"
    BY <1>t, <1>1, <1>2, <2>1
    DEF AccessStep, Same, CompleteKnown, NextStatus, AllowedStatuses, Transitions
  <2>2. CASE req[r].pc \in {"merge", "write"}
    BY <1>t, <1>1, <1>2, <2>2 DEF AccessStep, Same, CompleteKnown
  <2>3. CASE req[r].pc = "history"
    BY <1>t, <1>1, <1>2, <1>3, <2>3 DEF AccessStep, CompleteKnown, StatusKnown, Transitions
  <2>4. CASE req[r].pc = "reload" /\ req[r].stage = "complete"
    BY <1>t, <1>2, <2>4 DEF AccessStep, Same, CompleteKnown, Transitions
  <2>5. CASE req[r].pc = "reload" /\ req[r].stage = "settle"
    <3>1. ride' = ride /\ ride.status = "completed" /\ ride.fare = "due"
      BY <1>t, <1>2, <2>5 DEF AccessStep, CompleteKnown, Transitions
    <3>2. q = Idle
      BY <1>t, <1>2, <1>3, <2>5 DEF AccessStep, Transitions
    <3> QED
      BY <3>1, <3>2 DEF Agrees, Half
  <2> QED
    BY <1>1, <2>1, <2>2, <2>3, <2>4, <2>5 DEF Accesses
<1>5. q.pc # "idle" /\ q.op = "complete" /\ CompleteKnown(q, ride', candidates') =>
        q.op # "accept" /\ HandshakeKnown(q, ride', candidates')
  BY DEF HandshakeKnown, Rejections
<1> QED
  BY <1>2, <1>4, <1>5, SoloKept DEF Solo

\* findByRideId and saveMany, field by field.
LEMMA ListSteps ==
  ASSUME TypeOK, NEW r \in Requests, Step(r), req[r].pc \in {"list", "each"}
  PROVE  /\ ride' = ride /\ failures' = failures
         /\ \E q \in Request :
              /\ req' = [req EXCEPT ![r] = q]
              /\ \/ /\ req[r].pc = "list" /\ candidates' = candidates
                    /\ \/ q = Idle /\ ToUpdate(req[r]) = {}
                       \/ Same(q, req[r]) /\ q.pc = "each" /\ q.todo = ToUpdate(req[r])
                 \/ /\ req[r].pc = "each"
                    /\ \E d \in req[r].todo :
                         /\ candidates' = [candidates EXCEPT ![d] =
                              IF req[r].op = "confirm" /\ d = req[r].driver
                                THEN "confirmed" ELSE "canceled"]
                         /\ \/ q = Idle /\ req[r].todo = {d}
                            \/ Same(q, req[r]) /\ q.pc = "each" /\ q.todo = req[r].todo \ {d}
<1>t. /\ req[r] \in Request /\ req \in [Requests -> Request] /\ Idle \in Request
      /\ req[r].todo \subseteq Drivers
  BY IdleType DEF TypeOK, Request
<1>0. ListCandidates(r) \/ SaveMany(r)
  BY DEF Step, AcceptCandidate, RejectCandidate, ConfirmCandidate, RiderRejectCandidate,
         MarkCandidateSuperseded, ClaimDriver, SaveCandidate, TransitionRideStatus,
         UpdateRideMerge, UpdateRideWrite, UpdateRideReload, RecordStatusChange
<1>1. CASE ListCandidates(r)
  <2>1. /\ req[r].pc = "list" /\ ride' = ride /\ candidates' = candidates
        /\ failures' = failures
    BY <1>1 DEF ListCandidates
  <2>2. CASE ToUpdate(req[r]) = {}
    BY <1>1, <1>t, <2>1, <2>2 DEF ListCandidates, Finish
  <2>3. CASE ToUpdate(req[r]) # {}
    <3>1. PICK todo : todo = ToUpdate(req[r])
      OBVIOUS
    <3>2. todo \in SUBSET Drivers
      BY <3>1 DEF ToUpdate
    <3>3. PICK q : q = [req[r] EXCEPT !.todo = todo, !.pc = "each"]
      OBVIOUS
    <3>4. /\ q \in Request /\ q.op = req[r].op /\ q.driver = req[r].driver
          /\ q.stage = req[r].stage /\ q.pc = "each" /\ q.todo = todo
      BY <1>t, <3>2, <3>3 DEF Request, PC
    <3>5. req' = [req EXCEPT ![r] = q]
      BY <1>1, <1>t, <2>3, <3>1, <3>3 DEF ListCandidates
    <3> QED
      BY <2>1, <3>1, <3>4, <3>5 DEF Same
  <2> QED
    BY <2>2, <2>3
<1>2. CASE SaveMany(r)
  <2>1. req[r].pc = "each" /\ ride' = ride /\ failures' = failures
    BY <1>2 DEF SaveMany
  <2>2. PICK d \in req[r].todo :
          /\ candidates' = [candidates EXCEPT ![d] =
               IF req[r].op = "confirm" /\ d = req[r].driver THEN "confirmed" ELSE "canceled"]
          /\ IF req[r].todo = {d}
               THEN Finish(r)
               ELSE req' = [req EXCEPT ![r].todo = @ \ {d}]
    BY <1>2 DEF SaveMany
  <2>3. CASE req[r].todo = {d}
    BY <1>t, <2>1, <2>2, <2>3 DEF Finish
  <2>4. CASE req[r].todo # {d}
    <3>1. PICK todo : todo = req[r].todo \ {d}
      OBVIOUS
    <3>2. PICK q : q = [req[r] EXCEPT !.todo = todo]
      OBVIOUS
    <3>3. /\ q \in Request /\ q.op = req[r].op /\ q.driver = req[r].driver
          /\ q.stage = req[r].stage /\ q.pc = "each" /\ q.todo = todo
      BY <1>t, <2>1, <3>1, <3>2 DEF Request
    <3>4. req' = [req EXCEPT ![r] = q]
      BY <1>t, <2>2, <2>4, <3>1, <3>2
    <3> QED
      BY <2>1, <2>2, <3>1, <3>3, <3>4 DEF Same
  <2> QED
    BY <2>3, <2>4
<1> QED
  BY <1>0, <1>1, <1>2

\* cancelRide keeps HandshakeInv.
LEMMA CancelHandshake ==
  ASSUME NEW r \in Requests, Solo(r), req[r].op = "cancel"
  PROVE  HandshakeInv'
<1>t. /\ TypeOK /\ req[r] \in Request /\ req[r].row \in Ride /\ ride \in Ride
      /\ candidates \in [Drivers -> CandidateStatus] /\ req[r].todo \subseteq Drivers
      /\ Shape(req[r]) /\ StatusKnown(req[r], ride, candidates)
      /\ CancelKnown(req[r], ride, candidates)
  BY SoloFacts DEF HandshakeKnown, Solo
<1>1. req[r].stage \in {"cancel", "zeroFare"} /\ req[r].pc \in Accesses \cup {"list", "each"}
  BY <1>t DEF Shape, Solo
<1>k. ASSUME NEW q \in Request, req' = [req EXCEPT ![r] = q],
             \/ q = Idle /\ Agrees(ride', candidates') /\ ~Half(ride')
             \/ q.pc # "idle" /\ q.op = "cancel" /\ CancelKnown(q, ride', candidates')
      PROVE  HandshakeInv'
  <2>1. q.pc # "idle" /\ q.op = "cancel" /\ CancelKnown(q, ride', candidates') =>
          q.op # "accept" /\ HandshakeKnown(q, ride', candidates')
    BY DEF HandshakeKnown, Rejections
  <2> QED
    BY <1>k, <2>1, SoloKept DEF Solo
<1>2. CASE req[r].pc \in Accesses
  <2>1. PICK q \in Request :
          /\ req' = [req EXCEPT ![r] = q]
          /\ candidates' = candidates /\ failures' = failures
          /\ AccessStep(req[r], q, ride, ride')
    BY <1>t, <1>2, AccessSteps DEF Solo
  <2>2. \A row \in Ride :
          LET n == Continue(req[r], row) IN
          /\ n.op = "cancel" /\ n.stage = "zeroFare"
          /\ req[r].stage = "zeroFare" => n.pc = "list"
          /\ req[r].stage = "cancel" =>
               n.pc = "merge" /\ n.row.status = row.status /\ n.row.fare = "zero"
    BY <1>t, <1>1, ContinueFields
  <2>3. q.pc # "idle" /\ q.op = "cancel" /\ CancelKnown(q, ride', candidates')
    <3>1. CASE req[r].pc = "read"
      BY <1>t, <1>1, <2>1, <2>2, <3>1
      DEF AccessStep, Same, CancelKnown, NextStatus, AllowedStatuses, Transitions
    <3>2. CASE req[r].pc = "merge"
      BY <1>t, <1>1, <2>1, <3>2 DEF AccessStep, Same, CancelKnown
    <3>3. CASE req[r].pc = "write"
      BY <1>t, <1>1, <2>1, <3>3 DEF AccessStep, Same, CancelKnown
    <3>4. CASE req[r].pc = "history"
      BY <1>t, <1>1, <2>1, <2>2, <3>4 DEF AccessStep, CancelKnown, StatusKnown, Transitions
    <3>5. CASE req[r].pc = "reload" /\ req[r].stage = "cancel"
      BY <1>t, <2>1, <3>5 DEF AccessStep, Same, CancelKnown, Transitions
    <3>6. CASE req[r].pc = "reload" /\ req[r].stage = "zeroFare"
      BY <1>t, <2>1, <2>2, <3>6 DEF AccessStep, CancelKnown, Transitions
    <3> QED
      BY <1>1, <1>2, <3>1, <3>2, <3>3, <3>4, <3>5, <3>6 DEF Accesses
  <2> QED
    BY <1>k, <2>1, <2>3
<1>3. CASE req[r].pc \in {"list", "each"}
  <2>1. /\ ride' = ride /\ req[r].stage = "zeroFare" /\ ride.fare = "zero"
        /\ ride.status \in {"canceled", "trip_started"}
        /\ ride.status = "trip_started" =>
             \A d \in Drivers : candidates[d] \in Out \cup {"confirmed"}
    BY <1>t, <1>3, ListSteps DEF Solo, CancelKnown
  <2>2. ASSUME \A d \in Drivers : candidates'[d] = "canceled"
        PROVE  Agrees(ride', candidates') /\ ~Half(ride')
    BY <2>1, <2>2 DEF Agrees, Half, Out
  <2>3. CASE req[r].pc = "list"
    <3>1. PICK q \in Request :
            /\ req' = [req EXCEPT ![r] = q] /\ candidates' = candidates
            /\ \/ q = Idle /\ ToUpdate(req[r]) = {}
               \/ Same(q, req[r]) /\ q.pc = "each" /\ q.todo = ToUpdate(req[r])
      BY <1>t, <2>3, ListSteps DEF Solo
    <3>2. ToUpdate(req[r]) = {d \in Drivers : candidates[d] # "canceled"}
      BY DEF ToUpdate
    <3>3. CASE q = Idle
      <4>1. q.pc = "idle"
        BY <3>3 DEF Idle
      <4>2. ToUpdate(req[r]) = {}
        BY <3>1, <4>1
      <4> QED
        BY <1>k, <2>2, <3>1, <3>2, <3>3, <4>2
    <3>4. CASE q # Idle
      <4>1. \A d \in Drivers \ q.todo : candidates'[d] = "canceled"
        BY <3>1, <3>2, <3>4
      <4>2. CancelKnown(q, ride', candidates')
        BY <2>1, <3>1, <3>4, <4>1 DEF CancelKnown, Same
      <4> QED
        BY <1>k, <3>1, <3>4, <4>2 DEF Same
    <3> QED
      BY <3>3, <3>4
  <2>4. CASE req[r].pc = "each"
    <3>1. PICK q \in Request :
            /\ req' = [req EXCEPT ![r] = q]
            /\ \E d \in req[r].todo :
                 /\ candidates' = [candidates EXCEPT ![d] = "canceled"]
                 /\ \/ q = Idle /\ req[r].todo = {d}
                    \/ Same(q, req[r]) /\ q.pc = "each" /\ q.todo = req[r].todo \ {d}
      BY <1>t, <2>4, ListSteps DEF Solo
    <3>2. PICK d \in req[r].todo :
                 /\ candidates' = [candidates EXCEPT ![d] = "canceled"]
                 /\ \/ q = Idle /\ req[r].todo = {d}
                    \/ Same(q, req[r]) /\ q.pc = "each" /\ q.todo = req[r].todo \ {d}
      BY <3>1
    <3>3. \A c \in Drivers \ (req[r].todo \ {d}) : candidates'[c] = "canceled"
      BY <1>t, <2>4, <3>2 DEF CancelKnown
    <3>4. \A c \in Drivers : candidates'[c] = candidates[c] \/ candidates'[c] = "canceled"
      BY <1>t, <3>2
    <3>5. CASE q = Idle
      <4>1. q.pc = "idle"
        BY <3>5 DEF Idle
      <4>2. req[r].todo = {d}
        BY <3>2, <4>1
      <4>3. \A c \in Drivers : candidates'[c] = "canceled"
        BY <3>3, <4>2
      <4> QED
        BY <1>k, <2>2, <3>1, <3>5, <4>3
    <3>6. CASE q # Idle
      <4>1. Same(q, req[r]) /\ q.pc = "each" /\ q.todo = req[r].todo \ {d}
        BY <3>2, <3>6
      <4>2. CancelKnown(q, ride', candidates')
        BY <2>1, <3>3, <3>4, <4>1 DEF CancelKnown, Same, Out
      <4> QED
        BY <1>k, <3>1, <4>1, <4>2 DEF Same
    <3> QED
      BY <3>5, <3>6
  <2> QED
    BY <1>3, <2>3, <2>4
<1> QED
  BY <1>1, <1>2, <1>3

\* confirmDriverAcceptance keeps HandshakeInv.
LEMMA ConfirmHandshake ==
  ASSUME NEW r \in Requests, Solo(r), req[r].op = "confirm"
  PROVE  HandshakeInv'
<1>t. /\ TypeOK /\ req[r] \in Request /\ req[r].row \in Ride /\ ride \in Ride
      /\ candidates \in [Drivers -> CandidateStatus] /\ req[r].todo \subseteq Drivers
      /\ req \in [Requests -> Request]
      /\ Shape(req[r]) /\ DriverKnown(req[r], ride, candidates)
      /\ ConfirmKnown(req[r], ride, candidates) /\ HolderHasRide
  BY SoloFacts DEF HandshakeKnown, Solo
<1>1. /\ req[r].stage = "confirm"
      /\ req[r].pc \in Accesses \cup {"candidate", "list", "each"}
      /\ req[r].driver \in Drivers /\ ride.driver = req[r].driver
  BY <1>t DEF Shape, Solo, DriverKnown
<1>k. ASSUME NEW q \in Request, req' = [req EXCEPT ![r] = q],
             \/ q = Idle /\ Agrees(ride', candidates') /\ ~Half(ride')
             \/ q.pc # "idle" /\ q.op = "confirm" /\ ConfirmKnown(q, ride', candidates')
      PROVE  HandshakeInv'
  <2>1. q.pc # "idle" /\ q.op = "confirm" /\ ConfirmKnown(q, ride', candidates') =>
          q.op # "accept" /\ HandshakeKnown(q, ride', candidates')
    BY DEF HandshakeKnown, Rejections
  <2> QED
    BY <1>k, <2>1, SoloKept DEF Solo
<1>2. CASE req[r].pc = "candidate"
  <2>1. ConfirmCandidate(r)
    BY <1>2 DEF Solo, Step, AcceptCandidate, RejectCandidate, RiderRejectCandidate,
         MarkCandidateSuperseded, ClaimDriver, SaveCandidate, TransitionRideStatus,
         UpdateRideMerge, UpdateRideWrite, UpdateRideReload, RecordStatusChange,
         ListCandidates, SaveMany
  <2>2. /\ ride' = ride /\ candidates' = candidates
        /\ \/ Finish(r)
           \/ Goto(r, "read") /\ candidates[req[r].driver] = "accepted"
    BY <2>1 DEF ConfirmCandidate
  <2>3. Agrees(ride, candidates) /\ ~Half(ride) /\ ride.status \in {"accepted", "trip_started"}
    BY <1>t, <1>2 DEF ConfirmKnown, Half
  <2>4. CASE Finish(r)
    BY <1>k, <2>2, <2>3, <2>4, IdleType DEF Finish
  <2>5. CASE Goto(r, "read") /\ candidates[req[r].driver] = "accepted"
    <3>1. PICK q : q = [req[r] EXCEPT !.pc = "read"]
      OBVIOUS
    <3>2. /\ q \in Request /\ q.op = req[r].op /\ q.driver = req[r].driver /\ q.pc = "read"
          /\ req' = [req EXCEPT ![r] = q]
      BY <1>t, <2>5, <3>1 DEF Request, PC, Goto
    <3>3. ride.status = "accepted"
      BY <1>1, <2>3, <2>5 DEF Agrees, Out
    <3>4. ConfirmKnown(q, ride', candidates')
      BY <1>t, <2>2, <2>5, <3>2, <3>3 DEF ConfirmKnown
    <3> QED
      BY <1>k, <3>2, <3>4
  <2> QED
    BY <2>2, <2>4, <2>5
<1>3. CASE req[r].pc \in Accesses
  <2>1. PICK q \in Request :
          /\ req' = [req EXCEPT ![r] = q]
          /\ candidates' = candidates /\ failures' = failures
          /\ AccessStep(req[r], q, ride, ride')
    BY <1>t, <1>3, AccessSteps DEF Solo
  <2>2. \A row \in Ride :
          LET n == Continue(req[r], row) IN
          n.op = "confirm" /\ n.driver = req[r].driver /\ n.pc = "list"
    BY <1>t, <1>1, ContinueFields
  <2>3. q.pc # "idle" /\ q.op = "confirm" /\ ConfirmKnown(q, ride', candidates')
    <3>1. CASE req[r].pc = "read"
      BY <1>t, <1>1, <2>1, <3>1
      DEF AccessStep, Same, ConfirmKnown, NextStatus, AllowedStatuses, Transitions, Accesses
    <3>2. CASE req[r].pc = "merge"
      BY <1>t, <1>1, <2>1, <3>2 DEF AccessStep, Same, ConfirmKnown, Accesses
    <3>3. CASE req[r].pc = "write"
      BY <1>t, <1>1, <2>1, <3>3 DEF AccessStep, Same, ConfirmKnown, Accesses
    <3>4. CASE req[r].pc = "reload"
      BY <1>t, <1>1, <2>1, <3>4 DEF AccessStep, Same, ConfirmKnown, Accesses, Transitions
    <3>5. CASE req[r].pc = "history"
      BY <1>t, <1>1, <2>1, <2>2, <3>5 DEF AccessStep, ConfirmKnown, Accesses, Transitions
    <3> QED
      BY <1>3, <3>1, <3>2, <3>3, <3>4, <3>5 DEF Accesses
  <2> QED
    BY <1>k, <2>1, <2>3
<1>4. CASE req[r].pc \in {"list", "each"}
  <2>1. ride' = ride /\ ride.status = "enroute" /\ ride.fare # "due"
    BY <1>t, <1>4, ListSteps DEF Solo, ConfirmKnown
  <2>2. \A d \in Drivers \ {req[r].driver} : candidates[d] \notin {"accepted", "confirmed"}
    BY <1>t, <1>1 DEF HolderHasRide
  <2>3. CASE req[r].pc = "list"
    <3>1. PICK q \in Request :
            /\ req' = [req EXCEPT ![r] = q] /\ candidates' = candidates
            /\ \/ q = Idle /\ ToUpdate(req[r]) = {}
               \/ Same(q, req[r]) /\ q.pc = "each" /\ q.todo = ToUpdate(req[r])
      BY <1>t, <2>3, ListSteps DEF Solo
    <3>2. ToUpdate(req[r]) = {d \in Drivers : d = req[r].driver
                                \/ candidates[d] \in {"invited", "accepted"}}
      BY DEF ToUpdate
    <3>3. Same(q, req[r]) /\ q.pc = "each" /\ q.todo = ToUpdate(req[r])
      BY <1>1, <3>1, <3>2
    <3>4. \A d \in Drivers \ q.todo : d # q.driver /\ candidates'[d] \in Out
      BY <1>t, <2>2, <3>1, <3>2, <3>3 DEF CandidateStatus, Out, Same
    <3>5. ConfirmKnown(q, ride', candidates')
      BY <2>1, <3>3, <3>4 DEF ConfirmKnown, Accesses
    <3> QED
      BY <1>k, <3>1, <3>3, <3>5 DEF Same
  <2>4. CASE req[r].pc = "each"
    <3>1. PICK q \in Request :
            /\ req' = [req EXCEPT ![r] = q]
            /\ \E d \in req[r].todo :
                 /\ candidates' = [candidates EXCEPT ![d] =
                      IF d = req[r].driver THEN "confirmed" ELSE "canceled"]
                 /\ \/ q = Idle /\ req[r].todo = {d}
                    \/ Same(q, req[r]) /\ q.pc = "each" /\ q.todo = req[r].todo \ {d}
      BY <1>t, <2>4, ListSteps DEF Solo
    <3>2. PICK d \in req[r].todo :
                 /\ candidates' = [candidates EXCEPT ![d] =
                      IF d = req[r].driver THEN "confirmed" ELSE "canceled"]
                 /\ \/ q = Idle /\ req[r].todo = {d}
                    \/ Same(q, req[r]) /\ q.pc = "each" /\ q.todo = req[r].todo \ {d}
      BY <3>1
    <3>3. \A c \in Drivers \ (req[r].todo \ {d}) :
            IF c = req[r].driver THEN candidates'[c] = "confirmed" ELSE candidates'[c] \in Out
      <4>1. candidates'[d] = IF d = req[r].driver THEN "confirmed" ELSE "canceled"
        BY <1>t, <3>2
      <4>2. \A c \in Drivers \ req[r].todo :
              IF c = req[r].driver THEN candidates[c] = "confirmed" ELSE candidates[c] \in Out
        BY <1>t, <2>4 DEF ConfirmKnown
      <4>3. \A c \in Drivers \ {d} : candidates'[c] = candidates[c]
        BY <1>t, <3>2
      <4> QED
        BY <4>1, <4>2, <4>3 DEF Out
    <3>5. CASE q = Idle
      <4>1. q.pc = "idle"
        BY <3>5 DEF Idle
      <4>2. req[r].todo = {d}
        BY <3>2, <4>1
      <4>3. /\ candidates'[ride'.driver] = "confirmed"
            /\ \A c \in Drivers \ {ride'.driver} : candidates'[c] \in Out
        BY <1>1, <2>1, <3>3, <4>2
      <4>4. ride'.driver # NoDriver
        BY <1>1, <2>1, ConstantsAssumption
      <4>5. Agrees(ride', candidates') /\ ~Half(ride')
        BY <2>1, <4>3, <4>4 DEF Agrees, Half
      <4> QED
        BY <1>k, <3>1, <3>5, <4>5
    <3>6. CASE q # Idle
      <4>1. Same(q, req[r]) /\ q.pc = "each" /\ q.todo = req[r].todo \ {d}
        BY <3>2, <3>6
      <4>2. ConfirmKnown(q, ride', candidates')
        BY <2>1, <3>3, <4>1 DEF ConfirmKnown, Same, Accesses
      <4> QED
        BY <1>k, <3>1, <4>1, <4>2 DEF Same
    <3> QED
      BY <3>5, <3>6
  <2> QED
    BY <1>4, <2>3, <2>4
<1> QED
  BY <1>1, <1>2, <1>3, <1>4

\* rejectRideByDriver and rejectDriverAcceptance keep HandshakeInv.
LEMMA RejectHandshake ==
  ASSUME NEW r \in Requests, Solo(r), req[r].op \in Rejections
  PROVE  HandshakeInv'
<1>t. /\ TypeOK /\ req[r] \in Request /\ req[r].row \in Ride /\ ride \in Ride
      /\ candidates \in [Drivers -> CandidateStatus]
      /\ req \in [Requests -> Request]
      /\ Shape(req[r]) /\ DriverKnown(req[r], ride, candidates)
      /\ StatusKnown(req[r], ride, candidates)
      /\ OwnershipKnown(req[r], ride, candidates)
      /\ RejectKnown(req[r], ride, candidates) /\ HolderHasRide
  BY SoloFacts DEF HandshakeKnown, Solo
<1>1. /\ \/ req[r].stage = "release" /\ req[r].pc \in {"candidate", "save"}
         \/ req[r].stage \in {"release", "revert"} /\ req[r].pc \in Accesses
      /\ ride.status \notin Terminal
  BY <1>t DEF Shape, Solo, OwnershipKnown, Rejections
<1>k. ASSUME NEW q \in Request, req' = [req EXCEPT ![r] = q],
             \/ q = Idle /\ Agrees(ride', candidates') /\ ~Half(ride')
             \/ q.pc # "idle" /\ q.op = req[r].op /\ RejectKnown(q, ride', candidates')
      PROVE  HandshakeInv'
  <2>1. q.pc # "idle" /\ q.op = req[r].op /\ RejectKnown(q, ride', candidates') =>
          q.op # "accept" /\ HandshakeKnown(q, ride', candidates')
    BY DEF HandshakeKnown, Rejections
  <2>2. req[r].op # "accept"
    BY DEF Rejections
  <2> QED
    BY <1>k, <2>1, <2>2, SoloKept DEF Solo
\* Before the answer is saved the ride agrees with its candidates.
<1>r. ASSUME req[r].pc \in {"candidate", "save"}
      PROVE  /\ Agrees(ride, candidates) /\ ~Half(ride) /\ ride.fare # "due"
             /\ ride.status \in {"candidates_computed", "accepted", "trip_started"}
             /\ ride.status = "candidates_computed" => ride.driver = NoDriver
             /\ req[r].row.status = ride.status /\ req[r].row.fare # "due"
             /\ req[r].driver \in Drivers /\ req[r].stage = "release"
             /\ req[r].row.driver = ride.driver
             /\ req[r].op = "riderReject" => req[r].driver = ride.driver
  <2>1. ride.status \notin {"requested", "assigned", "enroute"} \cup Terminal
    BY <1>t, <1>1, <1>r DEF RejectKnown, Agrees
  <2>2. ride.status \in {"candidates_computed", "accepted", "trip_started"}
    BY <1>t, <2>1 DEF Ride, RideStatus, Terminal
  <2> QED
    BY <1>t, <1>1, <1>r, <2>2
    DEF RejectKnown, Half, StatusKnown, DriverKnown, TypeOK, Rejections, Accesses
<1>2. CASE req[r].pc = "candidate"
  <2>1. RejectCandidate(r) \/ RiderRejectCandidate(r)
    BY <1>2 DEF Solo, Step, AcceptCandidate, ConfirmCandidate, Rejections,
         MarkCandidateSuperseded, ClaimDriver, SaveCandidate, TransitionRideStatus,
         UpdateRideMerge, UpdateRideWrite, UpdateRideReload, RecordStatusChange,
         ListCandidates, SaveMany
  <2>2. ride' = ride /\ candidates' = candidates /\ (Finish(r) \/ Goto(r, "save"))
    BY <2>1 DEF RejectCandidate, RiderRejectCandidate
  <2>4. CASE Finish(r)
    BY <1>k, <1>r, <1>2, <2>2, <2>4, IdleType DEF Finish
  <2>5. CASE Goto(r, "save")
    <3>1. PICK q : q = [req[r] EXCEPT !.pc = "save"]
      OBVIOUS
    <3>2. /\ q \in Request /\ q.op = req[r].op /\ q.driver = req[r].driver /\ q.pc = "save"
          /\ q.row = req[r].row /\ q.stage = req[r].stage
          /\ req' = [req EXCEPT ![r] = q]
      BY <1>t, <2>5, <3>1 DEF Request, PC, Goto
    <3>3. RejectKnown(q, ride', candidates')
      BY <1>t, <1>r, <1>2, <2>2, <3>2 DEF RejectKnown, Accesses
    <3> QED
      BY <1>k, <3>2, <3>3
  <2> QED
    BY <2>2, <2>4, <2>5
<1>3. CASE req[r].pc = "save"
  <2>1. SaveCandidate(r)
    BY <1>3 DEF Solo, Step, AcceptCandidate, ConfirmCandidate, RejectCandidate,
         RiderRejectCandidate, MarkCandidateSuperseded, ClaimDriver, TransitionRideStatus,
         UpdateRideMerge, UpdateRideWrite, UpdateRideReload, RecordStatusChange,
         ListCandidates, SaveMany
  <2>2. PICK x \in Out : candidates' = [candidates EXCEPT ![req[r].driver] = x]
    <3>1. AnswerOf[req[r].op] \in Out
      BY DEF AnswerOf, Rejections, Out
    <3>2. candidates' = [candidates EXCEPT ![req[r].driver] = AnswerOf[req[r].op]]
      BY <2>1 DEF SaveCandidate
    <3> QED
      BY <3>1, <3>2
  <2>3. /\ ride' = ride
        /\ \/ req' = [req EXCEPT ![r].row.driver = NoDriver, ![r].pc = "merge"]
              /\ req[r].driver = ride.driver
           \/ Finish(r) /\ req[r].driver # ride.driver
    BY <1>r, <1>3, <2>1 DEF SaveCandidate, Rejections
  <2>4. /\ \A d \in Drivers : candidates'[d] = IF d = req[r].driver THEN x ELSE candidates[d]
        /\ ride.status = "trip_started" =>
             \A d \in Drivers : candidates'[d] \in Out \cup {"confirmed"}
    BY <1>t, <1>r, <1>3, <2>2 DEF Agrees
  <2>5. CASE Finish(r) /\ req[r].driver # ride.driver
    <3>1. ride.driver # NoDriver => ride.driver \in Drivers
      BY <1>t DEF Ride
    <3>2. Agrees(ride', candidates') /\ ~Half(ride')
      BY <1>r, <1>3, <2>3, <2>4, <2>5, <3>1 DEF Agrees, Half
    <3> QED
      BY <1>k, <2>5, <3>2, IdleType DEF Finish
  <2>6. CASE /\ req' = [req EXCEPT ![r].row.driver = NoDriver, ![r].pc = "merge"]
             /\ req[r].driver = ride.driver
    <3>1. PICK row : row = [req[r].row EXCEPT !.driver = NoDriver]
      OBVIOUS
    <3>2. row \in Ride /\ row.status = ride.status /\ row.fare # "due"
      BY <1>t, <1>r, <1>3, <3>1 DEF Ride
    <3>3. PICK q : q = [req[r] EXCEPT !.row = row, !.pc = "merge"]
      OBVIOUS
    <3>4. /\ q \in Request /\ q.op = req[r].op /\ q.stage = req[r].stage
          /\ q.row = row /\ q.pc = "merge"
      BY <1>t, <3>2, <3>3 DEF Request, PC
    <3>5. req' = [req EXCEPT ![r] = q]
      BY <1>t, <2>6, <3>1, <3>3 DEF Request, Ride
    <3>6. ride.status \in {"accepted", "trip_started"}
      BY <1>r, <1>3, <2>6, ConstantsAssumption
    <3>7. RejectKnown(q, ride', candidates')
      BY <1>r, <1>3, <2>3, <2>4, <3>2, <3>4, <3>6 DEF RejectKnown, Accesses
    <3> QED
      BY <1>k, <3>4, <3>5, <3>7
  <2> QED
    BY <2>3, <2>5, <2>6
<1>4. CASE req[r].pc \in Accesses
  <2>1. PICK q \in Request :
          /\ req' = [req EXCEPT ![r] = q]
          /\ candidates' = candidates /\ failures' = failures
          /\ AccessStep(req[r], q, ride, ride')
    BY <1>t, <1>4, AccessSteps DEF Solo
  <2>2. \A row \in Ride :
          LET n == Continue(req[r], row) IN
          /\ req[r].stage = "release" =>
               n.op = req[r].op /\ n.stage = "revert" /\ n.pc = "read"
          /\ req[r].stage = "revert" => n = Idle
    BY <1>t, ContinueFields
  <2>3. req[r].stage \in {"release", "revert"}
    BY <1>1
  <2>4. \/ q = Idle /\ Agrees(ride', candidates') /\ ~Half(ride')
        \/ q.pc # "idle" /\ q.op = req[r].op /\ RejectKnown(q, ride', candidates')
    <3>1. CASE req[r].stage = "release"
      <4>1. CASE req[r].pc = "merge"
        BY <1>t, <2>1, <3>1, <4>1 DEF AccessStep, Same, RejectKnown, Accesses
      <4>2. CASE req[r].pc = "write"
        <5>1. ride' = req[r].row /\ q.pc = "reload" /\ Same(q, req[r])
          BY <2>1, <4>2 DEF AccessStep
        <5>2. /\ req[r].row.driver = NoDriver /\ req[r].row.status = ride.status
              /\ req[r].row.fare # "due" /\ ride.status \in {"accepted", "trip_started"}
          BY <1>t, <3>1, <4>2 DEF DriverKnown, RejectKnown, Accesses
        <5>3. ride.status = "trip_started" =>
                \A d \in Drivers : candidates[d] \in Out \cup {"confirmed"}
          BY <1>t DEF RejectKnown
        <5> QED
          BY <2>1, <3>1, <5>1, <5>2, <5>3 DEF Same, RejectKnown, Accesses
      <4>3. CASE req[r].pc = "reload"
        BY <1>t, <2>1, <2>2, <3>1, <4>3 DEF AccessStep, RejectKnown, Accesses, Transitions
      <4>4. req[r].pc \notin {"read", "history"}
        BY <2>1, <3>1 DEF AccessStep, Transitions
      <4> QED
        BY <1>4, <4>1, <4>2, <4>3, <4>4 DEF Accesses
    <3>2. CASE req[r].stage = "revert"
      <4>1. CASE req[r].pc = "read"
        <5>1. CASE q = Idle
          <6>1. ride.status = "trip_started" /\ ride' = ride
            BY <1>t, <2>1, <3>2, <4>1, <5>1
            DEF AccessStep, RejectKnown, AllowedStatuses, NextStatus, Idle
          <6> QED
            BY <1>t, <2>1, <5>1, <6>1 DEF RejectKnown, Agrees, Half
        <5>2. CASE q # Idle
          <6>1. /\ ride' = ride /\ Same(q, req[r]) /\ q.pc = "merge"
                /\ q.row.status = "candidates_computed" /\ q.row.fare = ride.fare
            BY <1>t, <2>1, <2>2, <3>2, <4>1, <5>2 DEF AccessStep, NextStatus
          <6> QED
            BY <1>t, <2>1, <3>2, <6>1 DEF Same, RejectKnown, Accesses
        <5> QED
          BY <5>1, <5>2
      <4>2. CASE req[r].pc = "merge"
        BY <1>t, <2>1, <3>2, <4>2 DEF AccessStep, Same, RejectKnown
      <4>3. CASE req[r].pc = "write"
        <5>1. ride' = req[r].row /\ q.pc = "reload" /\ Same(q, req[r])
          BY <2>1, <4>3 DEF AccessStep
        <5>2. /\ req[r].row.driver = NoDriver /\ req[r].row.status = "candidates_computed"
              /\ req[r].row.fare # "due"
          BY <1>t, <3>2, <4>3 DEF DriverKnown, RejectKnown
        <5> QED
          BY <3>2, <5>1, <5>2 DEF Same, RejectKnown, Accesses
      <4>4. CASE req[r].pc = "reload"
        BY <1>t, <2>1, <3>2, <4>4 DEF AccessStep, Same, RejectKnown, Transitions
      <4>5. CASE req[r].pc = "history"
        <5>1. q = Idle /\ ride' = ride
          BY <1>t, <2>1, <2>2, <3>2, <4>5 DEF AccessStep
        <5>2. ride.status = "candidates_computed" /\ ride.driver = NoDriver /\ ride.fare # "due"
          BY <1>t, <3>2, <4>5 DEF RejectKnown
        <5> QED
          BY <5>1, <5>2 DEF Agrees, Half
      <4> QED
        BY <1>4, <4>1, <4>2, <4>3, <4>4, <4>5 DEF Accesses
    <3> QED
      BY <2>3, <3>1, <3>2
  <2> QED
    BY <1>k, <2>1, <2>4
<1> QED
  BY <1>1, <1>2, <1>3, <1>4

\* A step of an accept, among accepts: the other accepts know no less when the
\* ride stays on its way to accepted and the answer of its driver stands.
LEMMA AcceptKept ==
  ASSUME HandshakeInv, OwnershipInv', failures = 0,
         NEW r \in Requests, NEW q \in Request,
         req[r].pc # "idle", req[r].op = "accept",
         req' = [req EXCEPT ![r] = q],
         \/ q = Idle
         \/ q.op = "accept" /\ AcceptKnown(q, ride', candidates'),
         Agrees(ride', candidates'),
         \/ ride'.status = ride.status
         \/ ride'.status \in {"assigned", "accepted"},
         \A d \in Drivers : d = ride.driver /\ candidates[d] = "accepted" =>
                              candidates'[d] = "accepted",
         Half(ride') => Working(q) \/ (Half(ride) /\ ~Working(req[r]))
  PROVE  HandshakeInv'
<1>1. \A p \in Requests : req'[p] = IF p = r THEN q ELSE req[p]
  BY DEF HandshakeInv, OwnershipInv, StatusInv, TypeOK
<1>2. \A p \in Requests : req[p].pc # "idle" => req[p].op = "accept"
  BY DEF HandshakeInv, OwnershipInv, StatusInv, Exclusive
<1>3. Half(ride') => \E p \in Requests : Working(req'[p])
  <2>1. CASE Working(q)
    BY <1>1, <2>1
  <2>2. CASE Half(ride) /\ ~Working(req[r])
    <3>1. PICK p \in Requests : Working(req[p])
      BY <1>2, <2>2 DEF HandshakeInv, Quiet
    <3> QED
      BY <1>1, <2>2, <3>1
  <2> QED
    BY <2>1, <2>2
<1>4. ASSUME NEW p \in Requests PROVE HandshakeKnown(req'[p], ride', candidates')
  <2>1. CASE p = r
    <3>1. CASE q = Idle
      BY <1>1, <2>1, <3>1, IdleHandshake
    <3>2. CASE q.op = "accept" /\ AcceptKnown(q, ride', candidates')
      BY <1>1, <2>1, <3>2 DEF HandshakeKnown, Rejections
    <3> QED
      BY <3>1, <3>2
  <2>2. CASE p # r /\ req[p].pc # "idle"
    <3>1. req'[p] = req[p] /\ req[p].op = "accept"
      BY <1>1, <1>2, <2>2
    <3>2. /\ AcceptKnown(req[p], ride, candidates)
          /\ DriverKnown(req[p], ride, candidates)
      BY <2>2, <3>1 DEF HandshakeInv, OwnershipInv, DriverInv, HandshakeKnown
    <3>3. AcceptKnown(req[p], ride', candidates')
      BY <3>1, <3>2 DEF AcceptKnown, DriverKnown
    <3> QED
      BY <3>1, <3>3 DEF HandshakeKnown, Rejections
  <2>3. CASE p # r /\ req[p].pc = "idle"
    BY <1>1, <2>3 DEF HandshakeKnown
  <2> QED
    BY <2>1, <2>2, <2>3
<1> QED
  BY <1>3, <1>4 DEF HandshakeInv

\* acceptRideByDriver keeps HandshakeInv.
LEMMA AcceptHandshake ==
  ASSUME NEW r \in Requests, Solo(r), req[r].op = "accept"
  PROVE  HandshakeInv'
<1>t. /\ TypeOK /\ req[r] \in Request /\ req[r].row \in Ride /\ ride \in Ride
      /\ candidates \in [Drivers -> CandidateStatus]
      /\ req \in [Requests -> Request]
      /\ Shape(req[r]) /\ DriverKnown(req[r], ride, candidates)
      /\ StatusKnown(req[r], ride, candidates)
      /\ OwnershipKnown(req[r], ride, candidates)
      /\ AcceptKnown(req[r], ride, candidates) /\ HolderHasRide
  BY SoloFacts DEF HandshakeKnown, Solo
<1>a. Agrees(ride, candidates)
  <2>1. Quiet(req)
    BY DEF Solo, HandshakeInv, OwnershipInv, StatusInv, Exclusive, Quiet
  <2> QED
    BY <2>1 DEF Solo, HandshakeInv
<1>1. /\ \/ req[r].stage = "assign" /\ req[r].pc \in {"candidate", "supersede", "claim", "save"}
         \/ req[r].stage \in {"assign", "accept"} /\ req[r].pc \in Accesses
      /\ ride.status \notin Terminal
      /\ req[r].pc \in {"candidate", "supersede", "claim", "save"} => req[r].driver \in Drivers
  BY <1>t DEF Shape, Solo, StatusKnown, TypeOK
\* The accept ends before it has a part in the acceptance.
<1>f. ASSUME Finish(r), ride' = ride, candidates' = candidates,
             req[r].pc \in {"candidate", "claim"}
      PROVE  HandshakeInv'
  <2>1. ~Working(req[r])
    BY <1>1, <1>f DEF Working, Accesses
  <2> QED
    BY <1>a, <1>f, <2>1, IdleType, AcceptKept DEF Solo, Finish
\* The accept goes on.
<1>g. ASSUME NEW pc \in PC, Goto(r, pc)
      PROVE  \E q \in Request :
               /\ req' = [req EXCEPT ![r] = q]
               /\ Same(q, req[r]) /\ q.pc = pc /\ q.row = req[r].row
  <2>1. PICK q : q = [req[r] EXCEPT !.pc = pc]
    OBVIOUS
  <2>2. /\ q \in Request /\ q.op = req[r].op /\ q.driver = req[r].driver /\ q.pc = pc
        /\ q.row = req[r].row /\ q.stage = req[r].stage
        /\ req' = [req EXCEPT ![r] = q]
    BY <1>t, <1>g, <2>1 DEF Request, Goto
  <2> QED
    BY <2>2 DEF Same
<1>2. CASE req[r].pc = "candidate"
  <2>1. AcceptCandidate(r)
    BY <1>2 DEF Solo, Step, ConfirmCandidate, RejectCandidate, SaveCandidate,
         RiderRejectCandidate, MarkCandidateSuperseded, ClaimDriver, TransitionRideStatus,
         UpdateRideMerge, UpdateRideWrite, UpdateRideReload, RecordStatusChange,
         ListCandidates, SaveMany
  <2>2. /\ ride' = ride /\ candidates' = candidates
        /\ \/ Finish(r)
           \/ /\ candidates[req[r].driver] \in {"invited", "accepted"}
              /\ \E pc \in {"claim", "save", "supersede"} : Goto(r, pc)
    BY <2>1 DEF AcceptCandidate
  <2>3. CASE Finish(r)
    BY <1>f, <1>2, <2>2, <2>3
  <2>4. CASE ~Finish(r)
    <3>1. PICK pc \in {"claim", "save", "supersede"} : Goto(r, pc)
      BY <2>2, <2>4
    <3>2. PICK q \in Request : /\ req' = [req EXCEPT ![r] = q]
                               /\ Same(q, req[r]) /\ q.pc = pc /\ q.row = req[r].row
      BY <1>g, <3>1 DEF PC
    <3>3. ride.status \notin {"requested", "enroute", "trip_started"} \cup Terminal
      BY <1>1, <1>2, <1>a, <2>2, <2>4 DEF Agrees, Out
    <3>4. ride.status \in {"candidates_computed", "assigned", "accepted"}
      BY <1>t, <3>3 DEF Ride, RideStatus, Terminal
    <3>5. q.op = "accept" /\ AcceptKnown(q, ride', candidates')
      BY <2>2, <3>1, <3>2, <3>4 DEF Same, AcceptKnown, Accesses
    <3>6. ~Working(req[r])
      BY <1>1, <1>2 DEF Working, Accesses
    <3> QED
      BY <1>2, <1>a, <2>2, <3>2, <3>5, <3>6, AcceptKept DEF Solo
  <2> QED
    BY <2>3, <2>4
<1>3. CASE req[r].pc = "supersede"
  <2>1. MarkCandidateSuperseded(r)
    BY <1>3 DEF Solo, Step, AcceptCandidate, ConfirmCandidate, RejectCandidate, SaveCandidate,
         RiderRejectCandidate, ClaimDriver, TransitionRideStatus,
         UpdateRideMerge, UpdateRideWrite, UpdateRideReload, RecordStatusChange,
         ListCandidates, SaveMany
  <2>2. /\ ride' = ride /\ Finish(r)
        /\ candidates' = [candidates EXCEPT ![req[r].driver] = "canceled"]
    BY <2>1 DEF MarkCandidateSuperseded
  <2>3. req[r].driver \in Drivers /\ ride.driver # NoDriver /\ ride.driver # req[r].driver
    BY <1>t, <1>1, <1>3 DEF OwnershipKnown
  <2>4. /\ \A d \in Drivers :
             candidates'[d] = IF d = req[r].driver THEN "canceled" ELSE candidates[d]
        /\ ride.driver \in Drivers
    BY <1>t, <2>2, <2>3 DEF Ride
  <2>5. Agrees(ride', candidates')
    BY <1>a, <2>2, <2>3, <2>4 DEF Agrees, Out
  <2>6. ~Working(req[r])
    BY <1>1, <1>3 DEF Working, Accesses
  <2> QED
    BY <1>3, <2>2, <2>3, <2>4, <2>5, <2>6, IdleType, AcceptKept DEF Solo, Finish
<1>4. CASE req[r].pc = "claim"
  <2>1. ClaimDriver(r)
    BY <1>4 DEF Solo, Step, AcceptCandidate, ConfirmCandidate, RejectCandidate, SaveCandidate,
         RiderRejectCandidate, MarkCandidateSuperseded, TransitionRideStatus,
         UpdateRideMerge, UpdateRideWrite, UpdateRideReload, RecordStatusChange,
         ListCandidates, SaveMany
  <2>2. CASE ride.driver # NoDriver
    BY <1>f, <1>4, <2>1, <2>2 DEF ClaimDriver
  <2>3. CASE ride.driver = NoDriver
    <3>1. /\ ride' = [ride EXCEPT !.driver = req[r].driver] /\ Goto(r, "save")
          /\ candidates' = candidates
      BY <2>1, <2>3 DEF ClaimDriver
    <3>2. ride.status = "candidates_computed"
      BY <1>t, <1>4, <1>a, <2>3 DEF AcceptKnown, Agrees
    <3>3. ride'.status = "candidates_computed" /\ ride'.fare = ride.fare
      BY <1>t, <3>1, <3>2 DEF Ride
    <3>4. PICK q \in Request : /\ req' = [req EXCEPT ![r] = q]
                               /\ Same(q, req[r]) /\ q.pc = "save" /\ q.row = req[r].row
      BY <1>g, <3>1 DEF PC
    <3>5. Agrees(ride', candidates')
      BY <1>a, <3>2, <3>3 DEF Agrees
    <3>6. Working(q) /\ q.op = "accept" /\ AcceptKnown(q, ride', candidates')
      BY <1>1, <1>4, <3>3, <3>4 DEF Working, Same, AcceptKnown, Accesses
    <3> QED
      BY <1>4, <3>1, <3>2, <3>3, <3>4, <3>5, <3>6, AcceptKept DEF Solo
  <2> QED
    BY <2>2, <2>3
<1>5. CASE req[r].pc = "save"
  <2>1. SaveCandidate(r)
    BY <1>5 DEF Solo, Step, AcceptCandidate, ConfirmCandidate, RejectCandidate, ClaimDriver,
         RiderRejectCandidate, MarkCandidateSuperseded, TransitionRideStatus,
         UpdateRideMerge, UpdateRideWrite, UpdateRideReload, RecordStatusChange,
         ListCandidates, SaveMany
  <2>2. /\ ride' = ride /\ Goto(r, "read")
        /\ candidates' = [candidates EXCEPT ![req[r].driver] = "accepted"]
    BY <2>1 DEF SaveCandidate, AnswerOf
  <2>3. req[r].driver \in Drivers /\ ride.driver = req[r].driver
    BY <1>t, <1>5 DEF DriverKnown
  <2>4. \A d \in Drivers :
          candidates'[d] = IF d = req[r].driver THEN "accepted" ELSE candidates[d]
    BY <1>t, <2>2
  <2>5. ride.status \in {"candidates_computed", "assigned", "accepted"}
    BY <1>t, <1>5 DEF AcceptKnown
  <2>6. Agrees(ride', candidates')
    BY <1>a, <2>2, <2>3, <2>4, <2>5 DEF Agrees
  <2>7. PICK q \in Request : /\ req' = [req EXCEPT ![r] = q]
                             /\ Same(q, req[r]) /\ q.pc = "read" /\ q.row = req[r].row
    BY <1>g, <2>2 DEF PC
  <2>8. Working(q) /\ q.op = "accept" /\ AcceptKnown(q, ride', candidates')
    BY <1>1, <1>5, <2>2, <2>3, <2>4, <2>5, <2>7 DEF Working, Same, AcceptKnown, Accesses
  <2> QED
    BY <1>5, <2>2, <2>3, <2>4, <2>6, <2>7, <2>8, AcceptKept DEF Solo
<1>6. CASE req[r].pc \in Accesses
  <2>1. PICK q \in Request :
          /\ req' = [req EXCEPT ![r] = q]
          /\ candidates' = candidates /\ failures' = failures
          /\ AccessStep(req[r], q, ride, ride')
    BY <1>t, <1>6, AccessSteps DEF Solo
  <2>2. \A row \in Ride :
          LET n == Continue(req[r], row) IN
          /\ req[r].stage = "assign" =>
               /\ n.op = "accept" /\ n.driver = req[r].driver
               /\ n.stage = "accept" /\ n.pc = "read"
          /\ req[r].stage = "accept" => n = Idle
    BY <1>t, ContinueFields
  <2>3. /\ req[r].stage \in {"assign", "accept"} /\ req[r].stage \in Transitions
        /\ req[r].driver \in Drivers /\ ride.driver = req[r].driver
        /\ candidates[req[r].driver] = "accepted"
        /\ ride.status \in {"candidates_computed", "assigned", "accepted"}
        /\ ride.fare # "due" /\ req[r].driver # NoDriver
    <3>1. req[r].stage \in {"assign", "accept"} /\ req[r].pc # "save" /\ req[r].pc # "candidate"
      BY <1>1, <1>6 DEF Accesses
    <3>2. /\ req[r].driver \in Drivers /\ ride.driver = req[r].driver
          /\ candidates[req[r].driver] = "accepted"
          /\ ride.status \in {"candidates_computed", "assigned", "accepted"}
      BY <1>t, <1>6 DEF DriverKnown, AcceptKnown
    <3> QED
      BY <1>a, <3>1, <3>2, ConstantsAssumption DEF Agrees, Transitions
  <2>4. CASE req[r].pc = "write"
    <3>1. /\ ride' = req[r].row /\ Same(q, req[r]) /\ q.pc = "reload"
      BY <2>1, <2>3, <2>4 DEF AccessStep
    <3>2. /\ ride'.status = NextStatus[req[r].stage] /\ ride'.fare # "due"
          /\ ride'.driver = ride.driver
      BY <1>t, <2>3, <2>4, <3>1 DEF AcceptKnown, DriverKnown
    <3>3. ride'.status = IF req[r].stage = "assign" THEN "assigned" ELSE "accepted"
      BY <2>3, <3>2 DEF NextStatus
    <3>4. Agrees(ride', candidates')
      BY <2>1, <2>3, <3>2, <3>3 DEF Agrees
    <3>5. AcceptKnown(q, ride', candidates')
      BY <2>1, <2>3, <3>1, <3>3 DEF AcceptKnown, Same
    <3>6. Half(ride') => Working(q)
      BY <2>3, <3>1, <3>3 DEF Half, Working, Same, Accesses
    <3> QED
      BY <2>1, <2>4, <3>1, <3>3, <3>4, <3>5, <3>6, AcceptKept DEF Solo, Same
  <2>5. CASE req[r].pc # "write"
    <3>1. ride' = ride
      BY <2>1, <2>5 DEF AccessStep
    <3>2. q = Idle \/ (q.op = "accept" /\ AcceptKnown(q, ride', candidates'))
      <4>1. CASE q # Idle /\ q.pc = "merge"
        BY <1>t, <2>1, <2>2, <2>3, <3>1, <4>1
        DEF AccessStep, Same, AcceptKnown, Accesses
      <4>2. CASE q # Idle /\ q.pc = "write"
        BY <1>t, <2>1, <2>2, <2>3, <3>1, <4>2
        DEF AccessStep, Same, AcceptKnown, Accesses
      <4>3. CASE q # Idle /\ q.pc \notin {"merge", "write"}
        BY <1>t, <2>1, <2>2, <2>3, <2>5, <3>1, <4>3
        DEF AccessStep, Same, AcceptKnown, Accesses
      <4> QED
        BY <4>1, <4>2, <4>3
    <3>3. Half(ride') => Working(q) \/ (Half(ride) /\ ~Working(req[r]))
      <4>1. CASE req[r].stage = "assign"
        BY <1>t, <1>6, <2>1, <2>2, <2>3, <2>5, <3>1, <4>1
        DEF AccessStep, Same, Working, Accesses
      <4>2. CASE req[r].stage = "accept" /\ req[r].pc \in {"reload", "history"}
        BY <3>1, <4>2 DEF Working
      <4>3. CASE req[r].stage = "accept" /\ req[r].pc = "merge"
        BY <2>1, <4>3 DEF AccessStep, Same, Working
      <4>4. CASE req[r].stage = "accept" /\ req[r].pc = "read"
        <5>1. CASE q.pc = "merge"
          BY <1>t, <2>1, <2>2, <4>4, <5>1 DEF AccessStep, Same, Working, Idle
        <5>2. CASE q.pc # "merge"
          <6>1. ride.status \notin {"assigned", "candidates_computed"}
            BY <2>1, <4>4, <5>2 DEF AccessStep, AllowedStatuses, NextStatus
          <6> QED
            BY <3>1, <6>1 DEF Half
        <5> QED
          BY <5>1, <5>2
      <4> QED
        BY <1>6, <2>3, <2>5, <4>1, <4>2, <4>3, <4>4 DEF Accesses
    <3> QED
      BY <1>6, <1>a, <2>1, <3>1, <3>2, <3>3, AcceptKept DEF Solo
  <2> QED
    BY <2>4, <2>5
<1> QED
  BY <1>1, <1>2, <1>3, <1>4, <1>5, <1>6

\* An accept joins accepts only, and any other operation finds nobody at work.
LEMMA ArriveHandshake ==
  ASSUME Overlapping \subseteq {"accept"}, HandshakeInv, OwnershipInv',
         NEW r \in Requests, Arrive(r)
  PROVE  HandshakeInv'
<1>t. /\ ride \in Ride /\ req \in [Requests -> Request]
  BY DEF HandshakeInv, OwnershipInv, DriverInv, TypeOK
<1>1. PICK op \in Operations, d \in Drivers \cup {NoDriver, ride.driver},
           pc \in PC, stage \in Transitions \cup Updates :
           Arrival(r, op, d, pc, stage)
  BY ArrivalShape
<1>2. PICK q : q = [Idle EXCEPT !.op = op, !.pc = pc, !.stage = stage,
                                !.driver = d, !.row = ride]
  OBVIOUS
<1>3. q.op = op /\ q.pc = pc /\ q.stage = stage /\ q.driver = d /\ q.row = ride
  BY <1>2 DEF Idle
<1>4. /\ req' = [req EXCEPT ![r] = q] /\ req[r].pc = "idle"
      /\ UNCHANGED <<ride, candidates, failures>>
      /\ \A p \in Requests : req[p].pc # "idle" => {op, req[p].op} \subseteq Overlapping
  BY <1>1, <1>2 DEF Arrival, Begin
<1>5. \A p \in Requests : req'[p] = IF p = r THEN q ELSE req[p]
  BY <1>t, <1>4
<1>6. CASE failures # 0
  BY <1>4, <1>6 DEF HandshakeInv
<1>7. CASE failures = 0
  <2>1. Quiet(req)
    BY <1>4 DEF Quiet
  <2>2. Agrees(ride, candidates)
    BY <1>7, <2>1 DEF HandshakeInv
  <2>3. ASSUME HandshakeKnown(q, ride, candidates)
        PROVE  \A p \in Requests : HandshakeKnown(req'[p], ride', candidates')
    BY <1>4, <1>5, <1>7, <2>3 DEF HandshakeInv
  <2>4. CASE op = "accept"
    <3>1. pc = "candidate"
      BY <1>1, <2>4 DEF Arrival
    <3>2. HandshakeKnown(q, ride, candidates)
      BY <1>3, <2>4, <3>1 DEF HandshakeKnown, AcceptKnown, Accesses, Rejections
    <3>3. Half(ride) => \E p \in Requests : Working(req'[p])
      <4>1. ~Working(req[r])
        BY <1>4 DEF Working, Accesses
      <4> QED
        BY <1>5, <1>7, <2>1, <4>1 DEF HandshakeInv
    <3> QED
      BY <1>4, <2>2, <2>3, <3>2, <3>3 DEF HandshakeInv
  <2>5. CASE op # "accept"
    <3>1. \A p \in Requests : req[p].pc = "idle"
      BY <1>4, <2>5
    <3>2. ~Half(ride)
      BY <1>7, <2>1, <3>1 DEF HandshakeInv, Working, Accesses
    <3>3. ~Quiet(req')
      <4>1. q.pc # "idle" /\ q.op # "accept"
        BY <1>1, <1>3, <2>5 DEF Arrival
      <4> QED
        BY <1>5, <4>1 DEF Quiet
    <3>4. /\ ride.status \in {"candidates_computed", "accepted", "enroute", "trip_started"}
          /\ ride.status = "candidates_computed" => ride.driver = NoDriver
          /\ ride.fare # "due"
      <4>1. ride.status \notin {"requested", "assigned"} \cup Terminal
        BY <1>1, <2>2, <3>2 DEF Arrival, Agrees, Half
      <4> QED
        BY <1>t, <2>2, <3>2, <4>1 DEF Ride, RideStatus, Terminal, Agrees, Half
    <3>5. HandshakeKnown(q, ride, candidates)
      <4>1. CASE op = "start"
        BY <1>1, <1>3, <2>2, <4>1 DEF Arrival, HandshakeKnown, StartKnown, Rejections
      <4>2. CASE op = "complete"
        BY <1>1, <1>3, <3>4, <4>2 DEF Arrival, HandshakeKnown, CompleteKnown, Rejections
      <4>3. CASE op = "cancel"
        BY <1>1, <1>3, <2>2, <3>4, <4>3
        DEF Arrival, HandshakeKnown, CancelKnown, Rejections, Agrees
      <4>4. CASE op = "confirm"
        <5>1. pc = "candidate" /\ ride.status \in {"accepted", "trip_started"}
          BY <1>1, <3>4, <4>4 DEF Arrival
        <5> QED
          BY <1>3, <2>2, <3>4, <4>4, <5>1
          DEF HandshakeKnown, ConfirmKnown, Rejections, Accesses
      <4>5. CASE op \in Rejections
        <5>1. pc = "candidate" /\ stage = "release" /\ ride.status # "enroute"
          BY <1>1, <4>5 DEF Arrival, Rejections
        <5>2. ride.status = "trip_started" =>
                \A c \in Drivers : candidates[c] \in Out \cup {"confirmed"}
          BY <2>2 DEF Agrees
        <5>3. RejectKnown(q, ride, candidates)
          BY <1>3, <2>2, <3>4, <5>1, <5>2 DEF RejectKnown, Accesses
        <5> QED
          BY <1>3, <4>5, <5>3 DEF HandshakeKnown, Rejections
      <4> QED
        BY <2>5, <4>1, <4>2, <4>3, <4>4, <4>5 DEF Operations, Rejections
    <3> QED
      BY <1>4, <2>3, <3>3, <3>5 DEF HandshakeInv
  <2> QED
    BY <2>4, <2>5
<1> QED
  BY <1>6, <1>7

\* Every step keeps HandshakeInv when only accepts overlap.
LEMMA NextHandshakeInv ==
  ASSUME Overlapping \subseteq {"accept"}, HandshakeInv, [Next]_vars
  PROVE  HandshakeInv'
<1>t. OwnershipInv'
  BY NextOwnershipInv DEF HandshakeInv
<1>1. CASE UNCHANGED vars
  <2>1. ride' = ride /\ candidates' = candidates /\ req' = req /\ failures' = failures
    BY <1>1 DEF vars
  <2> QED
    BY <1>t, <2>1 DEF HandshakeInv
<1>2. ASSUME NEW r \in Requests, Arrive(r) PROVE HandshakeInv'
  BY <1>t, <1>2, ArriveHandshake
<1>3. ASSUME NEW r \in Requests, Step(r) PROVE HandshakeInv'
  <2>1. failures' = failures
    BY <1>3 DEF Step, AcceptCandidate, ConfirmCandidate, RejectCandidate, ClaimDriver,
         SaveCandidate, RiderRejectCandidate, MarkCandidateSuperseded,
         TransitionRideStatus, UpdateRideMerge, UpdateRideWrite, UpdateRideReload,
         RecordStatusChange, ListCandidates, SaveMany
  <2>2. CASE failures # 0
    BY <1>t, <2>1, <2>2 DEF HandshakeInv
  <2>3. CASE failures = 0
    <3>1. Solo(r)
      <4>1. req[r].pc # "idle"
        BY <1>3 DEF Step, AcceptCandidate, ConfirmCandidate, RejectCandidate, ClaimDriver,
             SaveCandidate, RiderRejectCandidate, MarkCandidateSuperseded,
             TransitionRideStatus, UpdateRideMerge, UpdateRideWrite, UpdateRideReload,
             RecordStatusChange, ListCandidates, SaveMany
      <4> QED
        BY <1>t, <1>3, <2>3, <4>1 DEF Solo
    <3>2. req[r].op \in Operations
      BY <3>1, SoloFacts DEF Request
    <3> QED
      BY <3>1, <3>2, StartHandshake, CompleteHandshake, CancelHandshake,
         ConfirmHandshake, RejectHandshake, AcceptHandshake DEF Operations, Rejections
  <2> QED
    BY <2>2, <2>3
<1>4. ASSUME NEW r \in Requests, Fail(r) PROVE HandshakeInv'
  <2>1. failures' # 0
    BY <1>4, ConstantsAssumption DEF Fail, HandshakeInv, OwnershipInv, DriverInv, TypeOK
  <2> QED
    BY <1>t, <2>1 DEF HandshakeInv
<1> QED
  BY <1>1, <1>2, <1>3, <1>4 DEF Next

\* At rest the invariant is what the two properties say.
LEMMA HandshakeAtRest ==
  ASSUME HandshakeInv, AtRest, failures = 0
  PROVE  Agrees(ride, candidates) /\ ~Half(ride)
<1>1. Quiet(req) /\ \A r \in Requests : ~Working(req[r])
  BY DEF AtRest, InFlight, Quiet, Working, Accesses
<1> QED
  BY <1>1 DEF HandshakeInv

\* When only drivers' accepts overlap, a ride that no handler works on agrees
\* with the answers of its drivers: an acceptance of which a first half was
\* written always has a handler at work that writes the second, even when
\* another accept overwrote the status in between.
THEOREM HandshakeCorrect ==
  ASSUME Overlapping \subseteq {"accept"}
  PROVE  Spec => []HandshakeAgrees
<1>1. HandshakeInv => HandshakeAgrees
  <2> SUFFICES ASSUME HandshakeInv, AtRest, failures = 0 PROVE HandshakeAgrees
    BY DEF HandshakeAgrees
  <2>1. Agrees(ride, candidates) /\ ~Half(ride)
    BY HandshakeAtRest
  <2>2. HolderHasRide
    BY DEF HandshakeInv, OwnershipInv, DriverInv
  <2>3. ride.driver = NoDriver =>
          \A d \in Drivers : candidates[d] \notin {"accepted", "confirmed"}
    BY <2>2, ConstantsAssumption DEF HolderHasRide
  <2> QED
    BY <2>1, <2>3 DEF HandshakeAgrees, Agrees, Half, Out
<1>2. HandshakeInv /\ [Next]_vars => HandshakeInv'
  BY NextHandshakeInv
<1> QED
  BY <1>1, <1>2, InitHandshakeInv, PTL DEF Spec

\* Under the same hypothesis the fare of a ride at rest matches how it ended:
\* no entity that was read before the fare was set is written after it.
THEOREM FareCorrect ==
  ASSUME Overlapping \subseteq {"accept"}
  PROVE  Spec => []FareMatchesOutcome
<1>1. HandshakeInv => FareMatchesOutcome
  BY HandshakeAtRest DEF FareMatchesOutcome, Agrees
<1>2. HandshakeInv /\ [Next]_vars => HandshakeInv'
  BY NextHandshakeInv
<1> QED
  BY <1>1, <1>2, InitHandshakeInv, PTL DEF Spec
=============================================================================
