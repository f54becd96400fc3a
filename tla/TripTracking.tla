--------------------------- MODULE TripTracking ---------------------------
(***************************************************************************)
(* TripTrackingService for one ride: the state key, the events list and    *)
(* the active-rides set in Redis, the handlers that record locations and   *)
(* complete the ride, and the worker that flushes the events to the tables *)
(* `trip_track' and `trip_summary'.                                        *)
(*                                                                         *)
(* All Redis commands of the process go through one connection, in the     *)
(* order in which they are issued; commands issued together without an     *)
(* await between them (the Promise.all calls) are one action here, and     *)
(* everything else interleaves.                                            *)
(*                                                                         *)
(* The driver moves along a line, one unit between two of its reports, so  *)
(* its n-th report is position n and the distance of two positions is      *)
(* their difference.  The one-hour expiry of the keys is not modelled: the *)
(* flush interval is a minute and reports renew it.                        *)
(***************************************************************************)
EXTENDS Integers, Sequences, FiniteSets, FiniteSetsExt

CONSTANTS
  Reporters,     \* executions of recordTripLocation that can be in flight
  Flushers,      \* executions of flushRide that can be in flight
  Overlap,       \* pairs {k, l} of kinds of execution that may overlap
  MaxPosition,   \* bound: reports of the driver
  MaxRider,      \* bound: reports of the rider
  MaxFailures,   \* bound: flushes whose database transaction fails
  MaxGeo,        \* bound: distances that Redis fails to compute
  Estimate       \* the ride's distanceEstimatedKm, 0 if it has none

Kinds == {"driver", "rider", "complete", "flush"}

ASSUME TrackingAssumption ==
  /\ Overlap \subseteq SUBSET Kinds
  /\ MaxPosition \in Nat /\ MaxRider \in Nat /\ MaxFailures \in Nat
  /\ MaxGeo \in Nat /\ Estimate \in Nat

VARIABLES
  state,     \* trip:track:state, as getState reads it
  active,    \* is the ride in the set of active rides?
  events,    \* trip:track:events
  job,       \* is the flush-ride job of this ride in the queue?
  tracks,    \* rows of trip_track, in insertion order
  summary,   \* the driver's row of trip_summary: its total distance
  position,  \* reports the driver has sent
  rider,     \* reports the rider has sent
  rep,       \* recordTripLocation in flight
  comp,      \* completeRide
  done,      \* is the ride's status completed?
  flush,     \* flushRide in flight
  failures,  \* flushes that failed so far
  geo,       \* distances that Redis failed to compute so far
  stale      \* history: was a state written back that was out of date?

vars == <<state, active, events, job, tracks, summary, position, rider, rep,
          comp, done, flush, failures, geo, stale>>

None == 0   \* no location yet, no summary row yet is -1
NoRow == -1

\* totalDistanceMeters, lastDriverLocation, is there a lastRiderLocation?
State == [total : Nat, last : Nat, rider : BOOLEAN, completed : BOOLEAN]

\* What getState returns when the key is missing.
NoState ==
  [total |-> 0, last |-> None, rider |-> FALSE, completed |-> FALSE]

Event == [role : {"driver", "rider"}, id : Nat, total : Nat]

NoReport == [pc |-> "idle", role |-> "rider", id |-> 0, from |-> NoState,
             lost |-> FALSE]

\* completeRide also keeps the distance that the fare is computed from.
NoCompletion ==
  [pc |-> "idle", role |-> "driver", id |-> 0, from |-> NoState,
   lost |-> FALSE, fare |-> 0]

NoFlush == [pc |-> "idle", batch |-> << >>]

Report ==
  [pc : {"idle", "read", "set", "push"}, role : {"driver", "rider"}, id : Nat,
   from : State, lost : BOOLEAN]

Completion ==
  [pc : {"idle", "read", "set", "push", "distance", "transition", "mark",
         "complete", "enqueue", "done"},
   role : {"driver"}, id : Nat, from : State, lost : BOOLEAN, fare : Nat]

Flush ==
  [pc : {"idle", "del", "persist", "state", "llen", "cleanup"}, batch : Seq(Event)]

Init ==
  /\ state = NoState /\ active = FALSE /\ events = << >> /\ job = FALSE
  /\ tracks = << >> /\ summary = NoRow
  /\ position = 0 /\ rider = 0
  /\ rep = [r \in Reporters |-> NoReport]
  /\ comp = NoCompletion /\ done = FALSE
  /\ flush = [f \in Flushers |-> NoFlush]
  /\ failures = 0 /\ geo = 0 /\ stale = FALSE

(***************************************************************************)
(* Which executions are in flight, and which may join them.                *)
(***************************************************************************)
KindsInFlight ==
  {rep[r].role : r \in {r \in Reporters : rep[r].pc # "idle"}}
    \cup (IF comp.pc \notin {"idle", "done"} THEN {"complete"} ELSE {})
    \cup (IF \E f \in Flushers : flush[f].pc # "idle" THEN {"flush"} ELSE {})

MayBegin(kind) == \A other \in KindsInFlight : {kind, other} \in Overlap

AtRest == KindsInFlight = {}

(***************************************************************************)
(* recordLocation: getState, then the state key and the active set, then   *)
(* the event.  Only a driver's report adds distance.                       *)
(***************************************************************************)
Distance(a, b) == IF a < b THEN b - a ELSE a - b

\* Mutant: the first report of the driver adds distance too.
DeltaOfFirst(q) ==
  IF q.role = "driver" THEN Distance(q.from.last, q.id) ELSE 0

Delta(q) ==
  IF q.role = "driver" /\ q.from.last # None /\ ~q.lost
    THEN Distance(q.from.last, q.id) ELSE 0

\* Mutant: a report of the rider replaces the driver's last location.
StateOfAnyRole(q) ==
  [q.from EXCEPT !.total = @ + Delta(q), !.last = q.id,
                 !.rider = @ \/ q.role = "rider"]

UpdatedState(q) ==
  [q.from EXCEPT !.total = @ + Delta(q),
                 !.last = IF q.role = "driver" THEN q.id ELSE @,
                 !.rider = @ \/ q.role = "rider"]

TrackEvent(q) ==
  [role |-> q.role, id |-> q.id, total |-> q.from.total + Delta(q)]

\* getState, and calculateDistanceMeters on private keys: when Redis cannot
\* compute the distance, it counts as 0.
GetState(q, lost) ==
  /\ q.pc = "read"
  /\ lost => q.role = "driver" /\ state.last # None /\ geo < MaxGeo
  /\ geo' = IF lost THEN geo + 1 ELSE geo
  /\ UNCHANGED <<state, active, events, job, tracks, summary, position, rider,
                 done, flush, failures, stale>>

\* The state that is written back is out of date when the key has changed
\* since it was read, or the ride was completed since the request was checked.
SaveState(q) ==
  /\ q.pc = "set"
  /\ state' = UpdatedState(q)
  /\ stale' = (stale \/ done \/ state # q.from)
  /\ active' = TRUE
  /\ UNCHANGED <<events, job, tracks, summary, position, rider, done, flush,
                 failures, geo>>

PushEvent(q) ==
  /\ q.pc = "push"
  /\ events' = Append(events, TrackEvent(q))
  /\ UNCHANGED <<state, active, job, tracks, summary, position, rider, done,
                 flush, failures, geo, stale>>

(***************************************************************************)
(* recordTripLocation: the ride is not over when the request is checked.   *)
(***************************************************************************)
DriverReports(r) ==
  /\ rep[r].pc = "idle" /\ ~done /\ MayBegin("driver")
  /\ position < MaxPosition
  /\ position' = position + 1
  /\ rep' = [rep EXCEPT ![r] = [NoReport EXCEPT !.pc = "read", !.role = "driver",
                                                 !.id = position + 1]]
  /\ UNCHANGED <<state, active, events, job, tracks, summary, rider, comp,
                 done, flush, failures, geo, stale>>

RiderReports(r) ==
  /\ rep[r].pc = "idle" /\ ~done /\ MayBegin("rider")
  /\ rider < MaxRider
  /\ rider' = rider + 1
  /\ rep' = [rep EXCEPT ![r] = [NoReport EXCEPT !.pc = "read", !.id = rider + 1]]
  /\ UNCHANGED <<state, active, events, job, tracks, summary, position, comp,
                 done, flush, failures, geo, stale>>

RecordRead(r) ==
  /\ \E lost \in BOOLEAN :
       /\ GetState(rep[r], lost)
       /\ rep' = [rep EXCEPT ![r].pc = "set", ![r].from = state, ![r].lost = lost]
  /\ UNCHANGED comp

RecordSave(r) ==
  /\ SaveState(rep[r])
  /\ rep' = [rep EXCEPT ![r].pc = "push"]
  /\ UNCHANGED comp

RecordPush(r) ==
  /\ PushEvent(rep[r])
  /\ rep' = [rep EXCEPT ![r] = NoReport]
  /\ UNCHANGED comp

(***************************************************************************)
(* completeRide: there is a rider location (getLatestLocation), record the *)
(* driver's last location, read the distance that the fare is computed     *)
(* from, set the ride's status, markRideCompleted, enqueueFlushRideJob.    *)
(* distanceActualKm is null until a completion has set it, so the fare     *)
(* falls back to the estimate when no distance was tracked.                *)
(***************************************************************************)
CompleteRide ==
  /\ comp.pc = "idle" /\ MayBegin("complete")
  /\ state.rider
  /\ position < MaxPosition
  /\ position' = position + 1
  /\ comp' = [comp EXCEPT !.pc = "read", !.id = position + 1]
  /\ UNCHANGED <<state, active, events, job, tracks, summary, rider, rep, done,
                 flush, failures, geo, stale>>

CompleteRead ==
  /\ \E lost \in BOOLEAN :
       /\ GetState(comp, lost)
       /\ comp' = [comp EXCEPT !.pc = "set", !.from = state, !.lost = lost]
  /\ UNCHANGED rep

CompleteSave ==
  /\ SaveState(comp)
  /\ comp' = [comp EXCEPT !.pc = "push"]
  /\ UNCHANGED rep

CompletePush ==
  /\ PushEvent(comp)
  /\ comp' = [comp EXCEPT !.pc = "distance"]
  /\ UNCHANGED rep

FareDistance(total) == IF total > 0 THEN total ELSE Estimate

\* getTotalDistanceMeters and the distance handed to the fare engine.
GetTotalDistance ==
  /\ comp.pc = "distance"
  /\ comp' = [comp EXCEPT !.pc = "transition", !.fare = FareDistance(state.total)]
  /\ UNCHANGED <<state, active, events, job, tracks, summary, position, rider,
                 rep, done, flush, failures, geo, stale>>

\* transitionRideStatus, which RideLifecycle models.
Transition ==
  /\ comp.pc = "transition"
  /\ done' = TRUE
  /\ comp' = [comp EXCEPT !.pc = "mark"]
  /\ UNCHANGED <<state, active, events, job, tracks, summary, position, rider,
                 rep, flush, failures, geo, stale>>

\* markRideCompleted: getState, then set.
ReadBeforeMark ==
  /\ comp.pc = "mark"
  /\ comp' = IF state.completed THEN [comp EXCEPT !.pc = "done"]
                                ELSE [comp EXCEPT !.pc = "complete",
                                                  !.from = state]
  /\ UNCHANGED <<state, active, events, job, tracks, summary, position, rider,
                 rep, done, flush, failures, geo, stale>>

MarkRideCompleted ==
  /\ comp.pc = "complete"
  /\ state' = [comp.from EXCEPT !.completed = TRUE]
  /\ stale' = (stale \/ state # comp.from)
  /\ comp' = [comp EXCEPT !.pc = "enqueue"]
  /\ UNCHANGED <<active, events, job, tracks, summary, position, rider, rep,
                 done, flush, failures, geo>>

\* The job has a fixed id: adding it while it is queued adds nothing.
EnqueueFlushRideJob ==
  /\ comp.pc = "enqueue"
  /\ job' = TRUE
  /\ comp' = [comp EXCEPT !.pc = "done"]
  /\ UNCHANGED <<state, active, events, tracks, summary, position, rider, rep,
                 done, flush, failures, geo, stale>>

(***************************************************************************)
(* flushRide, called for each active ride by the repeated flush-all job,   *)
(* or by the flush-ride job.                                               *)
(***************************************************************************)
LRange(f) ==
  /\ flush[f].pc = "idle" /\ MayBegin("flush")
  /\ flush' = [flush EXCEPT ![f] =
                 [pc |-> IF events = << >> THEN "state" ELSE "del",
                  batch |-> events]]
  /\ UNCHANGED <<state, active, events, tracks, summary, position, rider, rep,
                 comp, done, failures, geo, stale>>

FlushAll(f) == active /\ LRange(f) /\ UNCHANGED job

FlushRideJob(f) == job /\ LRange(f) /\ job' = FALSE

\* Mutant: the events stay in the list.
NoDel(f) ==
  /\ flush[f].pc = "del"
  /\ flush' = [flush EXCEPT ![f].pc = "persist"]
  /\ UNCHANGED <<state, active, events, job, tracks, summary, position, rider,
                 rep, comp, done, failures, geo, stale>>

Del(f) ==
  /\ flush[f].pc = "del"
  /\ events' = << >>
  /\ flush' = [flush EXCEPT ![f].pc = "persist"]
  /\ UNCHANGED <<state, active, job, tracks, summary, position, rider, rep,
                 comp, done, failures, geo, stale>>

\* The driver's summary in a batch: a later event replaces an earlier one, so
\* it is the total of the last driver event.
DriverEvents(batch) == {i \in DOMAIN batch : batch[i].role = "driver"}

LastTotal(batch) ==
  IF DriverEvents(batch) = {} THEN NoRow ELSE batch[Max(DriverEvents(batch))].total

\* The row of trip_summary after a batch: the last event of the batch, if any.
UpsertSummary(batch) ==
  IF LastTotal(batch) = NoRow THEN summary ELSE LastTotal(batch)

\* Mutant: the summary takes the first driver event of the batch.
PersistFirst(f) ==
  LET batch == flush[f].batch IN
  /\ flush[f].pc = "persist"
  /\ tracks' = tracks \o batch
  /\ summary' = IF LastTotal(batch) = NoRow THEN summary
                                            ELSE batch[Min(DriverEvents(batch))].total
  /\ flush' = [flush EXCEPT ![f] = [pc |-> "state", batch |-> batch]]
  /\ UNCHANGED <<state, active, events, job, position, rider, rep, comp, done,
                 failures, geo, stale>>

\* persistFlush: the rows and the summary upserts in one transaction.
PersistFlush(f) ==
  LET batch == flush[f].batch IN
  /\ flush[f].pc = "persist"
  /\ tracks' = tracks \o batch
  /\ summary' = UpsertSummary(batch)
  /\ flush' = [flush EXCEPT ![f] = [pc |-> "state", batch |-> batch]]
  /\ UNCHANGED <<state, active, events, job, position, rider, rep, comp, done,
                 failures, geo, stale>>

\* The transaction rolls back; flushAll logs it, the job has one attempt.
PersistFails(f) ==
  /\ flush[f].pc = "persist"
  /\ failures < MaxFailures
  /\ failures' = failures + 1
  /\ flush' = [flush EXCEPT ![f] = NoFlush]
  /\ UNCHANGED <<state, active, events, job, tracks, summary, position, rider,
                 rep, comp, done, geo, stale>>

\* Mutant: a flush that found no event ends without looking at the state.
CheckAfterRowsOnly(f) ==
  /\ flush[f].pc = "state"
  /\ flush' = [flush EXCEPT ![f] =
                 IF state.completed /\ flush[f].batch # << >>
                   THEN [@ EXCEPT !.pc = "llen"] ELSE NoFlush]
  /\ UNCHANGED <<state, active, events, job, tracks, summary, position, rider,
                 rep, comp, done, failures, geo, stale>>

\* getState after the flush: a completed ride whose batch was empty is cleaned
\* up, one whose batch was not only when no event is left.
CheckCompleted(f) ==
  /\ flush[f].pc = "state"
  /\ flush' = [flush EXCEPT ![f] =
                 IF ~state.completed THEN NoFlush
                 ELSE [@ EXCEPT !.pc =
                         IF flush[f].batch = << >> THEN "cleanup" ELSE "llen"]]
  /\ UNCHANGED <<state, active, events, job, tracks, summary, position, rider,
                 rep, comp, done, failures, geo, stale>>

LLen(f) ==
  /\ flush[f].pc = "llen"
  /\ flush' = [flush EXCEPT ![f] =
                 IF events = << >> THEN [@ EXCEPT !.pc = "cleanup"] ELSE NoFlush]
  /\ UNCHANGED <<state, active, events, job, tracks, summary, position, rider,
                 rep, comp, done, failures, geo, stale>>

CleanupRide(f) ==
  /\ flush[f].pc = "cleanup"
  /\ state' = NoState /\ events' = << >> /\ active' = FALSE
  /\ flush' = [flush EXCEPT ![f] = NoFlush]
  /\ UNCHANGED <<job, tracks, summary, position, rider, rep, comp, done,
                 failures, geo, stale>>

RecordStep(r) == RecordRead(r) \/ RecordSave(r) \/ RecordPush(r)

CompleteStep ==
  \/ CompleteRead
  \/ CompleteSave
  \/ CompletePush
  \/ GetTotalDistance
  \/ Transition
  \/ ReadBeforeMark
  \/ MarkRideCompleted
  \/ EnqueueFlushRideJob

FlushStep(f) ==
  \/ Del(f)
  \/ PersistFlush(f)
  \/ CheckCompleted(f)
  \/ LLen(f)
  \/ CleanupRide(f)

Next ==
  \/ \E r \in Reporters : DriverReports(r) \/ RiderReports(r) \/ RecordStep(r)
  \/ CompleteRide
  \/ CompleteStep
  \/ \E f \in Flushers :
       FlushAll(f) \/ FlushRideJob(f) \/ FlushStep(f) \/ PersistFails(f)

Spec == Init /\ [][Next]_vars

\* Handlers and flushes run to their end, and the queue keeps delivering the
\* repeated flush-all job and the queued flush-ride job.
FairSpec ==
  /\ Spec
  /\ \A r \in Reporters : WF_vars(RecordStep(r))
  /\ WF_vars(CompleteStep)
  /\ \A f \in Flushers :
       WF_vars(FlushStep(f)) /\ SF_vars(FlushAll(f)) /\ SF_vars(FlushRideJob(f))

-----------------------------------------------------------------------------
(***************************************************************************)
(* Properties.                                                             *)
(***************************************************************************)

\* The variables keep their types.
TypeOK ==
  /\ state \in State /\ active \in BOOLEAN /\ job \in BOOLEAN /\ done \in BOOLEAN
  /\ events \in Seq(Event) /\ tracks \in Seq(Event)
  /\ summary \in Nat \cup {NoRow}
  /\ position \in 0 .. MaxPosition /\ rider \in 0 .. MaxRider
  /\ failures \in 0 .. MaxFailures /\ geo \in 0 .. MaxGeo
  /\ stale \in BOOLEAN
  /\ rep \in [Reporters -> Report] /\ comp \in Completion
  /\ flush \in [Flushers -> Flush]

\* What was tracked never exceeds what the driver drove between its first and
\* its last report, and the rider pays for no more unless the estimate is
\* charged, although recordLocation writes back a state that others may have
\* changed since it read it: the total and the last location go together, so a
\* state that is overwritten loses both or none.  The fare may be too low.
NeverOvercharged ==
  /\ state.total < position \/ state.total = 0
  /\ comp.fare < position \/ comp.fare \in {0, Estimate}

\* Unless a state that was out of date was written back, the fare is computed
\* from exactly the distance driven, less the distances that Redis failed to
\* compute, and from the estimate only when nothing is left: no flush, and no
\* report of the rider, touches what the driver has driven.
FareDistanceIsExact ==
  ~stale /\ comp.pc \in {"transition", "mark", "complete", "enqueue", "done"} =>
    LET tracked == comp.id - 1 - geo IN
    IF tracked = 0 THEN comp.fare = Estimate ELSE comp.fare = tracked

\* The identity of a report.
Key(e) == <<e.role, e.id>>

Keys(s) == {Key(s[i]) : i \in DOMAIN s}

\* The one worker persists no report twice: flushRide deletes the events it
\* read before it persists them.
NoDuplicateTracks ==
  \A i, j \in DOMAIN tracks : Key(tracks[i]) = Key(tracks[j]) => i = j

\* trip_summary shows the total of the last driver row that was persisted.
SummaryIsLatest == summary = LastTotal(tracks)

\* Locations are buffered, then flushed to persistent storage: a report that
\* was recorded is in the list, in a batch being flushed or in the table.
NoTrackLost ==
  AtRest =>
    /\ {<<"driver", n>> : n \in 1 .. position} \subseteq Keys(events \o tracks)
    /\ {<<"rider", n>> : n \in 1 .. rider} \subseteq Keys(events \o tracks)

\* A completed ride leaves the set that every flush-all job walks through, and
\* its state leaves Redis, unless a report wrote back a state that was out of
\* date: a rider's report that is recorded after the completion puts both back,
\* without the completion.
CompletedRideIsCleanedUp ==
  (done /\ active) ~> (stale \/ (~active /\ state = NoState))
=============================================================================
