--------------------------- MODULE DriverLocation ---------------------------
(***************************************************************************)
(* Where the drivers are: the jobs of the driver-location queue, the three *)
(* Redis structures they fill (drivers:geo, geo:drivers:metadata and       *)
(* drivers:active), the repeated job that removes idle drivers and the     *)
(* search for nearby drivers.  The hash driver:loc:<id> is written and     *)
(* deleted with them but never read, and is left out.                      *)
(*                                                                         *)
(* A location is the number of the driver's report.  Scores of             *)
(* drivers:active are times; `age' is the time since the score, and a      *)
(* process that took the time `lag' ago compares with age - lag.           *)
(***************************************************************************)
EXTENDS Naturals, FiniteSets, FiniteSetsExt

CONSTANTS
  Drivers,
  Idle,         \* THRESHOLD_DRIVER_IDLE_MS, in ticks
  Batch,        \* CLEANUP_DRIVER_IDLE_LOC_BATCH
  MaxReports,   \* bound: reports of a driver
  MaxTotal,     \* bound: reports of all drivers together
  MaxLag,       \* bound: ticks that a cleanup or a search lasts
  MaxFailures   \* bound: jobs that fail

ASSUME LocationAssumption ==
  /\ IsFiniteSet(Drivers)
  /\ Idle \in Nat \ {0} /\ Batch \in Nat \ {0}
  /\ MaxReports \in Nat /\ MaxTotal \in Nat /\ MaxLag \in Nat /\ MaxFailures \in Nat

VARIABLES
  reports,   \* reports made by each driver
  jobs,      \* the jobs of the queue
  geo,       \* the report in drivers:geo
  meta,      \* the report in geo:drivers:metadata
  age,       \* the age of the score in drivers:active
  clean,     \* the cleanup job
  query,     \* a search in flight
  answer,    \* what the last search returned
  failures   \* jobs that failed so far

vars == <<reports, jobs, geo, meta, age, clean, query, answer, failures>>

None == 0                       \* not in drivers:geo, not in the metadata
MaxAge == Idle + MaxLag         \* from here on, a driver only gets staler
Absent == MaxAge + 1            \* not in drivers:active

Job == [driver : Drivers, report : 1 .. MaxReports,
        state : {"waiting", "active", "failed"}]

NoCleanup == [pc |-> "idle", lag |-> 0, ids |-> {}]
NoQuery == [pc |-> "idle", lag |-> 0, found |-> << >>, active |-> {}]

Init ==
  /\ reports = [d \in Drivers |-> 0]
  /\ jobs = {}
  /\ geo = [d \in Drivers |-> None]
  /\ meta = [d \in Drivers |-> None]
  /\ age = [d \in Drivers |-> Absent]
  /\ clean = NoCleanup
  /\ query = NoQuery
  /\ answer = {}
  /\ failures = 0

(***************************************************************************)
(* upsertDriverLocation.  The job id is the driver's: while a job of the   *)
(* driver exists, in whatever state, the queue adds none.                  *)
(***************************************************************************)
MayReport(d) ==
  /\ reports[d] < MaxReports
  /\ MapThenSumSet(LAMBDA e : reports[e], Drivers) < MaxTotal

\* Mutant: every report has a job of its own.
UpsertWithoutJobId(d) ==
  /\ MayReport(d)
  /\ reports' = [reports EXCEPT ![d] = @ + 1]
  /\ jobs' = jobs \cup {[driver |-> d, report |-> reports[d] + 1,
                         state |-> "waiting"]}
  /\ UNCHANGED <<geo, meta, age, clean, query, answer, failures>>

UpsertDriverLocation(d) ==
  /\ MayReport(d)
  /\ reports' = [reports EXCEPT ![d] = @ + 1]
  /\ jobs' = IF \E j \in jobs : j.driver = d THEN jobs
             ELSE jobs \cup {[driver |-> d, report |-> reports[d] + 1,
                              state |-> "waiting"]}
  /\ UNCHANGED <<geo, meta, age, clean, query, answer, failures>>

TakeJob(j) ==
  /\ j.state = "waiting"
  /\ jobs' = (jobs \ {j}) \cup {[j EXCEPT !.state = "active"]}
  /\ UNCHANGED <<reports, geo, meta, age, clean, query, answer, failures>>

\* Mutant: the metadata is only written for a driver that has none.
StoreNewMetadata(j) ==
  /\ geo' = [geo EXCEPT ![j.driver] = j.report]
  /\ meta' = [meta EXCEPT ![j.driver] = IF @ = None THEN j.report ELSE @]
  /\ age' = [age EXCEPT ![j.driver] = 0]

\* storeDriverLocation: one MULTI.
StoreDriverLocation(j) ==
  /\ geo' = [geo EXCEPT ![j.driver] = j.report]
  /\ meta' = [meta EXCEPT ![j.driver] = j.report]
  /\ age' = [age EXCEPT ![j.driver] = 0]

\* A job that is done is removed.
HandleUpsertLocation(j) ==
  /\ j.state = "active"
  /\ StoreDriverLocation(j)
  /\ jobs' = jobs \ {j}
  /\ UNCHANGED <<reports, clean, query, answer, failures>>

\* Redis fails before or after the EXEC.  The job has one attempt, and is kept.
UpsertFails(j) ==
  /\ j.state = "active"
  /\ failures < MaxFailures
  /\ failures' = failures + 1
  /\ StoreDriverLocation(j) \/ UNCHANGED <<geo, meta, age>>
  /\ jobs' = (jobs \ {j}) \cup {[j EXCEPT !.state = "failed"]}
  /\ UNCHANGED <<reports, clean, query, answer>>

(***************************************************************************)
(* Time passes; cleanups and searches take at most MaxLag.                 *)
(***************************************************************************)
Tick ==
  /\ clean.pc # "idle" => clean.lag < MaxLag
  /\ query.pc # "idle" => query.lag < MaxLag
  /\ age' = [d \in Drivers |-> IF age[d] < MaxAge THEN age[d] + 1 ELSE age[d]]
  /\ clean' = IF clean.pc = "idle" THEN clean ELSE [clean EXCEPT !.lag = @ + 1]
  /\ query' = IF query.pc = "idle" THEN query ELSE [query EXCEPT !.lag = @ + 1]
  /\ UNCHANGED <<reports, jobs, geo, meta, answer, failures>>

(***************************************************************************)
(* The cleanup job, which the scheduler repeats.                           *)
(***************************************************************************)
\* The drivers with a score up to the cutoff that was taken `lag' ago.
Stale(lag) == {d \in Drivers : age[d] # Absent /\ age[d] >= Idle + lag}

CleanupStarts ==
  /\ clean.pc = "idle"
  /\ clean' = [NoCleanup EXCEPT !.pc = "read"]
  /\ UNCHANGED <<reports, jobs, geo, meta, age, query, answer, failures>>

\* zrangebyscore with LIMIT: the lowest scores first.
ReadStale ==
  LET stale == Stale(clean.lag) IN
  /\ clean.pc = "read"
  /\ \/ /\ stale = {}
        /\ clean' = NoCleanup
     \/ /\ stale # {}
        /\ \E ids \in kSubset(Min({Batch, Cardinality(stale)}), stale) :
             /\ \A d \in ids, e \in stale \ ids : age[d] >= age[e]
             /\ clean' = [clean EXCEPT !.pc = "remove", !.ids = ids]
  /\ UNCHANGED <<reports, jobs, geo, meta, age, query, answer, failures>>

Without(f, absent) == [d \in Drivers |-> IF d \in clean.ids THEN absent ELSE f[d]]

\* Mutant: the drivers stay in drivers:active.
RemoveFromGeoOnly ==
  /\ clean.pc = "remove"
  /\ geo' = Without(geo, None) /\ meta' = Without(meta, None)
  /\ clean' = IF Cardinality(clean.ids) < Batch THEN NoCleanup
              ELSE [clean EXCEPT !.pc = "read", !.ids = {}]
  /\ UNCHANGED <<reports, jobs, age, query, answer, failures>>

\* Mutant: one batch per job.
RemoveOneBatch ==
  /\ clean.pc = "remove"
  /\ geo' = Without(geo, None) /\ meta' = Without(meta, None)
  /\ age' = Without(age, Absent)
  /\ clean' = NoCleanup
  /\ UNCHANGED <<reports, jobs, query, answer, failures>>

\* One MULTI; a full batch is followed by another one.
RemoveStale ==
  /\ clean.pc = "remove"
  /\ geo' = Without(geo, None) /\ meta' = Without(meta, None)
  /\ age' = Without(age, Absent)
  /\ clean' = IF Cardinality(clean.ids) < Batch THEN NoCleanup
              ELSE [clean EXCEPT !.pc = "read", !.ids = {}]
  /\ UNCHANGED <<reports, jobs, query, answer, failures>>

\* Redis fails and the job with it; the scheduler starts the next one.
CleanupFails ==
  /\ clean.pc # "idle"
  /\ failures < MaxFailures
  /\ failures' = failures + 1
  /\ clean' = NoCleanup
  /\ UNCHANGED <<reports, jobs, geo, meta, age, query, answer>>

(***************************************************************************)
(* getNearbyDrivers: three commands.  `near' are the drivers within the    *)
(* radius and the limit.                                                   *)
(***************************************************************************)
GeoRadius ==
  /\ query.pc = "idle"
  /\ \E near \in SUBSET {d \in Drivers : geo[d] # None} :
       IF near = {}
         THEN answer' = {} /\ UNCHANGED query
         ELSE /\ query' = [NoQuery EXCEPT !.pc = "scores",
                             !.found = [d \in near |-> geo[d]]]
              /\ UNCHANGED answer
  /\ UNCHANGED <<reports, jobs, geo, meta, age, clean, failures>>

\* zmscore: a driver without a score, or with one before the cutoff, is left
\* out.
ReadScores ==
  LET active == {d \in DOMAIN query.found :
                   age[d] # Absent /\ age[d] <= Idle + query.lag}
  IN /\ query.pc = "scores"
     /\ IF active = {}
          THEN answer' = {} /\ query' = NoQuery
          ELSE /\ query' = [query EXCEPT !.pc = "metadata", !.active = active]
               /\ UNCHANGED answer
     /\ UNCHANGED <<reports, jobs, geo, meta, age, clean, failures>>

\* hmget, and the answer.
ReadMetadata ==
  /\ query.pc = "metadata"
  /\ answer' = {[driver |-> d, location |-> query.found[d], metadata |-> meta[d]] :
                  d \in query.active}
  /\ query' = NoQuery
  /\ UNCHANGED <<reports, jobs, geo, meta, age, clean, failures>>

Next ==
  \/ \E d \in Drivers : UpsertDriverLocation(d)
  \/ \E j \in jobs : TakeJob(j) \/ HandleUpsertLocation(j) \/ UpsertFails(j)
  \/ Tick
  \/ CleanupStarts \/ ReadStale \/ RemoveStale \/ CleanupFails
  \/ GeoRadius \/ ReadScores \/ ReadMetadata

Spec == Init /\ [][Next]_vars

\* The scheduler repeats the cleanup job, and a job that was started goes on.
FairSpec == Spec /\ WF_vars(CleanupStarts) /\ WF_vars(ReadStale \/ RemoveStale)

-----------------------------------------------------------------------------
(***************************************************************************)
(* Properties.                                                             *)
(***************************************************************************)

\* The variables keep their types; a batch of the cleanup is never larger
\* than its limit, nor a cleanup that removes without drivers to remove.
TypeOK ==
  /\ reports \in [Drivers -> 0 .. MaxReports]
  /\ jobs \subseteq Job
  /\ geo \in [Drivers -> 0 .. MaxReports] /\ meta \in [Drivers -> 0 .. MaxReports]
  /\ age \in [Drivers -> 0 .. Absent]
  /\ clean.pc \in {"idle", "read", "remove"} /\ clean.lag \in 0 .. MaxLag
  /\ clean.ids \subseteq Drivers /\ Cardinality(clean.ids) <= Batch
  /\ clean.pc = "remove" <=> clean.ids # {}
  /\ query.pc \in {"idle", "scores", "metadata"} /\ query.lag \in 0 .. MaxLag
  /\ query.active \subseteq DOMAIN query.found
  /\ failures \in 0 .. MaxFailures

\* The stored location of a driver never goes back to an earlier report,
\* though five jobs run at a time: the fixed job id keeps two jobs of one
\* driver from racing.
StoredInOrder ==
  [][ \A d \in Drivers : geo'[d] # None => geo'[d] >= geo[d] ]_vars

\* The age of a driver in an answer is not older than its location: the
\* metadata read last is of the same report, of a later one, or missing.
AnswerIsCoherent ==
  \A a \in answer : a.metadata # None => a.metadata >= a.location

\* A cleanup that ended without a failure has left no driver that was stale
\* when it began, however many batches that took and whoever reported
\* meanwhile.
CleanupIsComplete ==
  [][ clean.pc # "idle" /\ clean'.pc = "idle" /\ failures' = failures =>
        \A d \in Drivers : age'[d] # Absent => age'[d] < Idle + clean.lag ]_vars

\* A driver that stops reporting disappears from the search.
IdleDriverIsRemoved ==
  \A d \in Drivers :
    (age[d] \in Idle .. MaxAge) ~> (age[d] = Absent \/ age[d] < Idle)
=============================================================================
