------------------------ MODULE DriverLocationProofs ------------------------
(***************************************************************************)
(* Proofs about DriverLocation, for any drivers, batch size, idle time and *)
(* numbers of reports and failures.                                        *)
(***************************************************************************)
EXTENDS DriverLocation, FiniteSetTheorems, TLAPS

(***************************************************************************)
(* The inductive invariants.                                               *)
(***************************************************************************)

QueueJob == [driver : Drivers, report : Nat, state : {"waiting", "active", "failed"}]

Found == UNION {[S -> Nat] : S \in SUBSET Drivers}

Query == [pc : {"idle", "scores", "metadata"}, lag : Nat, found : Found,
          active : SUBSET Drivers]

\* The types of what the reports and the search use.
StoreTypeInv ==
  /\ reports \in [Drivers -> Nat]
  /\ jobs \subseteq QueueJob
  /\ geo \in [Drivers -> Nat]
  /\ meta \in [Drivers -> Nat]
  /\ query \in Query

\* A driver has one job, of a report it made; what is still to be stored is
\* newer than all that is stored, and than all that the search has read.
StoreInv ==
  /\ StoreTypeInv
  /\ meta = geo
  /\ \A d \in Drivers : geo[d] <= reports[d]
  /\ \A j, k \in jobs : j.driver = k.driver => j = k
  /\ \A j \in jobs :
       /\ j.report <= reports[j.driver]
       /\ j.state # "failed" => j.report > geo[j.driver]

\* The location that the search has found is not newer than the stored one.
SearchInv ==
  /\ query.active \subseteq DOMAIN query.found
  /\ \A d \in DOMAIN query.found :
       /\ query.found[d] <= reports[d]
       /\ geo[d] # None => query.found[d] <= geo[d]
  /\ \A j \in jobs :
       j.state # "failed" /\ j.driver \in DOMAIN query.found =>
         query.found[j.driver] < j.report
  /\ AnswerIsCoherent

\* A batch that is not full holds every driver that was stale.
CleanupInv ==
  /\ age \in [Drivers -> 0 .. Absent]
  /\ clean \in [pc : {"idle", "read", "remove"}, lag : 0 .. MaxLag,
                ids : SUBSET Drivers]
  /\ clean.pc = "remove" /\ Cardinality(clean.ids) < Batch =>
       \A d \in Drivers \ clean.ids :
         age[d] # Absent => age[d] < Idle + clean.lag

-----------------------------------------------------------------------------
(***************************************************************************)
(* Reports and the search.                                                 *)
(***************************************************************************)

StoreVars == <<reports, jobs, geo, meta>>

\* The search has not begun.
LEMMA NoQueryType ==
  /\ NoQuery \in Query /\ NoQuery.pc = "idle"
  /\ NoQuery.active = {} /\ DOMAIN NoQuery.found = {}
<1>1. << >> \in [{} -> Nat] /\ DOMAIN << >> = {}
  OBVIOUS
<1>2. << >> \in Found
  BY <1>1 DEF Found
<1> QED
  BY <1>1, <1>2 DEF NoQuery, Query

\* The invariants hold initially.
LEMMA InitStoreInv == Init => StoreInv /\ SearchInv
<1> SUFFICES ASSUME Init PROVE StoreInv /\ SearchInv
  OBVIOUS
<1>1. StoreInv
  BY NoQueryType DEF Init, StoreInv, StoreTypeInv, None
<1>2. SearchInv
  BY NoQueryType DEF Init, SearchInv, AnswerIsCoherent
<1> QED
  BY <1>1, <1>2

\* Locations do not go back while the rest of the state moves.
InOrder == \A d \in Drivers : geo'[d] # None => geo'[d] >= geo[d]

\* A step that leaves the store alone.
LEMMA StoreAlone ==
  ASSUME StoreInv, UNCHANGED StoreVars, query' \in Query
  PROVE  StoreInv' /\ InOrder
BY DEF StoreInv, StoreTypeInv, StoreVars, InOrder

\* A step that leaves the search alone, too.
LEMMA SearchAlone ==
  ASSUME StoreInv, SearchInv, UNCHANGED StoreVars, UNCHANGED answer,
         query'.active = query.active, query'.found = query.found
  PROVE  SearchInv'
BY DEF SearchInv, StoreVars, AnswerIsCoherent

\* A driver reports: a new job is of the newest report.
LEMMA UpsertKept ==
  ASSUME StoreInv, SearchInv, NEW d \in Drivers, UpsertDriverLocation(d)
  PROVE  StoreInv' /\ SearchInv' /\ InOrder
<1>1. UNCHANGED <<geo, meta, query, answer>>
  BY DEF UpsertDriverLocation, MayReport
<1>2. /\ reports' \in [Drivers -> Nat] /\ reports[d] \in Nat
      /\ reports'[d] = reports[d] + 1
      /\ \A e \in Drivers \ {d} : reports'[e] = reports[e]
  BY DEF UpsertDriverLocation, MayReport, StoreInv, StoreTypeInv
<1>3. PICK j : j = [driver |-> d, report |-> reports[d] + 1, state |-> "waiting"]
  OBVIOUS
<1>4. /\ j \in QueueJob /\ j.driver = d /\ j.report = reports[d] + 1
      /\ j.state # "failed"
  BY <1>2, <1>3 DEF QueueJob
<1>5. \/ jobs' = jobs
      \/ jobs' = jobs \cup {j} /\ \A k \in jobs : k.driver # d
  BY <1>3 DEF UpsertDriverLocation, MayReport
<1>6. /\ \A e \in Drivers : geo[e] \in Nat /\ reports[e] \in Nat /\ geo[e] <= reports[e]
      /\ \A k \in jobs : k \in QueueJob /\ k.driver \in Drivers /\ k.report \in Nat
      /\ jobs' \subseteq QueueJob
  BY <1>4, <1>5 DEF StoreInv, StoreTypeInv, QueueJob
<1>7. \A e \in Drivers : reports[e] <= reports'[e] /\ reports'[e] \in Nat
  BY <1>2, <1>6
<1>8. \A k \in jobs' :
        /\ k.report <= reports'[k.driver]
        /\ k.state # "failed" => k.report > geo[k.driver]
  <2> TAKE k \in jobs'
  <2>1. CASE k \in jobs
    <3>1. /\ k.report <= reports[k.driver]
          /\ k.state # "failed" => k.report > geo[k.driver]
      BY <2>1 DEF StoreInv
    <3> QED
      BY <1>6, <1>7, <2>1, <3>1
  <2>2. CASE k = j
    BY <1>2, <1>4, <1>6, <2>2
  <2> QED
    BY <1>5, <2>1, <2>2
<1>9. StoreInv'
  <2>1. \A k, l \in jobs' : k.driver = l.driver => k = l
    BY <1>4, <1>5 DEF StoreInv
  <2>2. \A e \in Drivers : geo'[e] <= reports'[e]
    BY <1>1, <1>6, <1>7
  <2> QED
    BY <1>1, <1>2, <1>6, <1>8, <2>1, <2>2 DEF StoreInv, StoreTypeInv
<1>10. \A e \in DOMAIN query.found : e \in Drivers /\ query.found[e] \in Nat
  BY DEF StoreInv, StoreTypeInv, Query, Found
<1>11. SearchInv'
  <2>1. \A e \in DOMAIN query.found : query.found[e] <= reports'[e]
    BY <1>6, <1>7, <1>10 DEF SearchInv
  <2>2. ASSUME NEW k \in jobs', k.state # "failed", k.driver \in DOMAIN query.found
        PROVE  query.found[k.driver] < k.report
    <3>1. CASE k \in jobs
      BY <2>2, <3>1 DEF SearchInv
    <3>2. CASE k = j
      BY <1>2, <1>4, <1>10, <2>2, <3>2 DEF SearchInv
    <3> QED
      BY <1>5, <3>1, <3>2
  <2> QED
    BY <1>1, <2>1, <2>2 DEF SearchInv, AnswerIsCoherent
<1> QED
  BY <1>1, <1>6, <1>9, <1>11 DEF InOrder

\* A job changes its state, and is stored or not: a job that waits or runs is
\* never one that was stored.
LEMMA JobKept ==
  ASSUME StoreInv, SearchInv, NEW j \in jobs, j.state # "failed",
         UNCHANGED <<reports, query, answer>>,
         \/ /\ geo' = [geo EXCEPT ![j.driver] = j.report]
            /\ meta' = [meta EXCEPT ![j.driver] = j.report]
            /\ jobs' = jobs \ {j} \/ jobs' = (jobs \ {j}) \cup {[j EXCEPT !.state = "failed"]}
         \/ /\ UNCHANGED <<geo, meta>>
            /\ \E st \in {"active", "failed"} :
                 jobs' = (jobs \ {j}) \cup {[j EXCEPT !.state = st]}
  PROVE  StoreInv' /\ SearchInv' /\ InOrder
<1>1. /\ j \in QueueJob /\ j.driver \in Drivers /\ j.report \in Nat
      /\ j.report <= reports[j.driver] /\ j.report > geo[j.driver]
      /\ meta = geo /\ geo \in [Drivers -> Nat] /\ reports \in [Drivers -> Nat]
  BY DEF StoreInv, StoreTypeInv, QueueJob
<1>2. PICK k \in QueueJob : /\ k.driver = j.driver /\ k.report = j.report
                            /\ jobs' \subseteq (jobs \ {j}) \cup {k}
                            /\ geo' # geo => k.state = "failed" \/ k \notin jobs'
  <2>1. CASE jobs' = jobs \ {j}
    BY <1>1, <2>1
  <2>2. CASE \E st \in {"active", "failed"} :
               /\ jobs' = (jobs \ {j}) \cup {[j EXCEPT !.state = st]}
               /\ geo' # geo => st = "failed"
    <3>1. PICK st \in {"active", "failed"} :
            /\ jobs' = (jobs \ {j}) \cup {[j EXCEPT !.state = st]}
            /\ geo' # geo => st = "failed"
      BY <2>2
    <3>2. PICK k : k = [j EXCEPT !.state = st]
      OBVIOUS
    <3>3. k \in QueueJob /\ k.driver = j.driver /\ k.report = j.report /\ k.state = st
      BY <1>1, <3>2 DEF QueueJob
    <3> QED
      BY <3>1, <3>2, <3>3
  <2> QED
    BY <2>1, <2>2
<1>3. /\ geo' \in [Drivers -> Nat] /\ meta' = geo'
      /\ \A d \in Drivers : d # j.driver => geo'[d] = geo[d]
      /\ geo'[j.driver] \in {geo[j.driver], j.report}
      /\ geo'[j.driver] = geo[j.driver] => geo' = geo
  BY <1>1
<1>4. \A i \in jobs : /\ i \in QueueJob /\ i.report \in Nat /\ i.driver \in Drivers
                      /\ i # j => i.driver # j.driver
  BY DEF StoreInv, StoreTypeInv, QueueJob
<1>5. jobs' \subseteq QueueJob
  BY <1>2, <1>4
<1>6. \A a, b \in jobs' : a.driver = b.driver => a = b
  BY <1>2, <1>4 DEF StoreInv
<1>7. \A i \in jobs' :
        /\ i.report <= reports[i.driver]
        /\ i.state # "failed" => i.report > geo'[i.driver]
  <2> TAKE i \in jobs'
  <2>1. CASE i \in jobs \ {j}
    BY <1>3, <1>4, <2>1 DEF StoreInv
  <2>2. CASE i = k
    BY <1>1, <1>2, <1>3, <2>2
  <2> QED
    BY <1>2, <2>1, <2>2
<1>8. \A d \in Drivers : geo'[d] <= reports[d]
  <2> TAKE d \in Drivers
  <2>1. geo[d] <= reports[d]
    BY DEF StoreInv
  <2> QED
    BY <1>1, <1>3, <2>1
<1>9. StoreInv'
  BY <1>1, <1>3, <1>5, <1>6, <1>7, <1>8 DEF StoreInv, StoreTypeInv
<1>10. InOrder
  <2> SUFFICES ASSUME NEW d \in Drivers, geo'[d] # None PROVE geo'[d] >= geo[d]
    BY DEF InOrder
  <2> QED
    BY <1>1, <1>3
<1>11. \A e \in DOMAIN query.found : e \in Drivers /\ query.found[e] \in Nat
  BY DEF StoreInv, StoreTypeInv, Query, Found
<1>12. \A d \in DOMAIN query.found : geo'[d] # None => query.found[d] <= geo'[d]
  <2> TAKE d \in DOMAIN query.found
  <2>1. CASE d = j.driver /\ geo'[d] = j.report
    <3>1. query.found[d] < j.report
      BY <2>1 DEF SearchInv
    <3> QED
      BY <1>1, <1>11, <2>1, <3>1
  <2>2. CASE geo'[d] = geo[d]
    BY <2>2 DEF SearchInv
  <2> QED
    BY <1>3, <1>11, <2>1, <2>2
<1>13. \A i \in jobs' : i.state # "failed" /\ i.driver \in DOMAIN query.found =>
         query.found[i.driver] < i.report
  <2> TAKE i \in jobs'
  <2>1. CASE i \in jobs \ {j}
    BY <2>1 DEF SearchInv
  <2>2. CASE i = k
    BY <1>2, <2>2 DEF SearchInv
  <2> QED
    BY <1>2, <2>1, <2>2
<1>14. SearchInv'
  BY <1>12, <1>13 DEF SearchInv, AnswerIsCoherent
<1> QED
  BY <1>9, <1>10, <1>14

\* The cleanup removes locations and metadata together.
LEMMA RemoveStaleKept ==
  ASSUME StoreInv, SearchInv, RemoveStale
  PROVE  StoreInv' /\ SearchInv' /\ InOrder
<1>1. UNCHANGED <<reports, jobs, query, answer>>
  BY DEF RemoveStale
<1>2. /\ geo \in [Drivers -> Nat] /\ meta = geo /\ reports \in [Drivers -> Nat]
      /\ \A j \in jobs : j.report \in Nat /\ j.driver \in Drivers
  BY DEF StoreInv, StoreTypeInv, QueueJob
<1>3. /\ geo' \in [Drivers -> Nat] /\ meta' = geo'
      /\ \A d \in Drivers : geo'[d] \in {geo[d], None}
  BY <1>2 DEF RemoveStale, Without, None
<1>4. \A d \in Drivers : geo'[d] <= geo[d]
  BY <1>2, <1>3 DEF None
<1>5. \A d \in Drivers : geo'[d] <= reports[d]
  <2> TAKE d \in Drivers
  <2>1. geo[d] <= reports[d]
    BY DEF StoreInv
  <2> QED
    BY <1>2, <1>3, <1>4, <2>1
<1>6. \A j \in jobs : /\ j.report <= reports[j.driver]
                      /\ j.state # "failed" => j.report > geo'[j.driver]
  <2> TAKE j \in jobs
  <2>1. /\ j.report <= reports[j.driver]
        /\ j.state # "failed" => j.report > geo[j.driver]
    BY DEF StoreInv
  <2> QED
    BY <1>2, <1>3, <1>4, <2>1
<1>7. StoreInv'
  BY <1>1, <1>3, <1>5, <1>6 DEF StoreInv, StoreTypeInv
<1>8. DOMAIN query.found \subseteq Drivers
  BY DEF StoreInv, StoreTypeInv, Query, Found
<1>9. SearchInv'
  BY <1>1, <1>3, <1>8 DEF SearchInv, AnswerIsCoherent
<1>10. InOrder
  BY <1>2, <1>3 DEF InOrder
<1> QED
  BY <1>7, <1>9, <1>10

\* The search reads locations ...
LEMMA GeoRadiusKept ==
  ASSUME StoreInv, SearchInv, GeoRadius
  PROVE  StoreInv' /\ SearchInv' /\ InOrder
<1>1. UNCHANGED StoreVars
  BY DEF GeoRadius, StoreVars
<1>2. PICK near \in SUBSET {d \in Drivers : geo[d] # None} :
        IF near = {}
          THEN answer' = {} /\ UNCHANGED query
          ELSE /\ query' = [NoQuery EXCEPT !.pc = "scores",
                              !.found = [d \in near |-> geo[d]]]
               /\ UNCHANGED answer
  BY DEF GeoRadius
<1>3. CASE near = {}
  <2>1. query' = query /\ answer' = {} /\ query \in Query
    BY <1>2, <1>3 DEF StoreInv, StoreTypeInv
  <2>2. SearchInv'
    BY <1>1, <2>1 DEF SearchInv, AnswerIsCoherent, StoreVars
  <2> QED
    BY <1>1, <2>1, <2>2, StoreAlone
<1>4. CASE near # {}
  <2>1. PICK f : f = [d \in near |-> geo[d]]
    OBVIOUS
  <2>2. near \subseteq Drivers /\ geo \in [Drivers -> Nat]
    BY DEF StoreInv, StoreTypeInv
  <2>3. f \in [near -> Nat] /\ DOMAIN f = near /\ \A d \in near : f[d] = geo[d]
    BY <2>1, <2>2
  <2>4. f \in Found
    BY <2>2, <2>3 DEF Found
  <2>5. query' = [NoQuery EXCEPT !.pc = "scores", !.found = f] /\ answer' = answer
    BY <1>2, <1>4, <2>1
  <2>6. query' \in Query /\ query'.found = f /\ query'.active = {}
    BY <2>4, <2>5, NoQueryType DEF Query
  <2>7. \A d \in near : f[d] <= reports[d] /\ f[d] <= geo[d]
    BY <2>2, <2>3 DEF StoreInv
  <2>8. \A j \in jobs : j.state # "failed" /\ j.driver \in near => f[j.driver] < j.report
    <3> TAKE j \in jobs
    <3> SUFFICES ASSUME j.state # "failed", j.driver \in near
                 PROVE  f[j.driver] < j.report
      OBVIOUS
    <3>1. j.report > geo[j.driver] /\ j.report \in Nat /\ geo[j.driver] \in Nat
      BY <2>2 DEF StoreInv, StoreTypeInv, QueueJob
    <3> QED
      BY <2>3, <3>1
  <2>9. SearchInv'
    BY <1>1, <2>3, <2>5, <2>6, <2>7, <2>8 DEF SearchInv, AnswerIsCoherent, StoreVars
  <2> QED
    BY <1>1, <2>6, <2>9, StoreAlone
<1> QED
  BY <1>3, <1>4

\* ... then the scores ...
LEMMA ReadScoresKept ==
  ASSUME StoreInv, SearchInv, ReadScores
  PROVE  StoreInv' /\ SearchInv' /\ InOrder
<1>1. UNCHANGED StoreVars /\ query \in Query
  BY DEF ReadScores, StoreVars, StoreInv, StoreTypeInv
<1>2. PICK act \in SUBSET DOMAIN query.found :
        \/ answer' = {} /\ query' = NoQuery
        \/ query' = [query EXCEPT !.pc = "metadata", !.active = act] /\ answer' = answer
  <2>1. PICK act : act = {d \in DOMAIN query.found :
                            age[d] # Absent /\ age[d] <= Idle + query.lag}
    OBVIOUS
  <2>2. act \in SUBSET DOMAIN query.found
    BY <2>1
  <2>3. \/ answer' = {} /\ query' = NoQuery
        \/ query' = [query EXCEPT !.pc = "metadata", !.active = act] /\ answer' = answer
    BY <2>1 DEF ReadScores
  <2> QED
    BY <2>2, <2>3
<1>3. CASE answer' = {} /\ query' = NoQuery
  <2>1. SearchInv'
    BY <1>3, NoQueryType DEF SearchInv, AnswerIsCoherent
  <2> QED
    BY <1>1, <1>3, <2>1, NoQueryType, StoreAlone
<1>4. CASE query' = [query EXCEPT !.pc = "metadata", !.active = act] /\ answer' = answer
  <2>1. DOMAIN query.found \subseteq Drivers
    BY <1>1 DEF Query, Found
  <2>2. query' \in Query /\ query'.found = query.found /\ query'.active = act
    BY <1>1, <1>2, <1>4, <2>1 DEF Query
  <2>3. SearchInv'
    BY <1>1, <1>2, <1>4, <2>2 DEF SearchInv, AnswerIsCoherent, StoreVars
  <2> QED
    BY <1>1, <2>2, <2>3, StoreAlone
<1> QED
  BY <1>2, <1>3, <1>4

\* ... and the metadata, which is not older than the location.
LEMMA ReadMetadataKept ==
  ASSUME StoreInv, SearchInv, ReadMetadata
  PROVE  StoreInv' /\ SearchInv' /\ InOrder
<1>1. UNCHANGED StoreVars /\ query' = NoQuery /\ meta = geo
  BY DEF ReadMetadata, StoreVars, StoreInv
<1>2. ASSUME NEW a \in answer', a.metadata # None
      PROVE  a.metadata >= a.location
  <2>1. PICK d \in query.active :
          a = [driver |-> d, location |-> query.found[d], metadata |-> meta[d]]
    BY DEF ReadMetadata
  <2>2. d \in DOMAIN query.found /\ a.location = query.found[d] /\ a.metadata = geo[d]
    BY <1>1, <2>1 DEF SearchInv
  <2>3. d \in Drivers /\ query.found[d] \in Nat /\ geo[d] \in Nat
    BY <2>2 DEF StoreInv, StoreTypeInv, Query, Found
  <2>4. query.found[d] <= geo[d]
    BY <1>2, <2>2 DEF SearchInv
  <2> QED
    BY <2>2, <2>3, <2>4
<1>3. SearchInv'
  BY <1>1, <1>2, NoQueryType DEF SearchInv, AnswerIsCoherent
<1> QED
  BY <1>1, <1>3, NoQueryType, StoreAlone

\* Time passes for every score alike.
LEMMA TickKept ==
  ASSUME StoreInv, SearchInv, Tick
  PROVE  StoreInv' /\ SearchInv' /\ InOrder
<1>1. UNCHANGED StoreVars /\ UNCHANGED answer /\ query \in Query
  BY DEF Tick, StoreVars, StoreInv, StoreTypeInv
<1>2. query' \in Query /\ query'.active = query.active /\ query'.found = query.found
  <2>1. query.lag + 1 \in Nat
    BY <1>1 DEF Query
  <2> QED
    BY <1>1, <2>1 DEF Tick, Query
<1> QED
  BY <1>1, <1>2, StoreAlone, SearchAlone

\* Every step keeps both invariants and the order of the locations.
LEMMA NextStoreInv ==
  ASSUME StoreInv, SearchInv, [Next]_vars
  PROVE  StoreInv' /\ SearchInv' /\ InOrder
<1>1. ASSUME NEW d \in Drivers, UpsertDriverLocation(d)
      PROVE  StoreInv' /\ SearchInv' /\ InOrder
  BY <1>1, UpsertKept
<1>2. ASSUME NEW j \in jobs, TakeJob(j)
      PROVE  StoreInv' /\ SearchInv' /\ InOrder
  BY <1>2, JobKept DEF TakeJob
<1>3. ASSUME NEW j \in jobs, HandleUpsertLocation(j)
      PROVE  StoreInv' /\ SearchInv' /\ InOrder
  BY <1>3, JobKept DEF HandleUpsertLocation, StoreDriverLocation
<1>4. ASSUME NEW j \in jobs, UpsertFails(j)
      PROVE  StoreInv' /\ SearchInv' /\ InOrder
  BY <1>4, JobKept DEF UpsertFails, StoreDriverLocation
<1>5. CASE CleanupStarts \/ ReadStale \/ CleanupFails \/ UNCHANGED vars
  <2>1. UNCHANGED StoreVars /\ UNCHANGED <<query, answer>>
    BY <1>5 DEF CleanupStarts, ReadStale, CleanupFails, vars, StoreVars
  <2>2. query' \in Query
    BY <2>1 DEF StoreInv, StoreTypeInv
  <2> QED
    BY <2>1, <2>2, StoreAlone, SearchAlone
<1> QED
  BY <1>1, <1>2, <1>3, <1>4, <1>5, TickKept, RemoveStaleKept, GeoRadiusKept,
     ReadScoresKept, ReadMetadataKept DEF Next

-----------------------------------------------------------------------------
(***************************************************************************)
(* The cleanup.                                                            *)
(***************************************************************************)

\* ids is all of the stale drivers when it is less than a batch.
LEMMA SmallBatch ==
  ASSUME NEW stale \in SUBSET Drivers,
         NEW ids \in kSubset(Min({Batch, Cardinality(stale)}), stale),
         Cardinality(ids) < Batch
  PROVE  ids = stale
<1>1. IsFiniteSet(stale)
  BY LocationAssumption, FS_Subset
<1>2. Cardinality(stale) \in Nat /\ Batch \in Nat
  BY <1>1, FS_CardinalityType, LocationAssumption
<1>3. PICK n : n = Cardinality(stale)
  OBVIOUS
<1>4. \E x \in {Batch, n} : \A y \in {Batch, n} : x =< y
  BY <1>2, <1>3
<1>5. Min({Batch, n}) \in {Batch, n}
  BY <1>4 DEF Min
<1>6. ids \in SUBSET stale /\ Cardinality(ids) = Min({Batch, n})
  BY <1>3 DEF kSubset
<1>7. Cardinality(ids) = n
  BY <1>2, <1>5, <1>6
<1> QED
  BY <1>1, <1>3, <1>6, <1>7, FS_Subset

\* The cleanup that does not run has the type of one.
LEMMA NoCleanupType ==
  /\ NoCleanup \in [pc : {"idle", "read", "remove"}, lag : 0 .. MaxLag,
                    ids : SUBSET Drivers]
  /\ NoCleanup.pc = "idle" /\ NoCleanup.lag = 0 /\ NoCleanup.ids = {}
BY LocationAssumption DEF NoCleanup

\* No cleanup runs initially.
LEMMA InitCleanupInv == Init => CleanupInv
<1>1. Absent \in 0 .. Absent
  BY LocationAssumption DEF Absent, MaxAge
<1> QED
  BY <1>1, NoCleanupType DEF Init, CleanupInv

\* The bounds that the arithmetic of the cleanup uses.
LEMMA AgeBounds ==
  /\ Idle \in Nat /\ Idle > 0 /\ MaxLag \in Nat /\ Batch \in Nat
  /\ MaxAge = Idle + MaxLag /\ Absent = MaxAge + 1
  /\ MaxAge \in Nat /\ Absent \in Nat /\ 0 \in 0 .. Absent /\ Absent \in 0 .. Absent
BY LocationAssumption DEF MaxAge, Absent

\* A report that is stored makes its driver young.
LEMMA StoredYoung ==
  ASSUME CleanupInv, UNCHANGED clean, NEW d, age' = [age EXCEPT ![d] = 0]
  PROVE  CleanupInv'
<1>1. age' \in [Drivers -> 0 .. Absent] /\ \A e \in Drivers : age'[e] \in {age[e], 0}
  BY AgeBounds DEF CleanupInv
<1>2. clean.lag \in Nat
  BY AgeBounds DEF CleanupInv
<1>3. 0 < Idle + clean.lag
  BY <1>2, AgeBounds
<1> QED
  BY <1>1, <1>3 DEF CleanupInv

\* Time passes alike for the drivers and for the cleanup.
LEMMA TickCleanup ==
  ASSUME CleanupInv, Tick
  PROVE  CleanupInv'
<1>1. /\ age \in [Drivers -> 0 .. Absent] /\ clean.lag \in 0 .. MaxLag
      /\ clean \in [pc : {"idle", "read", "remove"}, lag : 0 .. MaxLag,
                    ids : SUBSET Drivers]
  BY DEF CleanupInv
<1>2. \A d \in Drivers : age'[d] = IF age[d] < MaxAge THEN age[d] + 1 ELSE age[d]
  BY DEF Tick
<1>3. \A d \in Drivers : age[d] \in 0 .. Absent
  BY <1>1
<1>4. \A d \in Drivers : age'[d] \in 0 .. Absent
  BY <1>2, <1>3, AgeBounds
<1>5. age' \in [Drivers -> 0 .. Absent]
  BY <1>4 DEF Tick
<1>6. CASE clean.pc = "idle"
  <2>1. clean' = clean
    BY <1>6 DEF Tick
  <2> QED
    BY <1>1, <1>5, <1>6, <2>1 DEF CleanupInv
<1>7. CASE clean.pc # "idle"
  <2>1. clean' = [clean EXCEPT !.lag = clean.lag + 1] /\ clean.lag < MaxLag
    BY <1>7 DEF Tick
  <2>2. clean.lag + 1 \in 0 .. MaxLag
    BY <1>1, <2>1, AgeBounds
  <2>3. /\ clean' \in [pc : {"idle", "read", "remove"}, lag : 0 .. MaxLag,
                       ids : SUBSET Drivers]
        /\ clean'.pc = clean.pc /\ clean'.ids = clean.ids
        /\ clean'.lag = clean.lag + 1
    BY <1>1, <2>1, <2>2
  <2>4. ASSUME NEW d \in Drivers, age'[d] # Absent,
               age[d] # Absent => age[d] < Idle + clean.lag
        PROVE  age'[d] < Idle + clean'.lag
    <3>1. age[d] \in Nat /\ age[d] \in 0 .. Absent /\ clean.lag \in Nat
      BY <1>1, <1>3, AgeBounds
    <3>2. age[d] # Absent
      BY <1>2, <2>4, <3>1, AgeBounds
    <3>3. age[d] < Idle + clean.lag
      BY <2>4, <3>2
    <3>4. age'[d] <= age[d] + 1
      BY <1>2, <3>1
    <3>5. age'[d] \in Nat
      BY <1>4, AgeBounds
    <3> QED
      BY <2>3, <3>1, <3>3, <3>4, <3>5, AgeBounds
  <2> QED
    BY <1>5, <2>3, <2>4 DEF CleanupInv
<1> QED
  BY <1>6, <1>7

\* A batch of stale drivers is read.
LEMMA ReadStaleCleanup ==
  ASSUME CleanupInv, ReadStale
  PROVE  CleanupInv'
<1>1. /\ age \in [Drivers -> 0 .. Absent] /\ UNCHANGED age
      /\ clean \in [pc : {"idle", "read", "remove"}, lag : 0 .. MaxLag,
                    ids : SUBSET Drivers]
  BY DEF CleanupInv, ReadStale
<1>2. PICK stale : stale = Stale(clean.lag)
  OBVIOUS
<1>3. stale \in SUBSET Drivers
  BY <1>2 DEF Stale
<1>4. CASE clean' = NoCleanup
  BY <1>1, <1>4, NoCleanupType DEF CleanupInv
<1>5. ASSUME NEW ids \in kSubset(Min({Batch, Cardinality(stale)}), stale),
             clean' = [clean EXCEPT !.pc = "remove", !.ids = ids]
      PROVE  CleanupInv'
  <2>1. ids \in SUBSET Drivers
    BY <1>3 DEF kSubset
  <2>2. /\ clean' \in [pc : {"idle", "read", "remove"}, lag : 0 .. MaxLag,
                       ids : SUBSET Drivers]
        /\ clean'.pc = "remove" /\ clean'.ids = ids /\ clean'.lag = clean.lag
    BY <1>1, <1>5, <2>1
  <2>3. ASSUME Cardinality(ids) < Batch, NEW d \in Drivers \ ids, age[d] # Absent
        PROVE  age[d] < Idle + clean.lag
    <3>1. ids = stale
      BY <1>3, <2>3, SmallBatch
    <3>2. ~(age[d] >= Idle + clean.lag)
      BY <1>2, <2>3, <3>1 DEF Stale
    <3>3. age[d] \in Nat /\ clean.lag \in Nat
      BY <1>1, AgeBounds
    <3> QED
      BY <3>2, <3>3, AgeBounds
  <2> QED
    BY <1>1, <2>2, <2>3 DEF CleanupInv
<1> QED
  BY <1>2, <1>4, <1>5 DEF ReadStale

\* A batch is removed; after a full one the cleanup reads again.
LEMMA RemoveStaleCleanup ==
  ASSUME CleanupInv, RemoveStale
  PROVE  CleanupInv'
<1>1. age' \in [Drivers -> 0 .. Absent]
  BY AgeBounds DEF CleanupInv, RemoveStale, Without
<1>2. CASE clean' = NoCleanup
  BY <1>1, <1>2, NoCleanupType DEF CleanupInv
<1>3. CASE clean' = [clean EXCEPT !.pc = "read", !.ids = {}]
  <2>1. /\ clean' \in [pc : {"idle", "read", "remove"}, lag : 0 .. MaxLag,
                       ids : SUBSET Drivers]
        /\ clean'.pc = "read"
    BY <1>3 DEF CleanupInv
  <2> QED
    BY <1>1, <2>1 DEF CleanupInv
<1> QED
  BY <1>2, <1>3 DEF RemoveStale

\* Every step keeps CleanupInv.
LEMMA NextCleanupInv == CleanupInv /\ [Next]_vars => CleanupInv'
<1> SUFFICES ASSUME CleanupInv, [Next]_vars PROVE CleanupInv'
  OBVIOUS
<1>1. CASE UNCHANGED <<age, clean>>
  BY <1>1 DEF CleanupInv
<1>2. ASSUME NEW d \in Drivers, UpsertDriverLocation(d) PROVE CleanupInv'
  BY <1>1, <1>2 DEF UpsertDriverLocation, MayReport
<1>3. ASSUME NEW j \in jobs, TakeJob(j) PROVE CleanupInv'
  BY <1>1, <1>3 DEF TakeJob
<1>4. ASSUME NEW j \in jobs, HandleUpsertLocation(j) \/ UpsertFails(j) PROVE CleanupInv'
  BY <1>1, <1>4, StoredYoung DEF HandleUpsertLocation, UpsertFails, StoreDriverLocation
<1>5. CASE CleanupStarts
  <2>1. /\ clean' \in [pc : {"idle", "read", "remove"}, lag : 0 .. MaxLag,
                       ids : SUBSET Drivers]
        /\ clean'.pc = "read" /\ UNCHANGED age
    BY <1>5, NoCleanupType DEF CleanupStarts
  <2> QED
    BY <2>1 DEF CleanupInv
<1>6. CASE CleanupFails
  BY <1>6, NoCleanupType DEF CleanupFails, CleanupInv
<1>7. CASE GeoRadius \/ ReadScores \/ ReadMetadata \/ UNCHANGED vars
  BY <1>1, <1>7 DEF GeoRadius, ReadScores, ReadMetadata, vars
<1> QED
  BY <1>2, <1>3, <1>4, <1>5, <1>6, <1>7, TickCleanup, ReadStaleCleanup,
     RemoveStaleCleanup DEF Next

\* Failures are counted.
FailuresInv == failures \in Nat

\* What CleanupIsComplete says of one step.
CompleteStep ==
  clean.pc # "idle" /\ clean'.pc = "idle" /\ failures' = failures =>
    \A d \in Drivers : age'[d] # Absent => age'[d] < Idle + clean.lag

\* A cleanup ends in ReadStale, when nobody is left, in RemoveStale, after a
\* batch that was not full, or by a failure.
LEMMA NextComplete ==
  ASSUME CleanupInv, FailuresInv, [Next]_vars
  PROVE  CompleteStep
<1> SUFFICES ASSUME clean.pc # "idle", clean'.pc = "idle", failures' = failures,
                    NEW d \in Drivers, age'[d] # Absent
             PROVE  age'[d] < Idle + clean.lag
  BY DEF CompleteStep
<1>1. age[d] \in Nat /\ clean.lag \in Nat /\ age \in [Drivers -> 0 .. Absent]
  BY AgeBounds DEF CleanupInv
<1>2. CASE ReadStale
  <2>1. UNCHANGED age
    BY <1>2 DEF ReadStale
  <2>2. Stale(clean.lag) = {}
    <3>1. ASSUME NEW ids PROVE [clean EXCEPT !.pc = "remove", !.ids = ids].pc = "remove"
      BY DEF CleanupInv
    <3> QED
      BY <1>2, <3>1 DEF ReadStale
  <2>3. ~(age[d] >= Idle + clean.lag)
    BY <2>1, <2>2 DEF Stale
  <2> QED
    BY <1>1, <2>1, <2>3, AgeBounds
<1>3. CASE RemoveStale
  <2>1. Cardinality(clean.ids) < Batch
    <3>1. [clean EXCEPT !.pc = "read", !.ids = {}].pc = "read"
      BY DEF CleanupInv
    <3> QED
      BY <1>3, <3>1 DEF RemoveStale
  <2>2. d \notin clean.ids /\ age'[d] = age[d]
    BY <1>3 DEF RemoveStale, Without
  <2> QED
    BY <1>3, <2>1, <2>2 DEF CleanupInv, RemoveStale
<1>4. CASE CleanupFails
  BY <1>4 DEF CleanupFails, FailuresInv
<1>5. CASE Tick
  <2>1. clean' = [clean EXCEPT !.lag = clean.lag + 1]
    BY <1>5 DEF Tick
  <2>2. clean'.pc = clean.pc
    BY <2>1 DEF CleanupInv
  <2> QED
    BY <2>2
<1>6. CASE UNCHANGED clean
  BY <1>6
<1> QED
  BY <1>2, <1>3, <1>4, <1>5, <1>6
     DEF Next, vars, UpsertDriverLocation, TakeJob, HandleUpsertLocation, UpsertFails,
         CleanupStarts, GeoRadius, ReadScores, ReadMetadata

\* Failures are counted.
LEMMA NextFailuresInv == FailuresInv /\ [Next]_vars => FailuresInv'
<1> SUFFICES ASSUME failures \in Nat, [Next]_vars
             PROVE  failures' = failures \/ failures' = failures + 1
  BY DEF FailuresInv
<1>1. ASSUME NEW j \in jobs, TakeJob(j) \/ HandleUpsertLocation(j) \/ UpsertFails(j)
      PROVE  failures' = failures \/ failures' = failures + 1
  BY <1>1 DEF TakeJob, HandleUpsertLocation, UpsertFails
<1>2. CASE Tick \/ CleanupStarts \/ ReadStale \/ RemoveStale \/ CleanupFails
  BY <1>2 DEF Tick, CleanupStarts, ReadStale, RemoveStale, CleanupFails
<1>3. CASE GeoRadius \/ ReadScores \/ ReadMetadata \/ UNCHANGED vars
  BY <1>3 DEF GeoRadius, ReadScores, ReadMetadata, vars
<1> QED
  BY <1>1, <1>2, <1>3 DEF Next, UpsertDriverLocation

-----------------------------------------------------------------------------
(***************************************************************************)
(* The theorems.                                                           *)
(***************************************************************************)

\* StoreInv holds in every reachable state.
LEMMA SpecStoreInv == Spec => [](StoreInv /\ SearchInv)
<1>1. StoreInv /\ SearchInv /\ [Next]_vars => (StoreInv /\ SearchInv)'
  BY NextStoreInv
<1> QED
  BY <1>1, InitStoreInv, PTL DEF Spec

\* The location of a driver in Redis never goes back to an earlier report,
\* although several workers run jobs at a time: the job id of
\* upsertDriverLocation is the driver's, so that one job of a driver exists.
THEOREM StoredInOrderCorrect == Spec => StoredInOrder
<1>1. StoreInv /\ SearchInv /\ [Next]_vars => [InOrder]_vars
  BY NextStoreInv
<1>2. Spec => [][InOrder]_vars
  BY <1>1, SpecStoreInv, PTL DEF Spec
<1> QED
  BY <1>2 DEF StoredInOrder, InOrder

\* The metadata that getNearbyDrivers reads with its third command is not older
\* than the location that it read with its first one.
THEOREM AnswerIsCoherentCorrect == Spec => []AnswerIsCoherent
<1>1. SearchInv => AnswerIsCoherent
  BY DEF SearchInv
<1> QED
  BY <1>1, SpecStoreInv, PTL

\* A cleanup that ends without a failure leaves no driver that was idle when it
\* began, for every batch size and however many drivers were idle.
THEOREM CleanupIsCompleteCorrect == Spec => CleanupIsComplete
<1>1. Init => CleanupInv /\ FailuresInv
  BY InitCleanupInv DEF Init, FailuresInv
<1>2. CleanupInv /\ FailuresInv /\ [Next]_vars => CleanupInv' /\ FailuresInv'
  BY NextCleanupInv, NextFailuresInv
<1>3. CleanupInv /\ FailuresInv /\ [Next]_vars => [CompleteStep]_vars
  BY NextComplete
<1>4. Spec => [][CompleteStep]_vars
  BY <1>1, <1>2, <1>3, PTL DEF Spec
<1> QED
  BY <1>4 DEF CleanupIsComplete, CompleteStep
=============================================================================
