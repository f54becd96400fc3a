------------------------- MODULE TripTrackingProofs -------------------------
(***************************************************************************)
(* Proofs about TripTracking, for any number of reports, flushes and       *)
(* failures.  That the driver's phone waits for each answer, and that one  *)
(* worker flushes, are hypotheses of the theorems that need them.          *)
(***************************************************************************)
EXTENDS TripTracking, SequenceTheorems, WellFoundedInduction, TLAPS

-----------------------------------------------------------------------------
(***************************************************************************)
(* Facts about sequences of events.                                        *)
(***************************************************************************)

\* A set of indices has a largest one.
LEMMA LargestIndex ==
  ASSUME NEW n \in Nat, NEW S \in SUBSET (1 .. n), S # {}
  PROVE  /\ Max(S) \in S
         /\ \A i \in S : i <= Max(S)
<1> DEFINE T == {n - i : i \in S}
           Less == OpToRel(<, Nat)
<1>1. T \subseteq Nat /\ T # {}
  <2>1. ASSUME NEW i \in S PROVE n - i \in Nat
    <3>1. i \in 1 .. n
      OBVIOUS
    <3> QED
      BY <3>1
  <2> QED
    BY <2>1
<1>2. PICK x \in T : \A y \in T : ~ (<<y, x>> \in Less)
  <2>1. IsWellFoundedOn(Less, Nat)
    BY NatLessThanWellFounded
  <2> HIDE DEF T, Less
  <2> QED
    BY <1>1, <2>1, WFMin
<1>3. \A y \in T : ~ (y < x)
  BY <1>1, <1>2 DEF OpToRel
<1>4. PICK m \in S : x = n - m
  BY <1>2
<1>5. ASSUME NEW i \in S PROVE m >= i
  <2>1. n - i \in T
    OBVIOUS
  <2>2. ~ (n - i < n - m)
    BY <1>3, <1>4, <2>1
  <2>3. i \in Int /\ m \in Int
    OBVIOUS
  <2> QED
    BY <2>2, <2>3
<1>6. \E k \in S : \A i \in S : k >= i
  BY <1>5
<1>7. /\ Max(S) \in S
      /\ \A i \in S : Max(S) >= i
  <2> HIDE DEF T
  <2> QED
    BY <1>6 DEF Max
<1>8. S \subseteq Int
  OBVIOUS
<1> QED
  BY <1>7, <1>8

\* The index of the last driver event is characterised by what it is.
LEMMA MaxIs ==
  ASSUME NEW n \in Nat, NEW S \in SUBSET (1 .. n), NEW m \in S, \A i \in S : i <= m
  PROVE  Max(S) = m
<1>1. Max(S) \in S /\ \A i \in S : i <= Max(S)
  BY LargestIndex
<1>2. PICK k \in S : k = Max(S) /\ \A i \in S : i <= k
  BY <1>1
<1>3. k <= m /\ m <= k
  BY <1>2
<1>4. k \in Int /\ m \in Int
  OBVIOUS
<1> QED
  BY <1>2, <1>3, <1>4

\* The last driver event of a sequence is one of its events.
LEMMA LastTotalType ==
  ASSUME NEW s \in Seq(Event)
  PROVE  /\ LastTotal(s) \in Nat \cup {NoRow}
         /\ LastTotal(s) = NoRow <=> DriverEvents(s) = {}
<1>1. CASE DriverEvents(s) = {}
  BY <1>1 DEF LastTotal
<1>2. CASE DriverEvents(s) # {}
  <2>1. PICK n \in Nat : n = Len(s)
    OBVIOUS
  <2>2. DriverEvents(s) \in SUBSET (1 .. n)
    BY <2>1 DEF DriverEvents
  <2>3. Max(DriverEvents(s)) \in DriverEvents(s)
    BY <1>2, <2>2, LargestIndex
  <2>4. Max(DriverEvents(s)) \in DOMAIN s
    BY <2>3 DEF DriverEvents
  <2>5. PICK m \in DOMAIN s : m = Max(DriverEvents(s))
    BY <2>4
  <2>6. s[m] \in Event
    BY <2>5
  <2>7. s[m].total \in Nat
    BY <2>6 DEF Event
  <2>8. LastTotal(s) = s[m].total
    BY <1>2, <2>5 DEF LastTotal
  <2>9. s[m].total # NoRow
    BY <2>7 DEF NoRow
  <2> QED
    BY <1>2, <2>7, <2>8, <2>9
<1> QED
  BY <1>1, <1>2

\* A batch that holds a driver event decides the summary of the whole table.
LEMMA LastTotalConcat ==
  ASSUME NEW s \in Seq(Event), NEW t \in Seq(Event)
  PROVE  LastTotal(s \o t) = IF LastTotal(t) = NoRow THEN LastTotal(s) ELSE LastTotal(t)
<1> DEFINE u == s \o t
<1>1. PICK n \in Nat, m \in Nat : n = Len(s) /\ m = Len(t)
  OBVIOUS
<1>2. /\ u \in Seq(Event) /\ Len(u) = n + m /\ DOMAIN u = 1 .. (n + m)
      /\ DOMAIN s = 1 .. n /\ DOMAIN t = 1 .. m
      /\ \A i \in 1 .. n : u[i] = s[i]
      /\ \A i \in 1 .. m : u[n + i] = t[i]
  BY <1>1, ConcatProperties
<1> HIDE DEF u
<1>3. /\ DriverEvents(s) \in SUBSET (1 .. n) /\ DriverEvents(t) \in SUBSET (1 .. m)
      /\ DriverEvents(u) \in SUBSET (1 .. (n + m))
  BY <1>2 DEF DriverEvents
<1>4. \A i \in 1 .. n : i \in DriverEvents(u) <=> i \in DriverEvents(s)
  BY <1>2 DEF DriverEvents
<1>5. \A i \in 1 .. m : n + i \in DriverEvents(u) <=> i \in DriverEvents(t)
  BY <1>2 DEF DriverEvents
<1>6. \A i \in 1 .. (n + m) : i \in 1 .. n \/ \E j \in 1 .. m : i = n + j
  <2> SUFFICES ASSUME NEW i \in 1 .. (n + m), i \notin 1 .. n
               PROVE  \E j \in 1 .. m : i = n + j
    OBVIOUS
  <2>1. i - n \in 1 .. m /\ i = n + (i - n)
    OBVIOUS
  <2> QED
    BY <2>1
<1>7. CASE DriverEvents(t) = {}
  <2>1. DriverEvents(u) = DriverEvents(s)
    BY <1>3, <1>4, <1>5, <1>6, <1>7
  <2>2. CASE DriverEvents(s) = {}
    BY <1>7, <2>1, <2>2 DEF LastTotal, u
  <2>3. CASE DriverEvents(s) # {}
    <3>1. Max(DriverEvents(s)) \in DriverEvents(s)
      BY <1>3, <2>3, LargestIndex
    <3>2. u[Max(DriverEvents(s))] = s[Max(DriverEvents(s))]
      BY <1>2, <1>3, <3>1
    <3>3. LastTotal(u) = LastTotal(s) /\ LastTotal(t) = NoRow
      BY <1>7, <2>1, <2>3, <3>2 DEF LastTotal
    <3> QED
      BY <3>3 DEF u
  <2> QED
    BY <2>2, <2>3
<1>8. CASE DriverEvents(t) # {}
  <2>1. PICK k \in DriverEvents(t) :
          k = Max(DriverEvents(t)) /\ \A i \in DriverEvents(t) : i <= k
    BY <1>3, <1>8, LargestIndex
  <2>2. k \in 1 .. m /\ n + k \in DriverEvents(u) /\ u[n + k] = t[k]
    BY <1>2, <1>3, <1>5, <2>1
  <2>3. ASSUME NEW i \in DriverEvents(u) PROVE i <= n + k
    <3>1. CASE i \in 1 .. n
      BY <2>2, <3>1
    <3>2. ASSUME NEW j \in 1 .. m, i = n + j PROVE i <= n + k
      <4>1. j \in DriverEvents(t)
        BY <1>5, <3>2
      <4>2. j <= k
        BY <2>1, <4>1
      <4> QED
        BY <2>2, <3>2, <4>2
    <3> QED
      BY <1>3, <1>6, <3>1, <3>2
  <2>4. n + m \in Nat
    OBVIOUS
  <2>5. PICK j : j = n + k
    OBVIOUS
  <2>6. Max(DriverEvents(u)) = j
    BY <1>3, <2>2, <2>3, <2>4, <2>5, MaxIs
  <2>7. LastTotal(u) = t[k].total
    BY <2>2, <2>5, <2>6 DEF LastTotal
  <2>8. LastTotal(t) = t[k].total /\ LastTotal(t) # NoRow
    BY <1>8, <2>1, LastTotalType DEF LastTotal
  <2> QED
    BY <2>7, <2>8 DEF u
<1> QED
  BY <1>7, <1>8

-----------------------------------------------------------------------------
(***************************************************************************)
(* Type correctness.                                                       *)
(***************************************************************************)

\* The empty records are well typed.
LEMMA EmptyTypes ==
  /\ NoState \in State /\ NoReport \in Report /\ NoCompletion \in Completion
  /\ NoFlush \in Flush
<1>1. NoState \in State
  BY DEF NoState, State, None
<1>2. NoReport \in Report /\ NoCompletion \in Completion
  BY <1>1 DEF NoReport, Report, NoCompletion, Completion
<1>3. NoFlush \in Flush
  BY DEF NoFlush, Flush
<1> QED
  BY <1>1, <1>2, <1>3

\* What a report writes is well typed; only a driver's report changes the
\* total and the last location.
LEMMA ReportTypes ==
  ASSUME NEW q, q.role \in {"driver", "rider"}, q.id \in Nat, q.from \in State,
         q.lost \in BOOLEAN
  PROVE  /\ Delta(q) \in Nat
         /\ UpdatedState(q) \in State
         /\ UpdatedState(q).total = q.from.total + Delta(q)
         /\ UpdatedState(q).last = IF q.role = "driver" THEN q.id ELSE q.from.last
         /\ UpdatedState(q).completed = q.from.completed
         /\ TrackEvent(q) \in Event
         /\ TrackEvent(q).role = q.role /\ TrackEvent(q).id = q.id
<1>1. q.from.total \in Nat /\ q.from.last \in Nat /\ q.from.rider \in BOOLEAN
  BY DEF State
<1>2. Delta(q) \in Nat
  BY <1>1 DEF Delta, Distance
<1>3. PICK total \in Nat : total = q.from.total + Delta(q)
  BY <1>1, <1>2
<1>4. PICK last \in Nat : last = IF q.role = "driver" THEN q.id ELSE q.from.last
  BY <1>1
<1>5. PICK b \in BOOLEAN : b = (q.from.rider \/ q.role = "rider")
  OBVIOUS
<1>6. UpdatedState(q) = [q.from EXCEPT !.total = total, !.last = last, !.rider = b]
  BY <1>3, <1>4, <1>5 DEF UpdatedState, State
<1>7. /\ UpdatedState(q) \in State /\ UpdatedState(q).total = total
      /\ UpdatedState(q).last = last /\ UpdatedState(q).completed = q.from.completed
  BY <1>6 DEF State
<1>8. TrackEvent(q) \in Event /\ TrackEvent(q).role = q.role /\ TrackEvent(q).id = q.id
  BY <1>3 DEF TrackEvent, Event
<1> QED
  BY <1>2, <1>3, <1>4, <1>7, <1>8

\* The initial state is well typed.
LEMMA InitTypeOK == Init => TypeOK
<1> SUFFICES ASSUME Init PROVE TypeOK
  OBVIOUS
<1>1. /\ state \in State /\ active \in BOOLEAN /\ job \in BOOLEAN /\ done \in BOOLEAN
      /\ stale \in BOOLEAN /\ comp \in Completion
  BY EmptyTypes DEF Init
<1>2. rep \in [Reporters -> Report] /\ flush \in [Flushers -> Flush]
  BY EmptyTypes DEF Init
<1>3. events \in Seq(Event) /\ tracks \in Seq(Event)
  BY DEF Init
<1>4. /\ position \in 0 .. MaxPosition /\ rider \in 0 .. MaxRider
      /\ failures \in 0 .. MaxFailures /\ geo \in 0 .. MaxGeo
  BY TrackingAssumption DEF Init
<1>5. summary \in Nat \cup {NoRow}
  BY DEF Init
<1> QED
  BY <1>1, <1>2, <1>3, <1>4, <1>5 DEF TypeOK

\* What a step does to the executions, field by field.
ReportStep(p, q) ==
  /\ q.role = p.role /\ q.id = p.id
  /\ \/ p.pc = "read" /\ q.pc = "set" /\ q.from = state
     \/ p.pc = "set" /\ q.pc = "push" /\ q.from = p.from /\ q.lost = p.lost

\* The steps of recordTripLocation, field by field.
LEMMA RecordSteps ==
  ASSUME TypeOK, NEW r \in Reporters, RecordStep(r)
  PROVE  \E q \in Report :
           /\ rep' = [rep EXCEPT ![r] = q]
           /\ UNCHANGED <<comp, flush, job, tracks, summary, position, rider, done, failures>>
           /\ \/ /\ RecordRead(r) /\ rep[r].pc = "read" /\ ReportStep(rep[r], q)
                 /\ UNCHANGED <<state, active, events, stale>>
                 /\ q.lost => q.role = "driver" /\ state.last # None /\ geo < MaxGeo
                 /\ geo' = IF q.lost THEN geo + 1 ELSE geo
              \/ /\ RecordSave(r) /\ rep[r].pc = "set" /\ ReportStep(rep[r], q)
                 /\ state' = UpdatedState(rep[r]) /\ active' = TRUE
                 /\ stale' = (stale \/ done \/ state # rep[r].from)
                 /\ UNCHANGED <<events, geo>>
              \/ /\ RecordPush(r) /\ rep[r].pc = "push" /\ q = NoReport
                 /\ events' = Append(events, TrackEvent(rep[r]))
                 /\ UNCHANGED <<state, active, geo, stale>>
<1>t. rep[r] \in Report /\ rep \in [Reporters -> Report] /\ state \in State
  BY DEF TypeOK
<1>1. CASE RecordRead(r)
  <2>1. PICK lost \in BOOLEAN :
          /\ GetState(rep[r], lost)
          /\ rep' = [rep EXCEPT ![r].pc = "set", ![r].from = state, ![r].lost = lost]
    BY <1>1 DEF RecordRead
  <2>2. PICK q : q = [rep[r] EXCEPT !.pc = "set", !.from = state, !.lost = lost]
    OBVIOUS
  <2>3. /\ q \in Report /\ q.pc = "set" /\ q.from = state /\ q.lost = lost
        /\ q.role = rep[r].role /\ q.id = rep[r].id
    BY <1>t, <2>2 DEF Report
  <2>4. rep' = [rep EXCEPT ![r] = q]
    BY <1>t, <2>1, <2>2
  <2> QED
    BY <1>1, <2>1, <2>3, <2>4 DEF RecordRead, GetState, ReportStep
<1>2. CASE RecordSave(r)
  <2>1. PICK q : q = [rep[r] EXCEPT !.pc = "push"]
    OBVIOUS
  <2>2. /\ q \in Report /\ q.pc = "push" /\ q.from = rep[r].from /\ q.lost = rep[r].lost
        /\ q.role = rep[r].role /\ q.id = rep[r].id
    BY <1>t, <2>1 DEF Report
  <2>3. rep' = [rep EXCEPT ![r] = q]
    BY <1>2, <1>t, <2>1 DEF RecordSave
  <2> QED
    BY <1>2, <2>2, <2>3 DEF RecordSave, SaveState, ReportStep
<1>3. CASE RecordPush(r)
  BY <1>3, EmptyTypes DEF RecordPush, PushEvent
<1> QED
  BY <1>1, <1>2, <1>3 DEF RecordStep

\* The steps of completeRide, field by field.
LEMMA CompleteSteps ==
  ASSUME TypeOK, CompleteStep
  PROVE  /\ comp' \in Completion /\ comp'.role = "driver" /\ comp'.id = comp.id
         /\ UNCHANGED <<rep, flush, tracks, summary, position, rider, failures>>
         /\ \/ /\ CompleteRead /\ comp.pc = "read" /\ ReportStep(comp, comp')
               /\ comp'.fare = comp.fare
               /\ UNCHANGED <<state, active, events, stale, done, job>>
               /\ comp'.lost => state.last # None /\ geo < MaxGeo
               /\ geo' = IF comp'.lost THEN geo + 1 ELSE geo
            \/ /\ CompleteSave /\ comp.pc = "set" /\ ReportStep(comp, comp')
               /\ comp'.fare = comp.fare
               /\ state' = UpdatedState(comp) /\ active' = TRUE
               /\ stale' = (stale \/ done \/ state # comp.from)
               /\ UNCHANGED <<events, geo, done, job>>
            \/ /\ CompletePush /\ comp.pc = "push" /\ comp'.pc = "distance"
               /\ comp'.from = comp.from /\ comp'.fare = comp.fare
               /\ events' = Append(events, TrackEvent(comp))
               /\ UNCHANGED <<state, active, geo, stale, done, job>>
            \/ /\ GetTotalDistance /\ comp.pc = "distance" /\ comp'.pc = "transition"
               /\ comp'.from = comp.from /\ comp'.fare = FareDistance(state.total)
               /\ UNCHANGED <<state, active, events, geo, stale, done, job>>
            \/ /\ Transition /\ comp.pc = "transition" /\ comp'.pc = "mark"
               /\ comp'.from = comp.from /\ comp'.fare = comp.fare /\ done' = TRUE
               /\ UNCHANGED <<state, active, events, geo, stale, job>>
            \/ /\ ReadBeforeMark /\ comp.pc = "mark" /\ comp'.fare = comp.fare
               /\ \/ comp'.pc = "done" /\ comp'.from = comp.from /\ state.completed
                  \/ comp'.pc = "complete" /\ comp'.from = state
               /\ UNCHANGED <<state, active, events, geo, stale, done, job>>
            \/ /\ MarkRideCompleted /\ comp.pc = "complete" /\ comp'.pc = "enqueue"
               /\ comp'.from = comp.from /\ comp'.fare = comp.fare
               /\ state' = [comp.from EXCEPT !.completed = TRUE]
               /\ stale' = (stale \/ state # comp.from)
               /\ UNCHANGED <<active, events, geo, done, job>>
            \/ /\ EnqueueFlushRideJob /\ comp.pc = "enqueue" /\ comp'.pc = "done"
               /\ comp'.from = comp.from /\ comp'.fare = comp.fare /\ job' = TRUE
               /\ UNCHANGED <<state, active, events, geo, stale, done>>
<1>t. comp \in Completion /\ state \in State /\ comp.role = "driver"
  BY DEF TypeOK, Completion
<1>1. CASE CompleteRead
  <2>1. PICK lost \in BOOLEAN :
          /\ GetState(comp, lost)
          /\ comp' = [comp EXCEPT !.pc = "set", !.from = state, !.lost = lost]
    BY <1>1 DEF CompleteRead
  <2>2. /\ comp' \in Completion /\ comp'.pc = "set" /\ comp'.from = state /\ comp'.lost = lost
        /\ comp'.role = comp.role /\ comp'.id = comp.id /\ comp'.fare = comp.fare
    BY <1>t, <2>1 DEF Completion
  <2> QED
    BY <1>1, <1>t, <2>1, <2>2 DEF CompleteRead, GetState, ReportStep
<1>2. CASE CompleteSave
  <2>1. comp' = [comp EXCEPT !.pc = "push"]
    BY <1>2 DEF CompleteSave
  <2>2. /\ comp' \in Completion /\ comp'.pc = "push" /\ comp'.from = comp.from
        /\ comp'.lost = comp.lost
        /\ comp'.role = comp.role /\ comp'.id = comp.id /\ comp'.fare = comp.fare
    BY <1>t, <2>1 DEF Completion
  <2> QED
    BY <1>2, <1>t, <2>2 DEF CompleteSave, SaveState, ReportStep
<1>3. CASE CompletePush
  BY <1>3, <1>t DEF CompletePush, PushEvent, Completion
<1>4. CASE GetTotalDistance
  <2>1. FareDistance(state.total) \in Nat
    BY <1>t, TrackingAssumption DEF State, FareDistance
  <2> QED
    BY <1>4, <1>t, <2>1 DEF GetTotalDistance, Completion
<1>5. CASE Transition
  BY <1>5, <1>t DEF Transition, Completion
<1>6. CASE ReadBeforeMark
  <2>1. CASE state.completed
    <3>1. comp' = [comp EXCEPT !.pc = "done"]
      BY <1>6, <2>1 DEF ReadBeforeMark
    <3> QED
      BY <1>6, <1>t, <2>1, <3>1 DEF ReadBeforeMark, Completion
  <2>2. CASE ~state.completed
    <3>1. comp' = [comp EXCEPT !.pc = "complete", !.from = state]
      BY <1>6, <2>2 DEF ReadBeforeMark
    <3> QED
      BY <1>6, <1>t, <3>1 DEF ReadBeforeMark, Completion
  <2> QED
    BY <2>1, <2>2
<1>7. CASE MarkRideCompleted
  BY <1>7, <1>t DEF MarkRideCompleted, Completion
<1>8. CASE EnqueueFlushRideJob
  BY <1>8, <1>t DEF EnqueueFlushRideJob, Completion
<1> QED
  BY <1>1, <1>2, <1>3, <1>4, <1>5, <1>6, <1>7, <1>8 DEF CompleteStep

\* The steps of flushRide, field by field.
LEMMA FlushSteps ==
  ASSUME TypeOK, NEW f \in Flushers,
         FlushAll(f) \/ FlushRideJob(f) \/ FlushStep(f) \/ PersistFails(f)
  PROVE  \E q \in Flush :
           /\ flush' = [flush EXCEPT ![f] = q]
           /\ UNCHANGED <<rep, comp, position, rider, done, geo, stale>>
           /\ job' \in BOOLEAN /\ failures' \in 0 .. MaxFailures
           /\ \/ /\ flush[f].pc = "idle" /\ MayBegin("flush") /\ q.pc \in {"state", "del"}
                 /\ q.batch = events
                 /\ UNCHANGED <<state, active, events, tracks, summary>>
              \/ /\ flush[f].pc = "del" /\ q.pc = "persist" /\ q.batch = flush[f].batch
                 /\ events' = << >>
                 /\ UNCHANGED <<state, active, tracks, summary>>
              \/ /\ flush[f].pc = "persist" /\ q.pc = "state"
                 /\ q.batch = flush[f].batch
                 /\ tracks' = tracks \o flush[f].batch
                 /\ summary' = UpsertSummary(flush[f].batch)
                 /\ UNCHANGED <<state, active, events>>
              \/ /\ q = NoFlush
                 /\ UNCHANGED <<state, active, events, tracks, summary>>
              \/ /\ flush[f].pc = "state" /\ q.pc \in {"llen", "cleanup"} /\ state.completed
                 /\ UNCHANGED <<state, active, events, tracks, summary>>
              \/ /\ flush[f].pc = "llen" /\ q.pc = "cleanup"
                 /\ UNCHANGED <<state, active, events, tracks, summary>>
              \/ /\ flush[f].pc = "cleanup" /\ q = NoFlush
                 /\ state' = NoState /\ events' = << >> /\ active' = FALSE
                 /\ UNCHANGED <<tracks, summary>>
<1>t. /\ flush[f] \in Flush /\ flush \in [Flushers -> Flush] /\ job \in BOOLEAN
      /\ events \in Seq(Event) /\ failures \in 0 .. MaxFailures
  BY DEF TypeOK
<1>1. CASE FlushAll(f) \/ FlushRideJob(f)
  <2>1. LRange(f) /\ job' \in BOOLEAN
    BY <1>1, <1>t DEF FlushAll, FlushRideJob
  <2>2. PICK q : q = [pc |-> IF events = << >> THEN "state" ELSE "del", batch |-> events]
    OBVIOUS
  <2>3. q \in Flush /\ q.pc \in {"state", "del"} /\ q.batch = events
    BY <1>t, <2>2 DEF Flush
  <2> QED
    BY <1>t, <2>1, <2>2, <2>3 DEF LRange
<1>2. CASE Del(f)
  <2>1. PICK q : q = [flush[f] EXCEPT !.pc = "persist"]
    OBVIOUS
  <2>2. q \in Flush /\ q.pc = "persist" /\ q.batch = flush[f].batch
    BY <1>t, <2>1 DEF Flush
  <2> QED
    BY <1>2, <1>t, <2>1, <2>2 DEF Del
<1>3. CASE PersistFlush(f)
  <2>1. PICK q : q = [pc |-> "state", batch |-> flush[f].batch]
    OBVIOUS
  <2>2. q \in Flush /\ q.pc = "state" /\ q.batch = flush[f].batch
    BY <1>t, <2>1 DEF Flush
  <2> QED
    BY <1>3, <1>t, <2>1, <2>2 DEF PersistFlush
<1>4. CASE PersistFails(f)
  <2>1. failures' \in 0 .. MaxFailures
    BY <1>4, <1>t, TrackingAssumption DEF PersistFails
  <2> QED
    BY <1>4, <1>t, <2>1, EmptyTypes DEF PersistFails
<1>5. CASE CheckCompleted(f)
  <2>1. CASE ~state.completed
    BY <1>5, <1>t, <2>1, EmptyTypes DEF CheckCompleted
  <2>2. CASE state.completed
    <3>1. PICK q : q = [flush[f] EXCEPT !.pc =
                         IF flush[f].batch = << >> THEN "cleanup" ELSE "llen"]
      OBVIOUS
    <3>2. q \in Flush /\ q.pc \in {"llen", "cleanup"}
      BY <1>t, <3>1 DEF Flush
    <3>3. flush' = [flush EXCEPT ![f] = q]
      BY <1>5, <1>t, <2>2, <3>1 DEF CheckCompleted
    <3> QED
      BY <1>5, <1>t, <2>2, <3>2, <3>3 DEF CheckCompleted
  <2> QED
    BY <2>1, <2>2
<1>6. CASE LLen(f)
  <2>1. CASE events # << >>
    BY <1>6, <1>t, <2>1, EmptyTypes DEF LLen
  <2>2. CASE events = << >>
    <3>1. PICK q : q = [flush[f] EXCEPT !.pc = "cleanup"]
      OBVIOUS
    <3>2. q \in Flush /\ q.pc = "cleanup"
      BY <1>t, <3>1 DEF Flush
    <3>3. flush' = [flush EXCEPT ![f] = q]
      BY <1>6, <1>t, <2>2, <3>1 DEF LLen
    <3> QED
      BY <1>6, <1>t, <3>2, <3>3 DEF LLen
  <2> QED
    BY <2>1, <2>2
<1>7. CASE CleanupRide(f)
  BY <1>7, <1>t, EmptyTypes DEF CleanupRide
<1> QED
  BY <1>1, <1>2, <1>3, <1>4, <1>5, <1>6, <1>7 DEF FlushStep

\* The requests that begin, field by field.
LEMMA ArrivalSteps ==
  ASSUME TypeOK, NEW r \in Reporters, DriverReports(r) \/ RiderReports(r)
  PROVE  \E q \in Report :
           /\ rep[r].pc = "idle" /\ ~done
           /\ q.pc = "read" /\ q.from = NoState /\ q.lost = FALSE
           /\ rep' = [rep EXCEPT ![r] = q]
           /\ UNCHANGED <<state, active, events, job, tracks, summary, comp, done, flush,
                          failures, geo, stale>>
           /\ \/ /\ q.role = "driver" /\ q.id = position + 1 /\ MayBegin("driver")
                 /\ position' = position + 1 /\ position' \in 0 .. MaxPosition
                 /\ rider' = rider
              \/ /\ q.role = "rider" /\ q.id = rider + 1
                 /\ rider' = rider + 1 /\ rider' \in 0 .. MaxRider
                 /\ position' = position
<1>t. /\ rep \in [Reporters -> Report] /\ position \in 0 .. MaxPosition
      /\ rider \in 0 .. MaxRider
  BY DEF TypeOK
<1>1. CASE DriverReports(r)
  <2>1. PICK q : q = [NoReport EXCEPT !.pc = "read", !.role = "driver", !.id = position + 1]
    OBVIOUS
  <2>2. position + 1 \in Nat /\ position + 1 \in 0 .. MaxPosition
    BY <1>1, <1>t, TrackingAssumption DEF DriverReports
  <2>3. /\ q \in Report /\ q.pc = "read" /\ q.from = NoState /\ q.lost = FALSE
        /\ q.role = "driver" /\ q.id = position + 1
    BY <2>1, <2>2, EmptyTypes DEF NoReport, Report
  <2>4. rep' = [rep EXCEPT ![r] = q]
    BY <1>1, <2>1 DEF DriverReports
  <2> QED
    BY <1>1, <2>2, <2>3, <2>4 DEF DriverReports
<1>2. CASE RiderReports(r)
  <2>1. PICK q : q = [NoReport EXCEPT !.pc = "read", !.id = rider + 1]
    OBVIOUS
  <2>2. rider + 1 \in Nat /\ rider + 1 \in 0 .. MaxRider
    BY <1>2, <1>t, TrackingAssumption DEF RiderReports
  <2>3. /\ q \in Report /\ q.pc = "read" /\ q.from = NoState /\ q.lost = FALSE
        /\ q.role = "rider" /\ q.id = rider + 1
    BY <2>1, <2>2, EmptyTypes DEF NoReport, Report
  <2>4. rep' = [rep EXCEPT ![r] = q]
    BY <1>2, <2>1 DEF RiderReports
  <2> QED
    BY <1>2, <2>2, <2>3, <2>4 DEF RiderReports
<1> QED
  BY <1>1, <1>2

\* The completion that begins, field by field.
LEMMA CompletionStep ==
  ASSUME TypeOK, CompleteRide
  PROVE  /\ comp.pc = "idle" /\ MayBegin("complete")
         /\ comp' \in Completion /\ comp'.pc = "read" /\ comp'.id = position + 1
         /\ comp'.from = comp.from /\ comp'.fare = comp.fare
         /\ position' = position + 1 /\ position' \in 0 .. MaxPosition
         /\ UNCHANGED <<state, active, events, job, tracks, summary, rider, rep, done,
                        flush, failures, geo, stale>>
<1>t. comp \in Completion /\ position \in 0 .. MaxPosition
  BY DEF TypeOK
<1>1. position + 1 \in Nat /\ position + 1 \in 0 .. MaxPosition
  BY <1>t, TrackingAssumption DEF CompleteRide
<1>2. comp' = [comp EXCEPT !.pc = "read", !.id = position + 1]
  BY DEF CompleteRide
<1>3. /\ comp' \in Completion /\ comp'.pc = "read" /\ comp'.id = position + 1
      /\ comp'.from = comp.from /\ comp'.fare = comp.fare
  BY <1>t, <1>1, <1>2 DEF Completion
<1> QED
  BY <1>1, <1>3 DEF CompleteRide

\* Every step keeps the types.
LEMMA NextTypeOK ==
  ASSUME TypeOK, [Next]_vars
  PROVE  TypeOK'
<1>t. /\ state \in State /\ active \in BOOLEAN /\ job \in BOOLEAN /\ done \in BOOLEAN
      /\ events \in Seq(Event) /\ tracks \in Seq(Event)
      /\ summary \in Nat \cup {NoRow}
      /\ position \in 0 .. MaxPosition /\ rider \in 0 .. MaxRider
      /\ failures \in 0 .. MaxFailures /\ geo \in 0 .. MaxGeo
      /\ stale \in BOOLEAN
      /\ rep \in [Reporters -> Report] /\ comp \in Completion
      /\ flush \in [Flushers -> Flush]
  BY DEF TypeOK
<1>q. /\ comp.role \in {"driver", "rider"} /\ comp.id \in Nat /\ comp.from \in State
      /\ comp.lost \in BOOLEAN
  BY <1>t DEF Completion
<1>1. ASSUME NEW r \in Reporters, DriverReports(r) \/ RiderReports(r) PROVE TypeOK'
  <2>1. PICK q \in Report :
          /\ rep' = [rep EXCEPT ![r] = q]
          /\ position' = position \/ position' \in 0 .. MaxPosition
          /\ rider' = rider \/ rider' \in 0 .. MaxRider
          /\ UNCHANGED <<state, active, events, job, tracks, summary, comp, done, flush,
                         failures, geo, stale>>
    BY <1>1, ArrivalSteps
  <2>2. position' \in 0 .. MaxPosition /\ rider' \in 0 .. MaxRider
    BY <1>t, <2>1
  <2>3. rep' \in [Reporters -> Report]
    BY <1>t, <2>1
  <2> QED
    BY <1>t, <2>1, <2>2, <2>3 DEF TypeOK
<1>2. ASSUME NEW r \in Reporters, RecordStep(r) PROVE TypeOK'
  <2>1. /\ rep[r].role \in {"driver", "rider"} /\ rep[r].id \in Nat
        /\ rep[r].from \in State /\ rep[r].lost \in BOOLEAN
    BY <1>t DEF Report
  <2>2. UpdatedState(rep[r]) \in State /\ TrackEvent(rep[r]) \in Event
    BY <2>1, ReportTypes
  <2>3. Append(events, TrackEvent(rep[r])) \in Seq(Event)
    BY <1>t, <2>2
  <2>4. geo < MaxGeo => geo + 1 \in 0 .. MaxGeo
    BY <1>t, TrackingAssumption
  <2>5. PICK q \in Report :
          /\ rep' = [rep EXCEPT ![r] = q]
          /\ UNCHANGED <<comp, flush, job, tracks, summary, position, rider, done, failures>>
          /\ state' \in {state, UpdatedState(rep[r])} /\ active' \in {active, TRUE}
          /\ stale' \in BOOLEAN
          /\ events' \in {events, Append(events, TrackEvent(rep[r]))}
          /\ geo' = geo \/ (geo < MaxGeo /\ geo' = geo + 1)
    BY <1>2, <1>t, RecordSteps
  <2>6. state' \in State /\ active' \in BOOLEAN /\ events' \in Seq(Event) /\ geo' \in 0 .. MaxGeo
    BY <1>t, <2>2, <2>3, <2>4, <2>5
  <2>7. rep' \in [Reporters -> Report]
    BY <1>t, <2>5
  <2> QED
    BY <1>t, <2>5, <2>6, <2>7 DEF TypeOK
<1>3. CASE CompleteRide
  BY <1>3, <1>t, CompletionStep DEF TypeOK
<1>4. CASE CompleteStep
  <2>1. UpdatedState(comp) \in State /\ TrackEvent(comp) \in Event
    BY <1>q, ReportTypes
  <2>2. Append(events, TrackEvent(comp)) \in Seq(Event)
    BY <1>t, <2>1
  <2>3. geo < MaxGeo => geo + 1 \in 0 .. MaxGeo
    BY <1>t, TrackingAssumption
  <2>4. [comp.from EXCEPT !.completed = TRUE] \in State
    BY <1>q DEF State
  <2>5. /\ comp' \in Completion
        /\ UNCHANGED <<rep, flush, tracks, summary, position, rider, failures>>
        /\ state' \in {state, UpdatedState(comp), [comp.from EXCEPT !.completed = TRUE]}
        /\ active' \in {active, TRUE} /\ job' \in {job, TRUE} /\ done' \in {done, TRUE}
        /\ stale' \in BOOLEAN
        /\ events' \in {events, Append(events, TrackEvent(comp))}
        /\ geo' = geo \/ (geo < MaxGeo /\ geo' = geo + 1)
    BY <1>4, <1>t, CompleteSteps
  <2>6. /\ state' \in State /\ active' \in BOOLEAN /\ job' \in BOOLEAN /\ done' \in BOOLEAN
        /\ events' \in Seq(Event) /\ geo' \in 0 .. MaxGeo
    BY <1>t, <2>1, <2>2, <2>3, <2>4, <2>5
  <2> QED
    BY <1>t, <2>5, <2>6 DEF TypeOK
<1>5. ASSUME NEW f \in Flushers,
             FlushAll(f) \/ FlushRideJob(f) \/ FlushStep(f) \/ PersistFails(f)
      PROVE  TypeOK'
  <2>1. PICK q \in Flush :
          /\ flush' = [flush EXCEPT ![f] = q]
          /\ UNCHANGED <<rep, comp, position, rider, done, geo, stale>>
          /\ job' \in BOOLEAN /\ failures' \in 0 .. MaxFailures
          /\ state' \in {state, NoState} /\ active' \in {active, FALSE}
          /\ events' \in {events, << >>}
          /\ tracks' \in {tracks, tracks \o flush[f].batch}
          /\ summary' \in {summary, UpsertSummary(flush[f].batch)}
    BY <1>5, <1>t, FlushSteps
  <2>2. flush[f].batch \in Seq(Event)
    BY <1>t DEF Flush
  <2>3. tracks \o flush[f].batch \in Seq(Event)
    BY <1>t, <2>2, ConcatProperties
  <2>4. UpsertSummary(flush[f].batch) \in Nat \cup {NoRow}
    BY <1>t, <2>2, LastTotalType DEF UpsertSummary
  <2>5. /\ state' \in State /\ active' \in BOOLEAN /\ events' \in Seq(Event)
        /\ tracks' \in Seq(Event) /\ summary' \in Nat \cup {NoRow}
    <3>1. state' \in State /\ active' \in BOOLEAN
      BY <1>t, <2>1, EmptyTypes
    <3>2. << >> \in Seq(Event)
      OBVIOUS
    <3>3. events' \in Seq(Event) /\ tracks' \in Seq(Event)
      BY <1>t, <2>1, <2>3, <3>2
    <3>4. summary' \in Nat \cup {NoRow}
      BY <1>t, <2>1, <2>4
    <3> QED
      BY <3>1, <3>3, <3>4
  <2>6. flush' \in [Flushers -> Flush]
    BY <1>t, <2>1
  <2> QED
    BY <1>t, <2>1, <2>5, <2>6 DEF TypeOK
<1>6. CASE UNCHANGED vars
  BY <1>6, <1>t DEF TypeOK, vars
<1> QED
  BY <1>1, <1>2, <1>3, <1>4, <1>5, <1>6 DEF Next

\* The variables keep their types.
THEOREM TypeCorrect == Spec => []TypeOK
BY InitTypeOK, NextTypeOK, PTL DEF Spec

-----------------------------------------------------------------------------
(***************************************************************************)
(* The summary.                                                            *)
(***************************************************************************)

\* A step keeps the summary at the last driver row of the table.
LEMMA SummaryKept ==
  ASSUME TypeOK, SummaryIsLatest, [Next]_vars
  PROVE  SummaryIsLatest'
<1>1. CASE UNCHANGED <<tracks, summary>>
  BY <1>1 DEF SummaryIsLatest, LastTotal, DriverEvents
<1>2. ASSUME NEW f \in Flushers,
             tracks' = tracks \o flush[f].batch,
             summary' = UpsertSummary(flush[f].batch)
      PROVE  SummaryIsLatest'
  <2>1. flush[f].batch \in Seq(Event) /\ tracks \in Seq(Event)
    BY DEF TypeOK, Flush
  <2>2. LastTotal(tracks \o flush[f].batch) =
          IF LastTotal(flush[f].batch) = NoRow THEN LastTotal(tracks)
                                               ELSE LastTotal(flush[f].batch)
    BY <2>1, LastTotalConcat
  <2>3. summary' = LastTotal(tracks \o flush[f].batch)
    BY <1>2, <2>2 DEF SummaryIsLatest, UpsertSummary
  <2> QED
    BY <1>2, <2>3 DEF SummaryIsLatest, LastTotal, DriverEvents
<1>3. ASSUME NEW r \in Reporters, DriverReports(r) \/ RiderReports(r)
      PROVE  UNCHANGED <<tracks, summary>>
  BY <1>3, ArrivalSteps
<1>4. ASSUME NEW r \in Reporters, RecordStep(r) PROVE UNCHANGED <<tracks, summary>>
  BY <1>4, RecordSteps
<1>5. CompleteRide => UNCHANGED <<tracks, summary>>
  BY CompletionStep
<1>6. CompleteStep => UNCHANGED <<tracks, summary>>
  BY CompleteSteps
<1>7. ASSUME NEW f \in Flushers,
             FlushAll(f) \/ FlushRideJob(f) \/ FlushStep(f) \/ PersistFails(f)
      PROVE  SummaryIsLatest'
  <2>1. \/ UNCHANGED <<tracks, summary>>
        \/ /\ tracks' = tracks \o flush[f].batch
           /\ summary' = UpsertSummary(flush[f].batch)
    BY <1>7, FlushSteps
  <2> QED
    BY <1>1, <1>2, <2>1
<1>8. UNCHANGED vars => UNCHANGED <<tracks, summary>>
  BY DEF vars
<1> QED
  BY <1>1, <1>3, <1>4, <1>5, <1>6, <1>7, <1>8 DEF Next

\* Whatever overlaps, and however many workers flush, trip_summary shows the
\* total of the last driver row of trip_track: persistFlush writes both in one
\* transaction, and a batch without a driver event leaves the summary alone.
THEOREM SummaryCorrect == Spec => []SummaryIsLatest
<1>1. Init => SummaryIsLatest
  <2>1. DOMAIN << >> = {}
    OBVIOUS
  <2> QED
    BY <2>1 DEF Init, SummaryIsLatest, LastTotal, DriverEvents
<1> QED
  BY <1>1, InitTypeOK, NextTypeOK, SummaryKept, PTL DEF Spec

-----------------------------------------------------------------------------
(***************************************************************************)
(* The driver's phone sends a report, or the completion, after the answer  *)
(* to the one before.  The rider and the workers overlap with everything.  *)
(***************************************************************************)
DriverWaits == {"driver"} \notin Overlap /\ {"driver", "complete"} \notin Overlap

\* A report of the driver that is in flight.
DriverAt(r) == rep[r].role = "driver" /\ rep[r].pc # "idle"

\* At most one execution of the driver is in flight, and it carries the last
\* position; the completion is the driver's last.
OrderInv ==
  /\ \A r, s \in Reporters : DriverAt(r) /\ DriverAt(s) => r = s
  /\ comp.pc # "idle" => \A r \in Reporters : ~DriverAt(r)
  /\ comp.pc \in {"mark", "complete", "enqueue", "done"} => done
  /\ \A r \in Reporters : DriverAt(r) => rep[r].id = position
  /\ comp.pc # "idle" => comp.id = position /\ position > 0

\* A state whose total was driven before its last location, by position p.
Sane(s, p) == s.last <= p /\ (s.total < s.last \/ s.total = 0)

SaneInv ==
  /\ Sane(state, position)
  /\ \A r \in Reporters : Sane(rep[r].from, position)
  /\ Sane(comp.from, position)
  /\ comp.fare < position \/ comp.fare \in {0, Estimate}

\* Only the end of completeRide marks the state as completed, so the state is
\* not removed before.
MarkInv ==
  comp.pc \notin {"enqueue", "done"} =>
    /\ ~state.completed /\ ~comp.from.completed
    /\ \A r \in Reporters : ~rep[r].from.completed
    /\ \A f \in Flushers : flush[f].pc \notin {"llen", "cleanup"}

\* The total of a state is the distance driven until its last location, less g
\* distances that Redis failed to compute.
ExactTotal(s, g) ==
  IF s.last = None THEN s.total = 0 /\ g = 0 ELSE s.total = s.last - 1 - g

\* The state is that of position p.
Written(s, p, g) == s.last = p /\ ExactTotal(s, g)

\* Execution q has still to write position p; when its distance is lost, the
\* count of lost distances is one ahead of the state.
Awaited(q, s, p, g) ==
  /\ s.last = p - 1
  /\ IF q.pc = "set" /\ q.lost THEN s.last # None /\ ExactTotal(s, g - 1)
                               ELSE ExactTotal(s, g)

\* An execution of the driver that has not written its position yet.
Ahead(q) == q.role = "driver" /\ q.pc \in {"read", "set"}

\* The state s is exact, for reports R and completion c in flight, after p
\* positions and g lost distances.
Exact(R, c, s, p, g) ==
  /\ \A r \in Reporters : Ahead(R[r]) => Awaited(R[r], s, p, g)
  /\ Ahead(c) => Awaited(c, s, p, g)
  /\ (\A r \in Reporters : ~Ahead(R[r])) /\ ~Ahead(c) => Written(s, p, g)

\* Before completeRide has read the distance, and after.
Uncharged == {"idle", "read", "set", "push", "distance"}
Charged == {"transition", "mark", "complete", "enqueue", "done"}

ExactInv ==
  ~stale =>
    /\ comp.pc \in Uncharged => Exact(rep, comp, state, position, geo)
    /\ comp.pc \in Charged => comp.fare = FareDistance(comp.id - 1 - geo) /\ geo < comp.id

\* A report in flight keeps its role and its position until it ends.
LEMMA DriverKept ==
  ASSUME TypeOK, NEW r \in Reporters, RecordStep(r), NEW s \in Reporters, DriverAt(s)'
  PROVE  DriverAt(s) /\ rep'[s].id = rep[s].id
<1>1. PICK q \in Report :
        /\ rep' = [rep EXCEPT ![r] = q] /\ rep[r].pc # "idle"
        /\ q = NoReport \/ (q.role = rep[r].role /\ q.id = rep[r].id)
  BY RecordSteps DEF ReportStep
<1>2. rep \in [Reporters -> Report] /\ NoReport.role = "rider"
  BY DEF TypeOK, NoReport
<1>3. CASE s = r
  BY <1>1, <1>2, <1>3 DEF DriverAt
<1>4. CASE s # r
  BY <1>1, <1>2, <1>4 DEF DriverAt
<1> QED
  BY <1>3, <1>4

\* The driver's executions stay one at a time.
LEMMA OrderKept ==
  ASSUME TypeOK, OrderInv, DriverWaits, [Next]_vars
  PROVE  OrderInv'
<1>t. /\ rep \in [Reporters -> Report] /\ comp \in Completion /\ position \in Nat
  BY DEF TypeOK
<1>f. "driver" \in KindsInFlight <=> \E r \in Reporters : DriverAt(r)
  BY DEF KindsInFlight, DriverAt
<1>c. comp.pc \notin {"idle", "done"} => "complete" \in KindsInFlight
  BY DEF KindsInFlight
<1>w. /\ {"driver", "driver"} \notin Overlap /\ {"driver", "complete"} \notin Overlap
      /\ {"complete", "driver"} \notin Overlap
  <2>1. {"driver", "driver"} = {"driver"} /\ {"complete", "driver"} = {"driver", "complete"}
    OBVIOUS
  <2> QED
    BY <2>1 DEF DriverWaits
<1>1. ASSUME NEW r \in Reporters, DriverReports(r) \/ RiderReports(r) PROVE OrderInv'
  <2>1. PICK q \in Report :
          /\ rep[r].pc = "idle" /\ ~done /\ q.pc = "read"
          /\ rep' = [rep EXCEPT ![r] = q]
          /\ UNCHANGED <<comp, done>>
          /\ \/ /\ q.role = "driver" /\ q.id = position + 1 /\ MayBegin("driver")
                /\ position' = position + 1
             \/ q.role = "rider" /\ position' = position
    BY <1>1, ArrivalSteps
  <2>2. \A s \in Reporters : s # r => rep'[s] = rep[s]
    BY <1>t, <2>1
  <2>3. rep'[r] = q
    BY <1>t, <2>1
  <2>4. CASE q.role = "driver"
    <3>1. MayBegin("driver") /\ position' = position + 1 /\ q.id = position + 1
      BY <2>1, <2>4
    <3>2. \A s \in Reporters : ~DriverAt(s)
      BY <1>f, <1>w, <3>1 DEF MayBegin
    <3>3. comp.pc \in {"idle", "done"}
      BY <1>c, <1>w, <3>1 DEF MayBegin
    <3>4. comp.pc = "idle"
      BY <2>1, <3>3 DEF OrderInv
    <3>5. \A s \in Reporters : DriverAt(s)' => s = r
      BY <2>2, <3>2 DEF DriverAt
    <3>6. \A s \in Reporters : DriverAt(s)' => rep'[s].id = position'
      BY <2>3, <3>1, <3>5
    <3> QED
      BY <2>1, <3>4, <3>5, <3>6 DEF OrderInv
  <2>5. CASE q.role = "rider"
    <3>1. \A s \in Reporters : DriverAt(s)' => DriverAt(s) /\ rep'[s] = rep[s]
      BY <2>2, <2>3, <2>5 DEF DriverAt
    <3>2. position' = position
      BY <2>1, <2>5
    <3> QED
      BY <2>1, <3>1, <3>2 DEF OrderInv
  <2> QED
    BY <2>4, <2>5 DEF Report
<1>2. ASSUME NEW r \in Reporters, RecordStep(r) PROVE OrderInv'
  <2>1. \A s \in Reporters : DriverAt(s)' => DriverAt(s) /\ rep'[s].id = rep[s].id
    BY <1>2, DriverKept
  <2>2. UNCHANGED <<comp, position, done>>
    BY <1>2, RecordSteps
  <2> QED
    BY <2>1, <2>2 DEF OrderInv
<1>3. CASE CompleteRide
  <2>1. /\ MayBegin("complete") /\ comp'.pc = "read" /\ comp'.id = position + 1
        /\ position' = position + 1 /\ UNCHANGED <<rep, done>>
    BY <1>3, CompletionStep
  <2>2. \A s \in Reporters : ~DriverAt(s)
    BY <1>f, <1>w, <2>1 DEF MayBegin
  <2>3. \A s \in Reporters : ~DriverAt(s)'
    BY <2>1, <2>2 DEF DriverAt
  <2>4. comp'.id = position' /\ position' > 0
    BY <1>t, <2>1
  <2> QED
    BY <2>1, <2>3, <2>4 DEF OrderInv
<1>4. CASE CompleteStep
  <2>1. /\ comp'.id = comp.id /\ UNCHANGED <<rep, position>> /\ comp.pc # "idle"
        /\ done' = done \/ done' = TRUE
        /\ comp'.pc = "mark" => done'
        /\ comp'.pc \in {"complete", "enqueue", "done"} =>
             comp.pc \in {"mark", "complete", "enqueue"}
    BY <1>4, CompleteSteps DEF ReportStep
  <2>2. \A s \in Reporters : ~DriverAt(s)'
    BY <2>1 DEF OrderInv, DriverAt
  <2>3. comp'.pc \in {"mark", "complete", "enqueue", "done"} => done'
    BY <2>1 DEF OrderInv
  <2>4. comp'.id = position' /\ position' > 0
    BY <2>1 DEF OrderInv
  <2> QED
    BY <2>2, <2>3, <2>4 DEF OrderInv
<1>5. ASSUME NEW f \in Flushers,
             FlushAll(f) \/ FlushRideJob(f) \/ FlushStep(f) \/ PersistFails(f)
      PROVE  OrderInv'
  <2>1. UNCHANGED <<rep, comp, position, done>>
    BY <1>5, FlushSteps
  <2> QED
    BY <2>1 DEF OrderInv, DriverAt
<1>6. CASE UNCHANGED vars
  BY <1>6 DEF OrderInv, DriverAt, vars
<1> QED
  BY <1>1, <1>2, <1>3, <1>4, <1>5, <1>6 DEF Next

-----------------------------------------------------------------------------
(***************************************************************************)
(* The rider is never overcharged.                                         *)
(***************************************************************************)

\* A state stays sane while the driver moves on.
LEMMA SaneLater ==
  ASSUME NEW s \in State, NEW p \in Nat, NEW n \in Nat, p <= n, Sane(s, p)
  PROVE  Sane(s, n)
<1>1. s.last \in Nat
  BY DEF State
<1> QED
  BY <1>1 DEF Sane

\* What a report makes of a sane state is sane, when the driver's report is of
\* the last position.
LEMMA SaneUpdate ==
  ASSUME NEW q, NEW p \in Nat, q.role \in {"driver", "rider"}, q.id \in Nat, q.from \in State,
         q.lost \in BOOLEAN, Sane(q.from, p), q.role = "driver" => q.id = p
  PROVE  Sane(UpdatedState(q), p)
<1>1. PICK total \in Nat, last \in Nat : total = q.from.total /\ last = q.from.last
  BY DEF State
<1>2. last <= p /\ (total < last \/ total = 0)
  BY <1>1 DEF Sane
<1>3. PICK s : s = UpdatedState(q)
  OBVIOUS
<1>4. /\ s.total = total + Delta(q)
      /\ s.last = IF q.role = "driver" THEN q.id ELSE last
  BY <1>1, <1>3, ReportTypes
<1>5. CASE q.role = "rider"
  <2>1. Delta(q) = 0
    BY <1>5 DEF Delta
  <2>2. s.total = total /\ s.last = last
    BY <1>4, <1>5, <2>1
  <2> QED
    BY <1>2, <1>3, <2>2 DEF Sane
<1>6. CASE q.role = "driver"
  <2>1. s.last = p
    BY <1>4, <1>6
  <2>2. CASE last # 0 /\ ~q.lost
    <3>1. Delta(q) = Distance(last, p)
      BY <1>1, <1>6, <2>2 DEF Delta, None
    <3>2. s.total = total + Distance(last, p)
      BY <1>4, <3>1
    <3>3. s.total = total + (p - last)
      BY <1>2, <3>2 DEF Distance
    <3>4. s.total < p \/ s.total = 0
      BY <1>2, <2>2, <3>3
    <3> QED
      BY <1>3, <2>1, <3>4 DEF Sane
  <2>3. CASE last = 0 \/ q.lost
    <3>1. Delta(q) = 0
      BY <1>1, <2>3 DEF Delta, None
    <3>2. s.total = total
      BY <1>4, <3>1
    <3>3. s.total < p \/ s.total = 0
      BY <1>2, <3>2
    <3> QED
      BY <1>3, <2>1, <3>3 DEF Sane
  <2> QED
    BY <2>2, <2>3
<1> QED
  BY <1>5, <1>6

\* Every step keeps the states sane: the one that is stored, and those that an
\* execution read and may write back.
LEMMA SaneKept ==
  ASSUME TypeOK, OrderInv, SaneInv, [Next]_vars
  PROVE  SaneInv'
<1>t. /\ rep \in [Reporters -> Report] /\ comp \in Completion /\ position \in Nat
      /\ state \in State
  BY DEF TypeOK
<1>q. /\ comp.role = "driver" /\ comp.id \in Nat /\ comp.from \in State
      /\ comp.lost \in BOOLEAN /\ comp.fare \in Nat
  BY <1>t DEF Completion
<1>r. \A r \in Reporters : /\ rep[r].role \in {"driver", "rider"} /\ rep[r].id \in Nat
                           /\ rep[r].from \in State /\ rep[r].lost \in BOOLEAN
  BY <1>t DEF Report
<1>n. \A p \in Nat : Sane(NoState, p)
  BY DEF Sane, NoState, None
<1>1. ASSUME NEW r \in Reporters, DriverReports(r) \/ RiderReports(r) PROVE SaneInv'
  <2>1. PICK q \in Report :
          /\ q.from = NoState /\ rep' = [rep EXCEPT ![r] = q]
          /\ UNCHANGED <<state, comp>>
          /\ position' = position \/ position' = position + 1
    BY <1>1, ArrivalSteps
  <2>2. position' \in Nat /\ position <= position'
    BY <1>t, <2>1
  <2>3. \A s \in Reporters : rep'[s].from = rep[s].from \/ rep'[s].from = NoState
    BY <1>t, <2>1
  <2>4. \A s \in Reporters : Sane(rep[s].from, position')
    BY <1>r, <1>t, <2>2, SaneLater DEF SaneInv
  <2>5. \A s \in Reporters : Sane(rep'[s].from, position')
    BY <1>n, <2>2, <2>3, <2>4
  <2>6. Sane(state, position') /\ Sane(comp.from, position')
    BY <1>q, <1>t, <2>2, SaneLater DEF SaneInv
  <2>7. comp.fare < position' \/ comp.fare \in {0, Estimate}
    BY <1>q, <1>t, <2>2 DEF SaneInv
  <2> QED
    BY <2>1, <2>5, <2>6, <2>7 DEF SaneInv
<1>2. ASSUME NEW r \in Reporters, RecordStep(r) PROVE SaneInv'
  <2>1. PICK q \in Report :
          /\ rep' = [rep EXCEPT ![r] = q] /\ rep[r].pc # "idle"
          /\ q.from \in {state, rep[r].from, NoState}
          /\ UNCHANGED <<comp, position>>
          /\ state' \in {state, UpdatedState(rep[r])}
    <3>1. NoReport.from = NoState
      BY DEF NoReport
    <3> QED
      BY <1>2, <3>1, RecordSteps DEF ReportStep
  <2>2. rep[r].role = "driver" => rep[r].id = position
    BY <2>1 DEF OrderInv, DriverAt
  <2>3. Sane(UpdatedState(rep[r]), position)
    BY <1>r, <1>t, <2>2, SaneUpdate DEF SaneInv
  <2>4. Sane(state', position)
    BY <2>1, <2>3 DEF SaneInv
  <2>5. Sane(q.from, position)
    BY <1>n, <1>t, <2>1 DEF SaneInv
  <2>6. \A s \in Reporters : Sane(rep'[s].from, position)
    BY <1>t, <2>1, <2>5 DEF SaneInv
  <2> QED
    BY <2>1, <2>4, <2>6 DEF SaneInv
<1>3. CASE CompleteRide
  <2>1. /\ comp'.from = comp.from /\ comp'.fare = comp.fare /\ position' = position + 1
        /\ UNCHANGED <<state, rep>>
    BY <1>3, CompletionStep
  <2>2. position' \in Nat /\ position <= position'
    BY <1>t, <2>1
  <2>3. \A s \in Reporters : Sane(rep[s].from, position')
    BY <1>r, <1>t, <2>2, SaneLater DEF SaneInv
  <2>4. Sane(state, position') /\ Sane(comp.from, position')
    BY <1>q, <1>t, <2>2, SaneLater DEF SaneInv
  <2>5. comp.fare < position' \/ comp.fare \in {0, Estimate}
    BY <1>q, <1>t, <2>2 DEF SaneInv
  <2> QED
    BY <2>1, <2>3, <2>4, <2>5 DEF SaneInv
<1>4. CASE CompleteStep
  <2>1. /\ UNCHANGED <<rep, position>> /\ comp.pc # "idle"
        /\ comp'.from \in {state, comp.from}
        /\ comp'.fare \in {FareDistance(state.total), comp.fare}
        /\ state' \in {state, UpdatedState(comp), [comp.from EXCEPT !.completed = TRUE]}
    BY <1>4, CompleteSteps DEF ReportStep
  <2>2. comp.id = position
    BY <2>1 DEF OrderInv
  <2>3. Sane(UpdatedState(comp), position)
    BY <1>q, <1>t, <2>2, SaneUpdate DEF SaneInv
  <2>4. Sane([comp.from EXCEPT !.completed = TRUE], position)
    BY <1>q DEF SaneInv, Sane, State
  <2>5. Sane(state', position) /\ Sane(comp'.from, position)
    BY <2>1, <2>3, <2>4 DEF SaneInv
  <2>6. state.total < position \/ state.total = 0
    <3>1. state.total \in Nat /\ state.last \in Nat
      BY <1>t DEF State
    <3>2. state.last <= position /\ (state.total < state.last \/ state.total = 0)
      BY DEF SaneInv, Sane
    <3> QED
      BY <1>t, <3>1, <3>2
  <2>7. comp'.fare < position \/ comp'.fare \in {0, Estimate}
    BY <2>1, <2>6 DEF SaneInv, FareDistance
  <2> QED
    BY <2>1, <2>5, <2>7 DEF SaneInv
<1>5. ASSUME NEW f \in Flushers,
             FlushAll(f) \/ FlushRideJob(f) \/ FlushStep(f) \/ PersistFails(f)
      PROVE  SaneInv'
  <2>1. UNCHANGED <<rep, comp, position>> /\ state' \in {state, NoState}
    BY <1>5, FlushSteps
  <2> QED
    BY <1>n, <1>t, <2>1 DEF SaneInv
<1>6. CASE UNCHANGED vars
  BY <1>6 DEF SaneInv, vars
<1> QED
  BY <1>1, <1>2, <1>3, <1>4, <1>5, <1>6 DEF Next

\* A sane state charges no more than what was driven.
LEMMA SaneCharge ==
  ASSUME TypeOK, SaneInv
  PROVE  NeverOvercharged
<1>1. state.total \in Nat /\ state.last \in Nat /\ position \in Nat
  BY DEF TypeOK, State
<1>2. state.last <= position /\ (state.total < state.last \/ state.total = 0)
  BY DEF SaneInv, Sane
<1>3. state.total < position \/ state.total = 0
  BY <1>1, <1>2
<1> QED
  BY <1>3 DEF NeverOvercharged, SaneInv

\* When the driver's phone waits for each answer, no more is tracked than was
\* driven and the fare is computed from no more than that or from the estimate,
\* however the rider's reports and the flushes interleave: recordLocation and
\* markRideCompleted may write back a state that is out of date, but every state
\* that was read is one in which the total belongs to the last location.
THEOREM ChargeCorrect ==
  ASSUME DriverWaits
  PROVE  Spec => []NeverOvercharged
<1>1. Init => OrderInv
  BY DEF Init, OrderInv, DriverAt, NoReport, NoCompletion
<1>2. Init => SaneInv
  BY DEF Init, SaneInv, Sane, NoReport, NoCompletion, NoState, None
<1> QED
  BY <1>1, <1>2, InitTypeOK, NextTypeOK, OrderKept, SaneKept, SaneCharge, PTL DEF Spec

-----------------------------------------------------------------------------
(***************************************************************************)
(* The fare is computed from the distance driven.                          *)
(***************************************************************************)

\* Nothing but the end of completeRide marks the state, and nothing removes the
\* state before.
LEMMA MarkKept ==
  ASSUME TypeOK, MarkInv, [Next]_vars
  PROVE  MarkInv'
<1>t. /\ rep \in [Reporters -> Report] /\ comp \in Completion /\ state \in State
      /\ flush \in [Flushers -> Flush]
  BY DEF TypeOK
<1>q. /\ comp.role = "driver" /\ comp.id \in Nat /\ comp.from \in State
      /\ comp.lost \in BOOLEAN
  BY <1>t DEF Completion
<1>n. ~NoState.completed /\ NoReport.from = NoState /\ NoFlush.pc = "idle"
  BY DEF NoState, NoReport, NoFlush
<1>1. ASSUME NEW r \in Reporters, DriverReports(r) \/ RiderReports(r) PROVE MarkInv'
  <2>1. PICK q \in Report :
          q.from = NoState /\ rep' = [rep EXCEPT ![r] = q] /\ UNCHANGED <<state, comp, flush>>
    BY <1>1, ArrivalSteps
  <2>2. \A s \in Reporters : rep'[s].from \in {rep[s].from, NoState}
    BY <1>t, <2>1
  <2> QED
    BY <1>n, <2>1, <2>2 DEF MarkInv
<1>2. ASSUME NEW r \in Reporters, RecordStep(r) PROVE MarkInv'
  <2>1. PICK q \in Report :
          /\ rep' = [rep EXCEPT ![r] = q] /\ q.from \in {state, rep[r].from, NoState}
          /\ UNCHANGED <<comp, flush>>
          /\ state' \in {state, UpdatedState(rep[r])}
    BY <1>2, <1>n, RecordSteps DEF ReportStep
  <2>2. UpdatedState(rep[r]).completed = rep[r].from.completed
    BY <1>t, ReportTypes DEF Report
  <2>3. \A s \in Reporters : rep'[s].from \in {rep[s].from, state, NoState}
    BY <1>t, <2>1
  <2>4. SUFFICES ASSUME comp.pc \notin {"enqueue", "done"}
                 PROVE  /\ ~state'.completed
                        /\ \A s \in Reporters : ~rep'[s].from.completed
    BY <2>1 DEF MarkInv
  <2>5. ~state.completed /\ \A s \in Reporters : ~rep[s].from.completed
    BY <2>4 DEF MarkInv
  <2>6. ~state'.completed
    BY <2>1, <2>2, <2>5
  <2>7. \A s \in Reporters : ~rep'[s].from.completed
    BY <1>n, <2>3, <2>5
  <2> QED
    BY <2>6, <2>7
<1>3. CASE CompleteRide
  BY <1>3, CompletionStep DEF MarkInv
<1>4. CASE CompleteStep
  <2>1. UpdatedState(comp).completed = comp.from.completed
    BY <1>q, ReportTypes
  <2>2. SUFFICES ASSUME comp'.pc \notin {"enqueue", "done"}
                 PROVE  MarkInv'
    BY DEF MarkInv
  <2>3. /\ comp.pc \notin {"enqueue", "done"} /\ UNCHANGED <<rep, flush>>
        /\ comp'.from \in {state, comp.from}
        /\ state' \in {state, UpdatedState(comp)}
    BY <1>4, <2>2, CompleteSteps DEF ReportStep
  <2> QED
    BY <2>1, <2>3 DEF MarkInv
<1>5. ASSUME NEW f \in Flushers,
             FlushAll(f) \/ FlushRideJob(f) \/ FlushStep(f) \/ PersistFails(f)
      PROVE  MarkInv'
  <2>1. PICK q \in Flush :
          /\ flush' = [flush EXCEPT ![f] = q] /\ UNCHANGED <<rep, comp>>
          /\ state' \in {state, NoState}
          /\ q.pc \in {"llen", "cleanup"} => state.completed \/ flush[f].pc = "llen"
    BY <1>5, <1>n, FlushSteps
  <2>2. \A g \in Flushers : flush'[g] = flush[g] \/ flush'[g] = q
    BY <1>t, <2>1
  <2>3. SUFFICES ASSUME comp.pc \notin {"enqueue", "done"} PROVE MarkInv'
    BY <2>1 DEF MarkInv
  <2>4. q.pc \notin {"llen", "cleanup"}
    BY <2>1, <2>3 DEF MarkInv
  <2>5. \A g \in Flushers : flush'[g].pc \notin {"llen", "cleanup"}
    BY <2>2, <2>3, <2>4 DEF MarkInv
  <2> QED
    BY <1>n, <2>1, <2>3, <2>5 DEF MarkInv
<1>6. CASE UNCHANGED vars
  BY <1>6 DEF MarkInv, vars
<1> QED
  BY <1>1, <1>2, <1>3, <1>4, <1>5, <1>6 DEF Next

\* A step that keeps the total, the last location and the driver's executions
\* keeps the state exact.
LEMMA ExactSame ==
  ASSUME NEW R, NEW S, NEW c, NEW d, NEW s, NEW t, NEW p, NEW g, Exact(R, c, s, p, g),
         t.last = s.last, t.total = s.total,
         \A r \in Reporters : Ahead(S[r]) <=> Ahead(R[r]),
         \A r \in Reporters : Ahead(S[r]) => S[r].pc = R[r].pc /\ S[r].lost = R[r].lost,
         Ahead(d) <=> Ahead(c), Ahead(d) => d.pc = c.pc /\ d.lost = c.lost
  PROVE  Exact(S, d, t, p, g)
<1>1. \A r \in Reporters : Ahead(S[r]) => Awaited(S[r], t, p, g)
  BY DEF Exact, Awaited, ExactTotal
<1>2. Ahead(d) => Awaited(d, t, p, g)
  BY DEF Exact, Awaited, ExactTotal
<1>3. (\A r \in Reporters : ~Ahead(S[r])) /\ ~Ahead(d) => Written(t, p, g)
  BY DEF Exact, Written, ExactTotal
<1> QED
  BY <1>1, <1>2, <1>3 DEF Exact

\* The driver moves on.
LEMMA WrittenAwaited ==
  ASSUME NEW q, NEW s, NEW p \in Nat, NEW g, Written(s, p, g), q.pc = "read"
  PROVE  Awaited(q, s, p + 1, g)
BY DEF Written, Awaited

\* The driver's execution reads the state, and the distance may be lost.
LEMMA ReadAwaited ==
  ASSUME NEW q, NEW n, NEW s, NEW p, NEW g \in Nat, Awaited(q, s, p, g),
         q.pc = "read", n.pc = "set", n.lost \in BOOLEAN, n.lost => s.last # None
  PROVE  Awaited(n, s, p, IF n.lost THEN g + 1 ELSE g)
<1>1. s.last = p - 1 /\ ExactTotal(s, g)
  BY DEF Awaited
<1>2. CASE n.lost
  <2>1. (g + 1) - 1 = g
    OBVIOUS
  <2> QED
    BY <1>1, <1>2, <2>1 DEF Awaited
<1>3. CASE ~n.lost
  BY <1>1, <1>3 DEF Awaited
<1> QED
  BY <1>2, <1>3

\* The driver's execution writes its position.
LEMMA SaveWritten ==
  ASSUME NEW q, NEW p \in Nat, NEW g \in Nat, q.role = "driver", q.id = p,
         q.from \in State, q.lost \in BOOLEAN, q.pc = "set", Awaited(q, q.from, p, g)
  PROVE  Written(UpdatedState(q), p, g)
<1>1. PICK total \in Nat, last \in Nat : total = q.from.total /\ last = q.from.last
  BY DEF State
<1>2. PICK s : s = UpdatedState(q)
  OBVIOUS
<1>3. s.total = total + Delta(q) /\ s.last = p
  BY <1>1, <1>2, ReportTypes
<1>4. last = p - 1
  BY <1>1 DEF Awaited
<1>5. p # 0
  BY <1>4
<1>6. CASE q.lost
  <2>1. last # 0 /\ total = last - 1 - (g - 1)
    BY <1>1, <1>6 DEF Awaited, ExactTotal, None
  <2>2. Delta(q) = 0
    BY <1>6 DEF Delta
  <2>3. s.total = p - 1 - g
    BY <1>3, <1>4, <2>1, <2>2
  <2> QED
    BY <1>2, <1>3, <1>5, <2>3 DEF Written, ExactTotal, None
<1>7. CASE ~q.lost /\ last = 0
  <2>1. total = 0 /\ g = 0
    BY <1>1, <1>7 DEF Awaited, ExactTotal, None
  <2>2. Delta(q) = 0
    BY <1>1, <1>7 DEF Delta, None
  <2>3. s.total = p - 1 - g
    BY <1>3, <1>4, <1>7, <2>1, <2>2
  <2> QED
    BY <1>2, <1>3, <1>5, <2>3 DEF Written, ExactTotal, None
<1>8. CASE ~q.lost /\ last # 0
  <2>1. total = last - 1 - g
    BY <1>1, <1>8 DEF Awaited, ExactTotal, None
  <2>2. Delta(q) = Distance(last, p)
    BY <1>1, <1>8 DEF Delta, None
  <2>3. Delta(q) = 1
    BY <1>4, <2>2 DEF Distance
  <2>4. s.total = p - 1 - g
    BY <1>3, <1>4, <2>1, <2>3
  <2> QED
    BY <1>2, <1>3, <1>5, <2>4 DEF Written, ExactTotal, None
<1> QED
  BY <1>6, <1>7, <1>8

\* A report of the rider leaves the total and the last location as it read them.
LEMMA RiderUpdate ==
  ASSUME NEW q, q.role = "rider", q.id \in Nat, q.from \in State, q.lost \in BOOLEAN
  PROVE  UpdatedState(q).total = q.from.total /\ UpdatedState(q).last = q.from.last
<1>1. Delta(q) = 0
  BY DEF Delta
<1>2. q.from.total \in Nat
  BY DEF State
<1>3. UpdatedState(q).total = q.from.total + Delta(q) /\ UpdatedState(q).last = q.from.last
  BY ReportTypes
<1> QED
  BY <1>1, <1>2, <1>3

\* A request that begins keeps the state exact.
LEMMA ExactArrival ==
  ASSUME TypeOK, OrderInv, OrderInv', ExactInv, NEW r \in Reporters,
         DriverReports(r) \/ RiderReports(r)
  PROVE  ExactInv'
<1>t. rep \in [Reporters -> Report] /\ position \in Nat
  BY DEF TypeOK
<1>1. PICK q \in Report :
        /\ rep[r].pc = "idle" /\ q.pc = "read" /\ rep' = [rep EXCEPT ![r] = q]
        /\ UNCHANGED <<state, comp, geo, stale>>
        /\ \/ q.role = "driver" /\ position' = position + 1
           \/ q.role = "rider" /\ position' = position
  BY ArrivalSteps
<1>2. rep'[r] = q /\ \A s \in Reporters : s # r => rep'[s] = rep[s]
  BY <1>t, <1>1
<1>3. ~Ahead(rep[r])
  BY <1>1 DEF Ahead
<1>4. CASE q.role = "driver"
  <2>1. DriverAt(r)' /\ position' = position + 1
    BY <1>1, <1>2, <1>4 DEF DriverAt
  <2>2. comp.pc = "idle" /\ \A s \in Reporters : s # r => ~DriverAt(s)'
    BY <1>1, <2>1 DEF OrderInv
  <2>3. \A s \in Reporters : s # r => ~Ahead(rep[s]) /\ ~Ahead(rep'[s])
    BY <1>2, <2>2 DEF Ahead, DriverAt
  <2>4. ~Ahead(comp) /\ comp.pc \in Uncharged /\ comp.pc \notin Charged
    BY <2>2 DEF Ahead, Uncharged, Charged
  <2>5. ~stale => Written(state, position, geo)
    BY <1>3, <2>3, <2>4 DEF ExactInv, Exact
  <2>6. ~stale => Awaited(q, state, position + 1, geo)
    BY <1>1, <1>t, <2>5, WrittenAwaited
  <2>7. Ahead(q)
    BY <1>1, <1>4 DEF Ahead
  <2>8. ~stale => Exact(rep', comp, state, position + 1, geo)
    BY <1>2, <2>3, <2>4, <2>6, <2>7 DEF Exact
  <2> QED
    BY <1>1, <2>1, <2>4, <2>8 DEF ExactInv
<1>5. CASE q.role = "rider"
  <2>1. ~Ahead(q) /\ position' = position
    BY <1>1, <1>5 DEF Ahead
  <2>2. \A s \in Reporters : /\ Ahead(rep'[s]) <=> Ahead(rep[s])
                             /\ Ahead(rep'[s]) => rep'[s] = rep[s]
    BY <1>2, <1>3, <2>1
  <2>3. ~stale /\ comp.pc \in Uncharged => Exact(rep', comp, state, position, geo)
    BY <2>2, ExactSame DEF ExactInv
  <2> QED
    BY <1>1, <2>1, <2>3 DEF ExactInv
<1> QED
  BY <1>4, <1>5 DEF Report

\* A step of recordTripLocation keeps the state exact.
LEMMA ExactRecord ==
  ASSUME TypeOK, OrderInv, ExactInv, NEW r \in Reporters, RecordStep(r)
  PROVE  ExactInv'
<1>t. /\ rep \in [Reporters -> Report] /\ position \in Nat /\ geo \in Nat
      /\ comp \in Completion
  BY DEF TypeOK
<1>r. /\ rep[r].role \in {"driver", "rider"} /\ rep[r].id \in Nat
      /\ rep[r].from \in State /\ rep[r].lost \in BOOLEAN
  BY <1>t DEF Report
<1>c. comp.pc \in Charged => comp.pc \notin Uncharged /\ comp.pc # "idle"
  BY DEF Charged, Uncharged
<1>1. PICK q \in Report :
        /\ rep' = [rep EXCEPT ![r] = q]
        /\ UNCHANGED <<comp, position>>
        /\ \/ /\ rep[r].pc = "read" /\ q.pc = "set" /\ q.role = rep[r].role
              /\ UNCHANGED <<state, stale>>
              /\ q.lost => q.role = "driver" /\ state.last # None
              /\ geo' = IF q.lost THEN geo + 1 ELSE geo
           \/ /\ rep[r].pc = "set" /\ q.pc = "push"
              /\ state' = UpdatedState(rep[r])
              /\ stale' = (stale \/ done \/ state # rep[r].from)
              /\ UNCHANGED geo
           \/ /\ rep[r].pc = "push" /\ q.pc = "idle"
              /\ UNCHANGED <<state, geo, stale>>
  <2>1. NoReport.pc = "idle"
    BY DEF NoReport
  <2> QED
    BY <2>1, RecordSteps DEF ReportStep
<1>2. rep'[r] = q /\ \A s \in Reporters : s # r => rep'[s] = rep[s]
  BY <1>t, <1>1
<1>3. rep[r].pc # "idle"
  BY <1>1
<1>4. rep[r].role = "driver" =>
        /\ rep[r].id = position /\ comp.pc = "idle"
        /\ \A s \in Reporters : s # r => ~Ahead(rep[s])
        /\ ~Ahead(comp)
  BY <1>3 DEF OrderInv, DriverAt, Ahead
<1>5. q.lost \in BOOLEAN
  BY DEF Report
<1>6. CASE rep[r].pc = "read"
  <2>1. /\ q.pc = "set" /\ q.role = rep[r].role /\ UNCHANGED <<state, stale>>
        /\ q.lost => q.role = "driver" /\ state.last # None
        /\ geo' = IF q.lost THEN geo + 1 ELSE geo
    BY <1>1, <1>6
  <2>2. CASE rep[r].role = "driver"
    <3>1. Ahead(rep[r]) /\ Ahead(q) /\ comp.pc \in Uncharged /\ comp.pc \notin Charged
      BY <1>4, <1>6, <2>1, <2>2 DEF Ahead, Uncharged, Charged
    <3>2. ~stale => Awaited(rep[r], state, position, geo)
      BY <3>1 DEF ExactInv, Exact
    <3>3. ~stale => Awaited(q, state, position, geo')
      BY <1>5, <1>6, <1>t, <2>1, <3>2, ReadAwaited
    <3>4. ~stale => Exact(rep', comp, state, position, geo')
      BY <1>2, <1>4, <2>2, <3>1, <3>3 DEF Exact
    <3> QED
      BY <1>1, <2>1, <3>1, <3>4 DEF ExactInv
  <2>3. CASE rep[r].role = "rider"
    <3>1. ~Ahead(rep[r]) /\ ~Ahead(q) /\ geo' = geo
      BY <2>1, <2>3 DEF Ahead
    <3>2. \A s \in Reporters : /\ Ahead(rep'[s]) <=> Ahead(rep[s])
                               /\ Ahead(rep'[s]) => rep'[s] = rep[s]
      BY <1>2, <3>1
    <3>3. ~stale /\ comp.pc \in Uncharged => Exact(rep', comp, state, position, geo)
      BY <3>2, ExactSame DEF ExactInv
    <3> QED
      BY <1>1, <2>1, <3>1, <3>3 DEF ExactInv
  <2> QED
    BY <1>r, <2>2, <2>3
<1>7. CASE rep[r].pc = "set"
  <2>1. /\ q.pc = "push" /\ state' = UpdatedState(rep[r])
        /\ stale' = (stale \/ done \/ state # rep[r].from) /\ geo' = geo
    BY <1>1, <1>7
  <2>2. SUFFICES ASSUME ~stale' PROVE ExactInv'
    BY DEF ExactInv
  <2>3. ~stale /\ state = rep[r].from
    BY <2>1, <2>2
  <2>4. ~Ahead(q)
    BY <2>1 DEF Ahead
  <2>5. CASE rep[r].role = "driver"
    <3>1. Ahead(rep[r]) /\ comp.pc \in Uncharged /\ comp.pc \notin Charged
      BY <1>4, <1>7, <2>5 DEF Ahead, Uncharged, Charged
    <3>2. Awaited(rep[r], rep[r].from, position, geo)
      BY <2>3, <3>1 DEF ExactInv, Exact
    <3>3. Written(UpdatedState(rep[r]), position, geo)
      BY <1>4, <1>7, <1>r, <1>t, <2>5, <3>2, SaveWritten
    <3>4. Exact(rep', comp, state', position, geo)
      BY <1>2, <1>4, <2>1, <2>4, <2>5, <3>3 DEF Exact
    <3> QED
      BY <1>1, <2>1, <3>1, <3>4 DEF ExactInv
  <2>6. CASE rep[r].role = "rider"
    <3>1. ~Ahead(rep[r])
      BY <2>6 DEF Ahead
    <3>2. \A s \in Reporters : /\ Ahead(rep'[s]) <=> Ahead(rep[s])
                               /\ Ahead(rep'[s]) => rep'[s] = rep[s]
      BY <1>2, <2>4, <3>1
    <3>3. state'.total = state.total /\ state'.last = state.last
      BY <1>r, <2>1, <2>3, <2>6, RiderUpdate
    <3>4. comp.pc \in Uncharged => Exact(rep', comp, state', position, geo)
      BY <2>3, <3>2, <3>3, ExactSame DEF ExactInv
    <3> QED
      BY <1>1, <2>1, <2>3, <3>4 DEF ExactInv
  <2> QED
    BY <1>r, <2>5, <2>6
<1>8. CASE rep[r].pc = "push"
  <2>1. q.pc = "idle" /\ UNCHANGED <<state, geo, stale>>
    BY <1>1, <1>8
  <2>2. ~Ahead(rep[r]) /\ ~Ahead(q)
    BY <1>8, <2>1 DEF Ahead
  <2>3. \A s \in Reporters : /\ Ahead(rep'[s]) <=> Ahead(rep[s])
                             /\ Ahead(rep'[s]) => rep'[s] = rep[s]
    BY <1>2, <2>2
  <2>4. ~stale /\ comp.pc \in Uncharged => Exact(rep', comp, state, position, geo)
    BY <2>3, ExactSame DEF ExactInv
  <2> QED
    BY <1>1, <2>1, <2>4 DEF ExactInv
<1> QED
  BY <1>1, <1>6, <1>7, <1>8

\* A step of completeRide keeps the state, and then the fare, exact.
LEMMA ExactCompletion ==
  ASSUME TypeOK, OrderInv, OrderInv', ExactInv, CompleteRide \/ CompleteStep
  PROVE  ExactInv'
<1>t. /\ position \in Nat /\ geo \in Nat /\ comp \in Completion /\ state \in State
  BY DEF TypeOK
<1>q. /\ comp.role = "driver" /\ comp.id \in Nat /\ comp.from \in State
      /\ comp.lost \in BOOLEAN
  BY <1>t DEF Completion
<1>1. CASE CompleteRide
  <2>1. /\ comp.pc = "idle" /\ comp'.pc = "read" /\ comp' \in Completion
        /\ position' = position + 1 /\ UNCHANGED <<state, rep, geo, stale>>
    BY <1>1, CompletionStep
  <2>2. \A s \in Reporters : ~DriverAt(s)'
    BY <2>1 DEF OrderInv
  <2>3. \A s \in Reporters : ~Ahead(rep[s])
    BY <2>1, <2>2 DEF Ahead, DriverAt
  <2>4. ~Ahead(comp) /\ comp.pc \in Uncharged /\ comp'.pc \notin Charged /\ Ahead(comp')
    BY <2>1 DEF Ahead, Uncharged, Charged, Completion
  <2>5. ~stale => Written(state, position, geo)
    BY <2>3, <2>4 DEF ExactInv, Exact
  <2>6. ~stale => Awaited(comp', state, position + 1, geo)
    BY <1>t, <2>1, <2>5, WrittenAwaited
  <2>7. ~stale => Exact(rep, comp', state, position + 1, geo)
    BY <2>3, <2>4, <2>6 DEF Exact
  <2> QED
    BY <2>1, <2>4, <2>7 DEF ExactInv
<1>2. CASE CompleteStep
  <2>1. /\ comp' \in Completion /\ comp'.role = "driver" /\ comp'.id = comp.id
        /\ UNCHANGED <<rep, position>> /\ comp.pc # "idle"
    BY <1>2, CompleteSteps DEF ReportStep
  <2>2. \A s \in Reporters : ~Ahead(rep[s])
    BY <2>1 DEF OrderInv, DriverAt, Ahead
  <2>3. comp.id = position /\ position > 0
    BY <2>1 DEF OrderInv
  <2>4. CASE CompleteRead
    <3>1. /\ comp.pc = "read" /\ comp'.pc = "set" /\ UNCHANGED <<state, stale>>
          /\ comp'.lost => state.last # None
          /\ geo' = IF comp'.lost THEN geo + 1 ELSE geo
      BY <1>2, <2>4, CompleteSteps DEF ReportStep, CompleteRead, GetState
    <3>2. Ahead(comp) /\ Ahead(comp') /\ comp.pc \in Uncharged /\ comp'.pc \notin Charged
      BY <1>q, <2>1, <3>1 DEF Ahead, Uncharged, Charged
    <3>3. ~stale => Awaited(comp, state, position, geo)
      BY <3>2 DEF ExactInv, Exact
    <3>4. comp'.lost \in BOOLEAN
      BY <2>1 DEF Completion
    <3>5. ~stale => Awaited(comp', state, position, geo')
      BY <1>t, <3>1, <3>3, <3>4, ReadAwaited
    <3>6. ~stale => Exact(rep, comp', state, position, geo')
      BY <2>2, <3>2, <3>5 DEF Exact
    <3> QED
      BY <2>1, <3>1, <3>2, <3>6 DEF ExactInv
  <2>5. CASE CompleteSave
    <3>1. /\ comp.pc = "set" /\ comp'.pc = "push" /\ state' = UpdatedState(comp)
          /\ stale' = (stale \/ done \/ state # comp.from) /\ geo' = geo
      BY <1>2, <2>5, CompleteSteps DEF ReportStep, CompleteSave, SaveState
    <3>2. SUFFICES ASSUME ~stale' PROVE ExactInv'
      BY DEF ExactInv
    <3>3. ~stale /\ state = comp.from
      BY <3>1, <3>2
    <3>4. Ahead(comp) /\ ~Ahead(comp') /\ comp.pc \in Uncharged /\ comp'.pc \notin Charged
      BY <1>q, <3>1 DEF Ahead, Uncharged, Charged
    <3>5. Awaited(comp, comp.from, position, geo)
      BY <3>3, <3>4 DEF ExactInv, Exact
    <3>6. Written(UpdatedState(comp), position, geo)
      BY <1>q, <1>t, <2>3, <3>1, <3>5, SaveWritten
    <3>7. Exact(rep, comp', state', position, geo)
      BY <2>2, <3>1, <3>4, <3>6 DEF Exact
    <3> QED
      BY <2>1, <3>1, <3>4, <3>7 DEF ExactInv
  <2>6. CASE CompletePush
    <3>1. comp.pc = "push" /\ comp'.pc = "distance" /\ UNCHANGED <<state, geo, stale>>
      BY <1>2, <2>6, CompleteSteps DEF CompletePush, PushEvent
    <3>2. ~Ahead(comp) /\ ~Ahead(comp') /\ comp.pc \in Uncharged /\ comp'.pc \notin Charged
      BY <3>1 DEF Ahead, Uncharged, Charged
    <3>3. ~stale => Exact(rep, comp', state, position, geo)
      BY <3>2 DEF ExactInv, Exact
    <3> QED
      BY <2>1, <3>1, <3>2, <3>3 DEF ExactInv
  <2>7. CASE GetTotalDistance
    <3>1. /\ comp.pc = "distance" /\ comp'.pc = "transition"
          /\ comp'.fare = FareDistance(state.total)
          /\ UNCHANGED <<state, geo, stale>>
      BY <1>2, <2>7, CompleteSteps DEF GetTotalDistance
    <3>2. ~Ahead(comp) /\ comp.pc \in Uncharged /\ comp'.pc \notin Uncharged
      BY <3>1 DEF Ahead, Uncharged
    <3>3. ~stale => Written(state, position, geo)
      BY <2>2, <3>2 DEF ExactInv, Exact
    <3>4. ~stale => state.total = position - 1 - geo
      BY <1>t, <2>3, <3>3 DEF Written, ExactTotal, None
    <3>5. ~stale => comp'.fare = FareDistance(comp'.id - 1 - geo) /\ geo < comp'.id
      <4>1. state.total \in Nat /\ position \in Nat /\ geo \in Nat
        BY DEF TypeOK, State
      <4>2. ~stale => geo < position
        BY <3>4, <4>1
      <4> QED
        BY <2>1, <2>3, <3>1, <3>4, <4>2
    <3> QED
      BY <3>1, <3>2, <3>5 DEF ExactInv
  <2>8. CASE Transition \/ ReadBeforeMark \/ MarkRideCompleted \/ EnqueueFlushRideJob
    <3>1. /\ comp.pc \in Charged /\ comp'.pc \in Charged /\ comp'.fare = comp.fare /\ geo' = geo
          /\ stale' = stale \/ stale' = (stale \/ state # comp.from)
      BY <1>2, <2>8, CompleteSteps
         DEF Transition, ReadBeforeMark, MarkRideCompleted, EnqueueFlushRideJob, Charged
    <3>2. comp'.pc \notin Uncharged
      BY <3>1 DEF Charged, Uncharged
    <3>3. ~stale' => ~stale
      BY <3>1
    <3> QED
      BY <2>1, <3>1, <3>2, <3>3 DEF ExactInv
  <2> QED
    BY <1>2, <2>4, <2>5, <2>6, <2>7, <2>8 DEF CompleteStep
<1> QED
  BY <1>1, <1>2

\* Every step keeps the state and the fare exact.
LEMMA ExactKept ==
  ASSUME TypeOK, OrderInv, OrderInv', MarkInv, ExactInv, [Next]_vars
  PROVE  ExactInv'
<1>1. ASSUME NEW r \in Reporters, DriverReports(r) \/ RiderReports(r) PROVE ExactInv'
  BY <1>1, ExactArrival
<1>2. ASSUME NEW r \in Reporters, RecordStep(r) PROVE ExactInv'
  BY <1>2, ExactRecord
<1>3. CASE CompleteRide \/ CompleteStep
  BY <1>3, ExactCompletion
<1>4. ASSUME NEW f \in Flushers,
             FlushAll(f) \/ FlushRideJob(f) \/ FlushStep(f) \/ PersistFails(f)
      PROVE  ExactInv'
  <2>1. /\ UNCHANGED <<rep, comp, position, geo, stale>>
        /\ state' = state \/ flush[f].pc = "cleanup"
    BY <1>4, FlushSteps
  <2>2. flush[f].pc = "cleanup" => comp.pc \notin Uncharged
    BY DEF MarkInv, Uncharged
  <2> QED
    BY <2>1, <2>2 DEF ExactInv
<1>5. CASE UNCHANGED vars
  BY <1>5 DEF ExactInv, vars
<1> QED
  BY <1>1, <1>2, <1>3, <1>4, <1>5 DEF Next

\* When the driver's phone waits for each answer, and no state that was out of
\* date was written back, the fare is computed from exactly the distance driven,
\* less the distances that Redis failed to compute, and from the estimate just
\* when nothing is left: completeRide records the driver's last location before it reads the total, and cleanupRide removes the
\* state only after it.
THEOREM FareDistanceCorrect ==
  ASSUME DriverWaits
  PROVE  Spec => []FareDistanceIsExact
<1>1. Init => OrderInv
  BY DEF Init, OrderInv, DriverAt, NoReport, NoCompletion
<1>2. Init => MarkInv
  BY DEF Init, MarkInv, NoReport, NoCompletion, NoState, NoFlush
<1>3. Init => ExactInv
  <2> SUFFICES ASSUME Init PROVE ExactInv
    OBVIOUS
  <2>1. comp.pc = "idle" /\ \A r \in Reporters : rep[r].pc = "idle"
    BY DEF Init, NoCompletion, NoReport
  <2>2. Written(state, position, geo)
    BY DEF Init, NoState, Written, ExactTotal, None
  <2>3. Exact(rep, comp, state, position, geo)
    BY <2>1, <2>2 DEF Exact, Ahead
  <2>4. comp.pc \notin Charged
    BY <2>1 DEF Charged
  <2> QED
    BY <2>3, <2>4 DEF ExactInv
<1>4. TypeOK /\ ExactInv => FareDistanceIsExact
  <2> SUFFICES ASSUME TypeOK, ExactInv, ~stale, comp.pc \in Charged
               PROVE  LET tracked == comp.id - 1 - geo
                      IN  IF tracked = 0 THEN comp.fare = Estimate ELSE comp.fare = tracked
    BY DEF FareDistanceIsExact, Charged
  <2>1. comp.id \in Nat /\ geo \in Nat
    BY DEF TypeOK, Completion
  <2>2. comp.fare = FareDistance(comp.id - 1 - geo) /\ geo < comp.id
    BY DEF ExactInv
  <2> QED
    BY <2>1, <2>2 DEF FareDistance
<1> QED
  BY <1>1, <1>2, <1>3, <1>4, InitTypeOK, NextTypeOK, OrderKept, MarkKept, ExactKept, PTL DEF Spec

-----------------------------------------------------------------------------
(***************************************************************************)
(* No report is persisted twice.                                           *)
(***************************************************************************)

\* One worker flushes, one job at a time.
OneWorker == \A f, g \in Flushers : f = g

DupFree(s) == \A i, j \in DOMAIN s : Key(s[i]) = Key(s[j]) => i = j

\* An execution whose event is still to be pushed.
Unpushed(q) == q.pc \in {"read", "set", "push"}

\* A flush whose batch is still to be persisted.
Unpersisted(q) == q.pc \in {"del", "persist"}

\* A report that neither table T, nor list E, nor a batch of F holds.
Fresh(k, T, E, F) ==
  /\ k \notin Keys(T) /\ k \notin Keys(E)
  /\ \A f \in Flushers : Unpersisted(F[f]) => k \notin Keys(F[f].batch)

\* A report that was sent, when the driver has sent p and the rider n of them.
Sent(k, p, n) == IF k[1] = "driver" THEN k[2] <= p ELSE k[2] <= n

\* The reports in the table, in the list and in the batch of the worker.
TrackInv ==
  /\ DupFree(tracks) /\ DupFree(events) /\ Keys(tracks) \cap Keys(events) = {}
  /\ \A f \in Flushers : Unpersisted(flush[f]) =>
       DupFree(flush[f].batch) /\ Keys(flush[f].batch) \cap Keys(tracks) = {}
  /\ \A f \in Flushers : flush[f].pc = "persist" =>
       Keys(flush[f].batch) \cap Keys(events) = {}

\* The reports in flight are different, and not yet in any of those.
FlightInv ==
  /\ \A r \in Reporters : Unpushed(rep[r]) => Fresh(Key(rep[r]), tracks, events, flush)
  /\ Unpushed(comp) => Fresh(Key(comp), tracks, events, flush)
  /\ \A r, s \in Reporters :
       Unpushed(rep[r]) /\ Unpushed(rep[s]) /\ Key(rep[r]) = Key(rep[s]) => r = s
  /\ \A r \in Reporters : Unpushed(rep[r]) /\ Unpushed(comp) => Key(rep[r]) # Key(comp)

\* Everything that is held was sent.
SentInv ==
  /\ \A k \in Keys(tracks) : Sent(k, position, rider)
  /\ \A k \in Keys(events) : Sent(k, position, rider)
  /\ \A f \in Flushers : Unpersisted(flush[f]) =>
       \A k \in Keys(flush[f].batch) : Sent(k, position, rider)
  /\ \A r \in Reporters : Unpushed(rep[r]) => Sent(Key(rep[r]), position, rider)
  /\ Unpushed(comp) => Sent(Key(comp), position, rider)

\* The empty sequence holds no report.
LEMMA NoKeys == Keys(<< >>) = {} /\ DupFree(<< >>)
<1>1. DOMAIN << >> = {}
  OBVIOUS
<1> QED
  BY <1>1 DEF Keys, DupFree

\* Two sequences without a report in common hold none twice together.
LEMMA KeysConcat ==
  ASSUME NEW s \in Seq(Event), NEW t \in Seq(Event)
  PROVE  /\ Keys(s \o t) = Keys(s) \cup Keys(t)
         /\ DupFree(s) /\ DupFree(t) /\ Keys(s) \cap Keys(t) = {} => DupFree(s \o t)
<1> DEFINE u == s \o t
<1>1. PICK n \in Nat, m \in Nat : n = Len(s) /\ m = Len(t)
  OBVIOUS
<1>2. /\ u \in Seq(Event) /\ DOMAIN u = 1 .. (n + m)
      /\ DOMAIN s = 1 .. n /\ DOMAIN t = 1 .. m
      /\ \A i \in 1 .. n : u[i] = s[i]
      /\ \A i \in 1 .. m : u[n + i] = t[i]
  BY <1>1, ConcatProperties
<1> HIDE DEF u
<1>3. \A i \in 1 .. (n + m) : i \in 1 .. n \/ \E j \in 1 .. m : i = n + j
  <2> SUFFICES ASSUME NEW i \in 1 .. (n + m), i \notin 1 .. n
               PROVE  \E j \in 1 .. m : i = n + j
    OBVIOUS
  <2>1. i - n \in 1 .. m /\ i = n + (i - n)
    OBVIOUS
  <2> QED
    BY <2>1
<1>4. /\ \A i \in 1 .. n : i \in 1 .. (n + m)
      /\ \A i \in 1 .. m : n + i \in 1 .. (n + m)
  OBVIOUS
<1>5. \A i \in 1 .. n : Key(u[i]) = Key(s[i]) /\ Key(s[i]) \in Keys(s)
  BY <1>2 DEF Keys
<1>6. \A i \in 1 .. m : Key(u[n + i]) = Key(t[i]) /\ Key(t[i]) \in Keys(t)
  BY <1>2 DEF Keys
<1>7. \A k : k \in Keys(u) => k \in Keys(s) \/ k \in Keys(t)
  <2> SUFFICES ASSUME NEW i \in 1 .. (n + m) PROVE Key(u[i]) \in Keys(s) \cup Keys(t)
    BY <1>2 DEF Keys
  <2> QED
    BY <1>3, <1>5, <1>6
<1>8. \A k : k \in Keys(s) => k \in Keys(u)
  <2> SUFFICES ASSUME NEW i \in 1 .. n PROVE Key(s[i]) \in Keys(u)
    BY <1>2 DEF Keys
  <2>1. Key(u[i]) \in Keys(u)
    BY <1>2, <1>4 DEF Keys
  <2> QED
    BY <1>5, <2>1
<1>9. \A k : k \in Keys(t) => k \in Keys(u)
  <2> SUFFICES ASSUME NEW i \in 1 .. m PROVE Key(t[i]) \in Keys(u)
    BY <1>2 DEF Keys
  <2>1. Key(u[n + i]) \in Keys(u)
    BY <1>2, <1>4 DEF Keys
  <2> QED
    BY <1>6, <2>1
<1>10. Keys(u) = Keys(s) \cup Keys(t)
  BY <1>7, <1>8, <1>9
<1>11. ASSUME DupFree(s), DupFree(t), Keys(s) \cap Keys(t) = {} PROVE DupFree(u)
  <2> SUFFICES ASSUME NEW i \in 1 .. (n + m), NEW j \in 1 .. (n + m), Key(u[i]) = Key(u[j])
               PROVE  i = j
    BY <1>2 DEF DupFree
  <2>1. CASE i \in 1 .. n /\ j \in 1 .. n
    BY <1>2, <1>5, <1>11, <2>1 DEF DupFree
  <2>2. ASSUME NEW a \in 1 .. m, NEW b \in 1 .. m, i = n + a, j = n + b PROVE i = j
    <3>1. Key(t[a]) = Key(t[b])
      BY <1>6, <2>2
    <3>2. a = b
      BY <1>2, <1>11, <3>1 DEF DupFree
    <3> QED
      BY <2>2, <3>2
  <2>3. ASSUME i \in 1 .. n, NEW b \in 1 .. m, j = n + b PROVE FALSE
    BY <1>5, <1>6, <1>11, <2>3
  <2>4. ASSUME j \in 1 .. n, NEW a \in 1 .. m, i = n + a PROVE FALSE
    BY <1>5, <1>6, <1>11, <2>4
  <2> QED
    BY <1>3, <2>1, <2>2, <2>3, <2>4
<1> QED
  BY <1>10, <1>11 DEF u

\* An event whose report is not in the list yet.
LEMMA KeysAppend ==
  ASSUME NEW s \in Seq(Event), NEW e \in Event
  PROVE  /\ Keys(Append(s, e)) = Keys(s) \cup {Key(e)}
         /\ DupFree(s) /\ Key(e) \notin Keys(s) => DupFree(Append(s, e))
<1>1. <<e>> \in Seq(Event) /\ Append(s, e) = s \o <<e>>
  OBVIOUS
<1>2. DOMAIN <<e>> = {1} /\ <<e>>[1] = e
  OBVIOUS
<1>3. PICK t \in Seq(Event) :
        Append(s, e) = s \o t /\ Keys(t) = {Key(e)} /\ DupFree(t)
  <2>1. Keys(<<e>>) = {Key(e)} /\ DupFree(<<e>>)
    BY <1>2 DEF Keys, DupFree
  <2> QED
    BY <1>1, <2>1
<1>4. Key(e) \notin Keys(s) => Keys(s) \cap Keys(t) = {}
  BY <1>3
<1>5. Keys(s \o t) = Keys(s) \cup {Key(e)}
  BY <1>3, KeysConcat
<1>6. DupFree(s) /\ Key(e) \notin Keys(s) => DupFree(s \o t)
  BY <1>3, <1>4, KeysConcat
<1> QED
  BY <1>3, <1>5, <1>6

\* An event is pushed whose report is in nothing yet.
LEMMA PushKept ==
  ASSUME TypeOK, TrackInv, NEW e \in Event, Fresh(Key(e), tracks, events, flush),
         events' = Append(events, e), UNCHANGED <<tracks, flush>>
  PROVE  /\ TrackInv'
         /\ Keys(events') = Keys(events) \cup {Key(e)}
         /\ \A k : Fresh(k, tracks, events, flush) /\ k # Key(e) =>
              Fresh(k, tracks, events', flush)
<1>t. events \in Seq(Event)
  BY DEF TypeOK
<1>1. /\ Key(e) \notin Keys(tracks) /\ Key(e) \notin Keys(events)
      /\ \A f \in Flushers : Unpersisted(flush[f]) => Key(e) \notin Keys(flush[f].batch)
  BY DEF Fresh
<1>2. Keys(events') = Keys(events) \cup {Key(e)}
  BY <1>t, KeysAppend
<1>3. DupFree(events')
  BY <1>t, <1>1, KeysAppend DEF TrackInv
<1>4. Keys(tracks) \cap Keys(events') = {}
  BY <1>1, <1>2 DEF TrackInv
<1>5. \A f \in Flushers : flush[f].pc = "persist" =>
        Keys(flush[f].batch) \cap Keys(events') = {}
  BY <1>1, <1>2 DEF TrackInv, Unpersisted
<1>6. DupFree(tracks') /\ Keys(tracks') = Keys(tracks)
  BY DEF TrackInv, DupFree, Keys
<1>7. TrackInv'
  BY <1>3, <1>4, <1>5, <1>6 DEF TrackInv, Unpersisted
<1>8. \A k : Fresh(k, tracks, events, flush) /\ k # Key(e) => Fresh(k, tracks, events', flush)
  BY <1>2 DEF Fresh
<1> QED
  BY <1>2, <1>7, <1>8

\* A report that was not sent yet is in nothing.
LEMMA UnsentIsFresh ==
  ASSUME SentInv, NEW k, ~Sent(k, position, rider)
  PROVE  /\ Fresh(k, tracks, events, flush)
         /\ \A r \in Reporters : Unpushed(rep[r]) => Key(rep[r]) # k
         /\ Unpushed(comp) => Key(comp) # k
BY DEF SentInv, Fresh

\* What was sent stays sent.
LEMMA SentLater ==
  ASSUME TypeOK, SentInv, NEW p \in Nat, NEW n \in Nat, position <= p, rider <= n
  PROVE  /\ \A k \in Keys(tracks) : Sent(k, p, n)
         /\ \A k \in Keys(events) : Sent(k, p, n)
         /\ \A f \in Flushers : Unpersisted(flush[f]) => \A k \in Keys(flush[f].batch) : Sent(k, p, n)
         /\ \A r \in Reporters : Unpushed(rep[r]) => Sent(Key(rep[r]), p, n)
         /\ Unpushed(comp) => Sent(Key(comp), p, n)
<1>t. position \in Nat /\ rider \in Nat
  BY DEF TypeOK
<1>1. ASSUME NEW x, NEW i \in Nat, Sent(<<x, i>>, position, rider) PROVE Sent(<<x, i>>, p, n)
  <2>1. <<x, i>>[1] = x /\ <<x, i>>[2] = i
    OBVIOUS
  <2> QED
    BY <1>1, <1>t, <2>1 DEF Sent
<1>2. ASSUME NEW s \in Seq(Event), NEW k \in Keys(s), Sent(k, position, rider)
      PROVE  Sent(k, p, n)
  <2>1. PICK j \in DOMAIN s : k = Key(s[j])
    BY DEF Keys
  <2>2. s[j] \in Event
    BY <2>1
  <2>3. s[j].id \in Nat
    BY <2>2 DEF Event
  <2> QED
    BY <1>1, <1>2, <2>1, <2>3 DEF Key
<1>3. tracks \in Seq(Event) /\ events \in Seq(Event)
  BY DEF TypeOK
<1>4. \A f \in Flushers : flush[f].batch \in Seq(Event)
  BY DEF TypeOK, Flush
<1>5. comp.id \in Nat /\ \A r \in Reporters : rep[r].id \in Nat
  BY DEF TypeOK, Report, Completion
<1>6. \A r \in Reporters : Unpushed(rep[r]) => Sent(Key(rep[r]), p, n)
  BY <1>1, <1>5 DEF SentInv, Key
<1>7. Unpushed(comp) => Sent(Key(comp), p, n)
  BY <1>1, <1>5 DEF SentInv, Key
<1>8. /\ \A k \in Keys(tracks) : Sent(k, p, n)
      /\ \A k \in Keys(events) : Sent(k, p, n)
  BY <1>2, <1>3 DEF SentInv
<1>9. \A f \in Flushers : Unpersisted(flush[f]) => \A k \in Keys(flush[f].batch) : Sent(k, p, n)
  BY <1>2, <1>4 DEF SentInv
<1> QED
  BY <1>6, <1>7, <1>8, <1>9

DupInv == TrackInv /\ FlightInv /\ SentInv

\* A request that begins carries a report that is new.
LEMMA DupArrival ==
  ASSUME TypeOK, DupInv, NEW r \in Reporters, DriverReports(r) \/ RiderReports(r)
  PROVE  DupInv'
<1>t. rep \in [Reporters -> Report] /\ position \in Nat /\ rider \in Nat
  BY DEF TypeOK
<1>1. PICK q \in Report :
        /\ rep' = [rep EXCEPT ![r] = q] /\ rep[r].pc = "idle"
        /\ UNCHANGED <<tracks, events, flush, comp>>
        /\ \/ /\ q.role = "driver" /\ q.id = position + 1
              /\ position' = position + 1 /\ rider' = rider
           \/ /\ q.role = "rider" /\ q.id = rider + 1
              /\ position' = position /\ rider' = rider + 1
  BY ArrivalSteps
<1>2. rep'[r] = q /\ \A s \in Reporters : s # r => rep'[s] = rep[s]
  BY <1>t, <1>1
<1>3. Key(q)[1] = q.role /\ Key(q)[2] = q.id
  BY DEF Key
<1>4. ~Sent(Key(q), position, rider) /\ Sent(Key(q), position', rider')
  BY <1>1, <1>3, <1>t DEF Sent
<1>5. position' \in Nat /\ rider' \in Nat /\ position <= position' /\ rider <= rider'
  BY <1>1, <1>t
<1>6. /\ Fresh(Key(q), tracks, events, flush)
      /\ \A s \in Reporters : Unpushed(rep[s]) => Key(rep[s]) # Key(q)
      /\ Unpushed(comp) => Key(comp) # Key(q)
  BY <1>4, UnsentIsFresh DEF DupInv
<1>7. TrackInv'
  BY <1>1 DEF DupInv, TrackInv
<1>8. FlightInv'
  <2>1. \A s \in Reporters : Unpushed(rep'[s]) => Fresh(Key(rep'[s]), tracks, events, flush)
    BY <1>2, <1>6 DEF DupInv, FlightInv
  <2>2. ASSUME NEW s \in Reporters, NEW u \in Reporters, Unpushed(rep'[s]), Unpushed(rep'[u]),
               Key(rep'[s]) = Key(rep'[u])
        PROVE  s = u
    <3>1. CASE s = r \/ u = r
      BY <1>2, <1>6, <2>2, <3>1
    <3>2. CASE s # r /\ u # r
      BY <1>2, <2>2, <3>2 DEF DupInv, FlightInv
    <3> QED
      BY <3>1, <3>2
  <2>3. \A s \in Reporters : Unpushed(rep'[s]) /\ Unpushed(comp) => Key(rep'[s]) # Key(comp)
    BY <1>2, <1>6 DEF DupInv, FlightInv
  <2>4. Unpushed(comp) => Fresh(Key(comp), tracks, events, flush)
    BY DEF DupInv, FlightInv
  <2> QED
    BY <1>1, <2>1, <2>2, <2>3, <2>4 DEF FlightInv
<1>9. SentInv'
  <2>1. /\ \A k \in Keys(tracks) : Sent(k, position', rider')
        /\ \A k \in Keys(events) : Sent(k, position', rider')
        /\ \A f \in Flushers : Unpersisted(flush[f]) =>
             \A k \in Keys(flush[f].batch) : Sent(k, position', rider')
        /\ \A s \in Reporters : Unpushed(rep[s]) => Sent(Key(rep[s]), position', rider')
        /\ Unpushed(comp) => Sent(Key(comp), position', rider')
    BY <1>5, SentLater DEF DupInv
  <2>2. \A s \in Reporters : Unpushed(rep'[s]) => Sent(Key(rep'[s]), position', rider')
    BY <1>2, <1>4, <2>1
  <2> QED
    BY <1>1, <2>1, <2>2 DEF SentInv
<1> QED
  BY <1>7, <1>8, <1>9 DEF DupInv

\* So does the completion that begins.
LEMMA DupCompletion ==
  ASSUME TypeOK, DupInv, CompleteRide
  PROVE  DupInv'
<1>t. position \in Nat /\ rider \in Nat
  BY DEF TypeOK
<1>1. /\ comp' \in Completion /\ comp'.id = position + 1 /\ position' = position + 1
      /\ UNCHANGED <<tracks, events, flush, rep, rider>>
  BY CompletionStep
<1>2. comp'.role = "driver"
  BY <1>1 DEF Completion
<1>3. Key(comp')[1] = "driver" /\ Key(comp')[2] = position + 1
  BY <1>1, <1>2 DEF Key
<1>4. ~Sent(Key(comp'), position, rider) /\ Sent(Key(comp'), position', rider)
  BY <1>1, <1>3, <1>t DEF Sent
<1>5. position' \in Nat /\ position <= position' /\ rider <= rider
  BY <1>1, <1>t
<1>6. /\ Fresh(Key(comp'), tracks, events, flush)
      /\ \A s \in Reporters : Unpushed(rep[s]) => Key(rep[s]) # Key(comp')
  BY <1>4, UnsentIsFresh DEF DupInv
<1>7. TrackInv'
  BY <1>1 DEF DupInv, TrackInv
<1>8. FlightInv'
  BY <1>1, <1>6 DEF DupInv, FlightInv
<1>9. SentInv'
  <2>1. /\ \A k \in Keys(tracks) : Sent(k, position', rider)
        /\ \A k \in Keys(events) : Sent(k, position', rider)
        /\ \A f \in Flushers : Unpersisted(flush[f]) =>
             \A k \in Keys(flush[f].batch) : Sent(k, position', rider)
        /\ \A s \in Reporters : Unpushed(rep[s]) => Sent(Key(rep[s]), position', rider)
    BY <1>5, <1>t, SentLater DEF DupInv
  <2> QED
    BY <1>1, <1>4, <2>1 DEF SentInv
<1> QED
  BY <1>7, <1>8, <1>9 DEF DupInv

\* A report in flight is pushed once.
LEMMA DupRecord ==
  ASSUME TypeOK, DupInv, NEW r \in Reporters, RecordStep(r)
  PROVE  DupInv'
<1>t. rep \in [Reporters -> Report]
  BY DEF TypeOK
<1>n. ~Unpushed(NoReport)
  BY DEF Unpushed, NoReport
<1>1. PICK q \in Report :
        /\ rep' = [rep EXCEPT ![r] = q] /\ Unpushed(rep[r])
        /\ UNCHANGED <<tracks, flush, comp, position, rider>>
        /\ \/ q.role = rep[r].role /\ q.id = rep[r].id /\ events' = events
           \/ q = NoReport /\ events' = Append(events, TrackEvent(rep[r]))
  BY RecordSteps DEF ReportStep, Unpushed
<1>2. rep'[r] = q /\ \A s \in Reporters : s # r => rep'[s] = rep[s]
  BY <1>t, <1>1
<1>3. CASE q.role = rep[r].role /\ q.id = rep[r].id /\ events' = events
  <2>1. Key(q) = Key(rep[r])
    BY <1>3 DEF Key
  <2>2. \A s \in Reporters : /\ Unpushed(rep'[s]) => Unpushed(rep[s])
                             /\ Key(rep'[s]) = Key(rep[s])
    BY <1>1, <1>2, <2>1
  <2>3. TrackInv'
    BY <1>1, <1>3 DEF DupInv, TrackInv
  <2>4. FlightInv'
    BY <1>1, <1>3, <2>2 DEF DupInv, FlightInv
  <2>5. SentInv'
    BY <1>1, <1>3, <2>2 DEF DupInv, SentInv
  <2> QED
    BY <2>3, <2>4, <2>5 DEF DupInv
<1>4. CASE q = NoReport /\ events' = Append(events, TrackEvent(rep[r]))
  <2>1. PICK e \in Event : e = TrackEvent(rep[r]) /\ Key(e) = Key(rep[r])
    <3>1. /\ rep[r].role \in {"driver", "rider"} /\ rep[r].id \in Nat
          /\ rep[r].from \in State /\ rep[r].lost \in BOOLEAN
      BY <1>t DEF Report
    <3> QED
      BY <3>1, ReportTypes DEF Key
  <2>2. Fresh(Key(e), tracks, events, flush)
    BY <1>1, <2>1 DEF DupInv, FlightInv
  <2>3. /\ TrackInv'
        /\ Keys(events') = Keys(events) \cup {Key(e)}
        /\ \A k : Fresh(k, tracks, events, flush) /\ k # Key(e) =>
             Fresh(k, tracks, events', flush)
    BY <1>1, <1>4, <2>1, <2>2, PushKept DEF DupInv
  <2>4. \A s \in Reporters : Unpushed(rep'[s]) => s # r /\ rep'[s] = rep[s]
    BY <1>2, <1>4, <1>n
  <2>5. FlightInv'
    <3>1. \A s \in Reporters : Unpushed(rep'[s]) => Fresh(Key(rep'[s]), tracks, events', flush)
      BY <1>1, <2>1, <2>3, <2>4 DEF DupInv, FlightInv
    <3>2. Unpushed(comp) => Fresh(Key(comp), tracks, events', flush)
      BY <1>1, <2>1, <2>3 DEF DupInv, FlightInv
    <3>3. \A s, u \in Reporters :
            Unpushed(rep'[s]) /\ Unpushed(rep'[u]) /\ Key(rep'[s]) = Key(rep'[u]) => s = u
      BY <2>4 DEF DupInv, FlightInv
    <3>4. \A s \in Reporters : Unpushed(rep'[s]) /\ Unpushed(comp) => Key(rep'[s]) # Key(comp)
      BY <2>4 DEF DupInv, FlightInv
    <3> QED
      BY <1>1, <3>1, <3>2, <3>3, <3>4 DEF FlightInv
  <2>6. SentInv'
    <3>1. \A k \in Keys(events') : Sent(k, position, rider)
      BY <1>1, <2>1, <2>3 DEF DupInv, SentInv
    <3>2. \A s \in Reporters : Unpushed(rep'[s]) => Sent(Key(rep'[s]), position, rider)
      BY <2>4 DEF DupInv, SentInv
    <3> QED
      BY <1>1, <3>1, <3>2 DEF DupInv, SentInv
  <2> QED
    BY <2>3, <2>5, <2>6 DEF DupInv
<1> QED
  BY <1>1, <1>3, <1>4

\* The completion is pushed once.
LEMMA DupCompleteStep ==
  ASSUME TypeOK, DupInv, CompleteStep
  PROVE  DupInv'
<1>t. comp \in Completion /\ comp.role = "driver"
  BY DEF TypeOK, Completion
<1>1. /\ comp'.role = "driver" /\ comp'.id = comp.id
      /\ UNCHANGED <<tracks, flush, rep, position, rider>>
      /\ \/ events' = events /\ (Unpushed(comp') => Unpushed(comp))
         \/ /\ Unpushed(comp) /\ ~Unpushed(comp')
            /\ events' = Append(events, TrackEvent(comp))
  BY CompleteSteps DEF ReportStep, Unpushed
<1>2. Key(comp') = Key(comp)
  BY <1>1, <1>t DEF Key
<1>3. CASE events' = events /\ (Unpushed(comp') => Unpushed(comp))
  <2>1. TrackInv'
    BY <1>1, <1>3 DEF DupInv, TrackInv
  <2>2. FlightInv'
    BY <1>1, <1>2, <1>3 DEF DupInv, FlightInv
  <2>3. SentInv'
    BY <1>1, <1>2, <1>3 DEF DupInv, SentInv
  <2> QED
    BY <2>1, <2>2, <2>3 DEF DupInv
<1>4. CASE Unpushed(comp) /\ ~Unpushed(comp') /\ events' = Append(events, TrackEvent(comp))
  <2>1. PICK e \in Event : e = TrackEvent(comp) /\ Key(e) = Key(comp)
    <3>1. /\ comp.role \in {"driver", "rider"} /\ comp.id \in Nat
          /\ comp.from \in State /\ comp.lost \in BOOLEAN
      BY <1>t DEF Completion
    <3> QED
      BY <3>1, ReportTypes DEF Key
  <2>2. Fresh(Key(e), tracks, events, flush)
    BY <1>4, <2>1 DEF DupInv, FlightInv
  <2>3. /\ TrackInv'
        /\ Keys(events') = Keys(events) \cup {Key(e)}
        /\ \A k : Fresh(k, tracks, events, flush) /\ k # Key(e) =>
             Fresh(k, tracks, events', flush)
    BY <1>1, <1>4, <2>1, <2>2, PushKept DEF DupInv
  <2>4. \A s \in Reporters : Unpushed(rep[s]) => Fresh(Key(rep[s]), tracks, events', flush)
    BY <1>4, <2>1, <2>3 DEF DupInv, FlightInv
  <2>5. FlightInv'
    BY <1>1, <1>4, <2>4 DEF DupInv, FlightInv
  <2>6. \A k \in Keys(events') : Sent(k, position, rider)
    BY <1>4, <2>1, <2>3 DEF DupInv, SentInv
  <2>7. SentInv'
    BY <1>1, <1>4, <2>6 DEF DupInv, SentInv
  <2> QED
    BY <2>3, <2>5, <2>7 DEF DupInv
<1> QED
  BY <1>1, <1>3, <1>4

\* What one worker does: the batch leaves the list before it enters the table.
LEMMA FlushMoves ==
  ASSUME TypeOK, DupInv, OneWorker, NEW f \in Flushers,
         FlushAll(f) \/ FlushRideJob(f) \/ FlushStep(f) \/ PersistFails(f)
  PROVE  /\ TrackInv'
         /\ \A k : Fresh(k, tracks, events, flush) => Fresh(k, tracks', events', flush')
         /\ \A k \in Keys(tracks') : Sent(k, position, rider)
         /\ \A k \in Keys(events') : Sent(k, position, rider)
         /\ \A g \in Flushers : Unpersisted(flush'[g]) =>
              \A k \in Keys(flush'[g].batch) : Sent(k, position, rider)
<1>t. /\ flush \in [Flushers -> Flush] /\ tracks \in Seq(Event)
      /\ flush[f].batch \in Seq(Event)
  BY DEF TypeOK, Flush
<1>n. ~Unpersisted(NoFlush)
  BY DEF Unpersisted, NoFlush
<1>p. \A q : q.pc = "persist" => Unpersisted(q)
  BY DEF Unpersisted
<1>1. PICK q \in Flush :
        /\ flush' = [flush EXCEPT ![f] = q]
        /\ \/ /\ q.pc # "persist" /\ q.batch = events
              /\ UNCHANGED <<events, tracks>>
           \/ /\ flush[f].pc = "del" /\ q.pc = "persist" /\ q.batch = flush[f].batch
              /\ events' = << >> /\ UNCHANGED tracks
           \/ /\ flush[f].pc = "persist" /\ ~Unpersisted(q)
              /\ tracks' = tracks \o flush[f].batch /\ UNCHANGED events
           \/ /\ ~Unpersisted(q)
              /\ events' = events \/ events' = << >>
              /\ UNCHANGED tracks
  BY <1>n, FlushSteps DEF Unpersisted
<1>2. \A g \in Flushers : g = f /\ flush'[g] = q
  BY <1>1, <1>t DEF OneWorker
<1>3. /\ DupFree(tracks) /\ DupFree(events) /\ Keys(tracks) \cap Keys(events) = {}
      /\ Unpersisted(flush[f]) =>
           DupFree(flush[f].batch) /\ Keys(flush[f].batch) \cap Keys(tracks) = {}
      /\ flush[f].pc = "persist" => Keys(flush[f].batch) \cap Keys(events) = {}
  BY DEF DupInv, TrackInv
<1>4. /\ \A k \in Keys(tracks) : Sent(k, position, rider)
      /\ \A k \in Keys(events) : Sent(k, position, rider)
      /\ Unpersisted(flush[f]) => \A k \in Keys(flush[f].batch) : Sent(k, position, rider)
  BY DEF DupInv, SentInv
<1>5. \A k : Fresh(k, tracks, events, flush) =>
        /\ k \notin Keys(tracks) /\ k \notin Keys(events)
        /\ Unpersisted(flush[f]) => k \notin Keys(flush[f].batch)
  BY DEF Fresh
<1>6. ASSUME \A k : Fresh(k, tracks, events, flush) =>
               /\ k \notin Keys(tracks') /\ k \notin Keys(events')
               /\ Unpersisted(q) => k \notin Keys(q.batch),
             DupFree(tracks'), DupFree(events'), Keys(tracks') \cap Keys(events') = {},
             Unpersisted(q) => DupFree(q.batch) /\ Keys(q.batch) \cap Keys(tracks') = {},
             q.pc = "persist" => Keys(q.batch) \cap Keys(events') = {},
             \A k \in Keys(tracks') : Sent(k, position, rider),
             \A k \in Keys(events') : Sent(k, position, rider),
             Unpersisted(q) => \A k \in Keys(q.batch) : Sent(k, position, rider)
      PROVE  /\ TrackInv'
             /\ \A k : Fresh(k, tracks, events, flush) => Fresh(k, tracks', events', flush')
             /\ \A k \in Keys(tracks') : Sent(k, position, rider)
             /\ \A k \in Keys(events') : Sent(k, position, rider)
             /\ \A g \in Flushers : Unpersisted(flush'[g]) =>
                  \A k \in Keys(flush'[g].batch) : Sent(k, position, rider)
  <2>1. TrackInv'
    BY <1>2, <1>6 DEF TrackInv
  <2>2. \A k : Fresh(k, tracks, events, flush) => Fresh(k, tracks', events', flush')
    BY <1>2, <1>6 DEF Fresh
  <2> QED
    BY <1>2, <1>6, <2>1, <2>2
<1>7. CASE q.pc # "persist" /\ q.batch = events /\ UNCHANGED <<events, tracks>>
  <2>1. /\ \A k : Fresh(k, tracks, events, flush) =>
             /\ k \notin Keys(tracks') /\ k \notin Keys(events')
             /\ Unpersisted(q) => k \notin Keys(q.batch)
        /\ DupFree(tracks') /\ DupFree(events') /\ Keys(tracks') \cap Keys(events') = {}
        /\ Unpersisted(q) => DupFree(q.batch) /\ Keys(q.batch) \cap Keys(tracks') = {}
        /\ q.pc = "persist" => Keys(q.batch) \cap Keys(events') = {}
    BY <1>3, <1>5, <1>7
  <2> QED
    BY <1>4, <1>6, <1>7, <2>1
<1>8. CASE /\ flush[f].pc = "del" /\ q.pc = "persist" /\ q.batch = flush[f].batch
           /\ events' = << >> /\ UNCHANGED tracks
  <2>1. Unpersisted(flush[f]) /\ Unpersisted(q)
    BY <1>8 DEF Unpersisted
  <2>2. Keys(events') = {} /\ DupFree(events')
    BY <1>8, NoKeys
  <2>3. /\ \A k : Fresh(k, tracks, events, flush) =>
             /\ k \notin Keys(tracks') /\ k \notin Keys(events')
             /\ Unpersisted(q) => k \notin Keys(q.batch)
        /\ DupFree(tracks') /\ Keys(tracks') \cap Keys(events') = {}
        /\ Unpersisted(q) => DupFree(q.batch) /\ Keys(q.batch) \cap Keys(tracks') = {}
        /\ q.pc = "persist" => Keys(q.batch) \cap Keys(events') = {}
    BY <1>3, <1>5, <1>8, <2>1, <2>2
  <2> QED
    BY <1>4, <1>6, <1>8, <2>1, <2>2, <2>3
<1>9. CASE /\ flush[f].pc = "persist" /\ ~Unpersisted(q)
           /\ tracks' = tracks \o flush[f].batch /\ UNCHANGED events
  <2>1. Unpersisted(flush[f]) /\ q.pc # "persist"
    BY <1>9, <1>p
  <2>2. Keys(tracks') = Keys(tracks) \cup Keys(flush[f].batch)
    BY <1>9, <1>t, KeysConcat
  <2>3. DupFree(tracks')
    BY <1>3, <1>9, <1>t, <2>1, KeysConcat
  <2>4. /\ \A k : Fresh(k, tracks, events, flush) =>
             k \notin Keys(tracks') /\ k \notin Keys(events')
        /\ DupFree(events') /\ Keys(tracks') \cap Keys(events') = {}
    BY <1>3, <1>5, <1>9, <2>1, <2>2
  <2>5. /\ \A k \in Keys(tracks') : Sent(k, position, rider)
        /\ \A k \in Keys(events') : Sent(k, position, rider)
    BY <1>4, <1>9, <2>1, <2>2
  <2> QED
    BY <1>6, <1>9, <2>1, <2>3, <2>4, <2>5
<1>10. CASE ~Unpersisted(q) /\ (events' = events \/ events' = << >>) /\ UNCHANGED tracks
  <2>1. Keys(events') \subseteq Keys(events) /\ DupFree(events')
    BY <1>3, <1>10, NoKeys
  <2>2. /\ \A k : Fresh(k, tracks, events, flush) =>
             k \notin Keys(tracks') /\ k \notin Keys(events')
        /\ DupFree(tracks') /\ Keys(tracks') \cap Keys(events') = {}
        /\ q.pc # "persist"
    BY <1>3, <1>5, <1>10, <1>p, <2>1
  <2>3. /\ \A k \in Keys(tracks') : Sent(k, position, rider)
        /\ \A k \in Keys(events') : Sent(k, position, rider)
    BY <1>4, <1>10, <2>1
  <2> QED
    BY <1>6, <1>10, <2>1, <2>2, <2>3
<1> QED
  BY <1>1, <1>7, <1>8, <1>9, <1>10

\* Every step keeps the reports apart.
LEMMA DupKept ==
  ASSUME TypeOK, DupInv, OneWorker, [Next]_vars
  PROVE  DupInv'
<1>1. ASSUME NEW r \in Reporters, DriverReports(r) \/ RiderReports(r) PROVE DupInv'
  BY <1>1, DupArrival
<1>2. ASSUME NEW r \in Reporters, RecordStep(r) PROVE DupInv'
  BY <1>2, DupRecord
<1>3. CASE CompleteRide
  BY <1>3, DupCompletion
<1>4. CASE CompleteStep
  BY <1>4, DupCompleteStep
<1>5. ASSUME NEW f \in Flushers,
             FlushAll(f) \/ FlushRideJob(f) \/ FlushStep(f) \/ PersistFails(f)
      PROVE  DupInv'
  <2>1. UNCHANGED <<rep, comp, position, rider>>
    BY <1>5, FlushSteps
  <2>2. /\ TrackInv'
        /\ \A k : Fresh(k, tracks, events, flush) => Fresh(k, tracks', events', flush')
        /\ \A k \in Keys(tracks') : Sent(k, position, rider)
        /\ \A k \in Keys(events') : Sent(k, position, rider)
        /\ \A g \in Flushers : Unpersisted(flush'[g]) =>
             \A k \in Keys(flush'[g].batch) : Sent(k, position, rider)
    BY <1>5, FlushMoves
  <2>3. FlightInv'
    BY <2>1, <2>2 DEF DupInv, FlightInv
  <2>4. SentInv'
    BY <2>1, <2>2 DEF DupInv, SentInv
  <2> QED
    BY <2>2, <2>3, <2>4 DEF DupInv
<1>6. CASE UNCHANGED vars
  BY <1>6 DEF DupInv, TrackInv, FlightInv, SentInv, vars
<1> QED
  BY <1>1, <1>2, <1>3, <1>4, <1>5, <1>6 DEF Next

\* With one worker, no report is persisted twice, whatever else overlaps and
\* whichever transactions fail: flushRide deletes the list before it persists the
\* batch, and a report that is pushed between the two is lost, never repeated.
THEOREM TracksCorrect ==
  ASSUME OneWorker
  PROVE  Spec => []NoDuplicateTracks
<1>1. Init => DupInv
  <2> SUFFICES ASSUME Init PROVE DupInv
    OBVIOUS
  <2>1. /\ Keys(tracks) = {} /\ Keys(events) = {} /\ DupFree(tracks) /\ DupFree(events)
    BY NoKeys DEF Init
  <2>2. /\ \A r \in Reporters : ~Unpushed(rep[r])
        /\ ~Unpushed(comp)
        /\ \A f \in Flushers : ~Unpersisted(flush[f]) /\ flush[f].pc # "persist"
    BY DEF Init, Unpushed, Unpersisted, NoReport, NoCompletion, NoFlush
  <2>3. TrackInv
    BY <2>1, <2>2 DEF TrackInv
  <2>4. FlightInv
    BY <2>2 DEF FlightInv
  <2>5. SentInv
    BY <2>1, <2>2 DEF SentInv
  <2> QED
    BY <2>3, <2>4, <2>5 DEF DupInv
<1>2. DupInv => NoDuplicateTracks
  BY DEF DupInv, TrackInv, DupFree, NoDuplicateTracks
<1> QED
  BY <1>1, <1>2, InitTypeOK, NextTypeOK, DupKept, PTL DEF Spec
=============================================================================
