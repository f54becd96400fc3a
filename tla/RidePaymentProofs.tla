------------------------- MODULE RidePaymentProofs -------------------------
(***************************************************************************)
(* Proofs about RidePayment, for one call of proceedRidePayment at a time  *)
(* and any number of outbox rows, orders, attempts and crashes.  The order *)
(* id is written to the detail with the first outbox row and every save    *)
(* of a detail, however stale, brings back the same one.                   *)
(***************************************************************************)
EXTENDS RidePayment, SequenceTheorems, TLAPS

\* The rider does not ask to pay while an earlier call is in flight.
OnePayer == \A p, q \in Payers : p = q

(***************************************************************************)
(* The inductive invariant.                                                *)
(***************************************************************************)

PayerPcs == {"idle", "find", "persist", "enqueue", "saveJobId", "wait", "refresh",
             "update"}

WorkerPcs == {"idle", "detail", "processing", "post", "initiated", "completed",
              "error", "saveFailed"}

Outcomes == {"pending", "paid", "denied"}

TypeInv ==
  /\ pay \in [status : {"pending", "on_process", "paid"}, url : OrderId]
  /\ detail \in Detail
  /\ outbox \in Seq(OutboxRow)
  /\ job \in [Ids -> [state : JobState, attempts : Nat]]
  /\ orders \in OrderId
  /\ payer \in [Payers -> [pc : PayerPcs, detail : Detail, id : Nat]]
  /\ worker \in [pc : WorkerPcs, id : Nat, detail : Detail]
  /\ hook \in [pc : {"idle", "save"}, order : OrderId, outcome : Outcomes,
               detail : Detail]
  /\ psp \in [Orders -> {"unknown", "open", "paid", "denied"}]

\* The rows that the call and the worker refer to exist.
RowInv ==
  /\ \A i \in Ids : job[i].state = "waiting" => i \in DOMAIN outbox
  /\ \A p \in Payers :
       payer[p].pc \in {"enqueue", "saveJobId", "wait"} => payer[p].id \in DOMAIN outbox
  /\ worker.pc # "idle" => worker.id \in DOMAIN outbox

\* Whoever has read the detail since the order id was generated has that id.
OrderInv ==
  /\ \A i \in DOMAIN outbox : outbox[i].order = detail.order
  /\ \A p \in Payers : payer[p].pc = "persist" =>
       /\ payer[p].detail.order # None /\ payer[p].detail.url = None
       /\ detail.order # None => payer[p].detail.order = detail.order
  /\ worker.pc \notin {"idle", "detail"} => worker.detail.order = detail.order
  /\ hook.pc = "save" => hook.detail.order = detail.order /\ detail.order # None

\* The provider knows the order of the detail.
Known == detail.order # None /\ psp[detail.order] # "unknown"

\* The link that an entity brings back is the one of that order.
Linked(d) == d.url # None => d.url = detail.order /\ Known

LinkInv ==
  /\ \A o \in Orders : psp[o] # "unknown" => detail.order = o
  /\ Linked(detail) /\ Linked(worker.detail) /\ Linked(hook.detail)
  /\ \A p \in Payers : Linked(payer[p].detail)
  /\ worker.pc = "initiated" => Known
  /\ \A p \in Payers : payer[p].pc = "update" => payer[p].detail.url # None
  /\ pay.status = "on_process" => pay.url = detail.order /\ Known

PayInv == TypeInv /\ RowInv /\ OrderInv /\ LinkInv

-----------------------------------------------------------------------------
(***************************************************************************)
(* The outbox.                                                             *)
(***************************************************************************)

\* The statuses of rows may change, and nothing else of the outbox.
SameRows ==
  /\ outbox' \in Seq(OutboxRow) /\ DOMAIN outbox' = DOMAIN outbox
  /\ \A i \in DOMAIN outbox : outbox'[i].order = outbox[i].order

\* A function on the rows that keeps their orders does that.
LEMMA SameRowsIntro ==
  ASSUME outbox \in Seq(OutboxRow), NEW f, outbox' = f,
         f = [i \in DOMAIN outbox |-> f[i]],
         \A i \in DOMAIN outbox : f[i] \in OutboxRow /\ f[i].order = outbox[i].order
  PROVE  SameRows
<1>1. DOMAIN outbox = 1 .. Len(outbox) /\ Len(outbox) \in Nat
  BY LenProperties
<1>2. f \in [1 .. Len(outbox) -> OutboxRow]
  BY <1>1
<1>3. f \in Seq(OutboxRow)
  BY <1>1, <1>2, SeqDef
<1> QED
  BY <1>3 DEF SameRows

\* Saving the status of one row.
LEMMA SaveStatus ==
  ASSUME outbox \in Seq(OutboxRow), NEW i, NEW st \in OutboxStatus,
         outbox' = [outbox EXCEPT ![i].status = st]
  PROVE  SameRows
<1>1. \A k \in DOMAIN outbox : outbox[k] \in OutboxRow
  BY ElementOfSeq
<1>2. PICK f : f = [outbox EXCEPT ![i].status = st]
  OBVIOUS
<1>3. f = [k \in DOMAIN outbox |-> f[k]]
  BY <1>2
<1>4. \A k \in DOMAIN outbox : f[k] \in OutboxRow /\ f[k].order = outbox[k].order
  BY <1>1, <1>2 DEF OutboxRow
<1>5. outbox' = f
  BY <1>2
<1> QED
  BY <1>3, <1>4, <1>5, SameRowsIntro

\* Saving the status of the rows of an order.
LEMMA SaveStatuses ==
  ASSUME outbox \in Seq(OutboxRow), NEW o, NEW st \in OutboxStatus,
         outbox' = [i \in DOMAIN outbox |->
                      IF outbox[i].order = o
                        THEN [outbox[i] EXCEPT !.status = st] ELSE outbox[i]]
  PROVE  SameRows
<1>1. \A k \in DOMAIN outbox : outbox[k] \in OutboxRow
  BY ElementOfSeq
<1>2. PICK f : f = outbox'
  OBVIOUS
<1>3. f = [k \in DOMAIN outbox |-> f[k]]
  BY <1>2
<1>4. \A k \in DOMAIN outbox : f[k] \in OutboxRow /\ f[k].order = outbox[k].order
  BY <1>1, <1>2 DEF OutboxRow
<1> QED
  BY <1>2, <1>3, <1>4, SameRowsIntro

-----------------------------------------------------------------------------
(***************************************************************************)
(* What a step may do once the invariant holds.                            *)
(***************************************************************************)

\* The order of the detail, once there is one, and what the provider knows stay.
Stays ==
  /\ detail.order # None => detail'.order = detail.order
  /\ \A o \in Orders : psp[o] # "unknown" => psp'[o] # "unknown"

\* So does what was read before.
LEMMA LinkedStays ==
  ASSUME TypeInv, TypeInv', Stays
  PROVE  /\ Known => Known'
         /\ \A d \in Detail : Linked(d) => Linked(d)'
<1>1. Known => Known'
  <2> SUFFICES ASSUME Known PROVE Known'
    OBVIOUS
  <2>1. detail.order \in Orders
    <3>1. detail.order \in OrderId /\ detail.order # None
      BY DEF Known, TypeInv, Detail
    <3> QED
      BY <3>1, PaymentAssumption DEF OrderId, Orders, None
  <2> QED
    BY <2>1 DEF Known, Stays
<1>2. ASSUME NEW d \in Detail, Linked(d) PROVE Linked(d)'
  BY <1>1, <1>2 DEF Linked, Known, Stays
<1> QED
  BY <1>1, <1>2


\* The types of the constant records.
LEMMA ConstantTypes ==
  /\ NoDetail \in Detail /\ NoDetail.url = None /\ NoDetail.order = None
  /\ NoPayer \in [pc : PayerPcs, detail : Detail, id : Nat]
  /\ NoPayer.pc = "idle" /\ NoPayer.detail = NoDetail
  /\ NoWork \in [pc : WorkerPcs, id : Nat, detail : Detail]
  /\ NoWork.pc = "idle" /\ NoWork.detail = NoDetail
  /\ NoHook \in [pc : {"idle", "save"}, order : OrderId, outcome : Outcomes,
                 detail : Detail]
  /\ NoHook.pc = "idle" /\ NoHook.detail = NoDetail
<1>1. None \in OrderId /\ None \in Nat
  BY PaymentAssumption DEF None, OrderId
<1>2. NoDetail \in Detail /\ NoDetail.url = None /\ NoDetail.order = None
  BY <1>1 DEF NoDetail, Detail, DetailStatus
<1> QED
  BY <1>1, <1>2 DEF NoPayer, PayerPcs, NoWork, WorkerPcs, NoHook, Outcomes

-----------------------------------------------------------------------------
(***************************************************************************)
(* The actions of proceedRidePayment.                                      *)
(***************************************************************************)

\* A call goes on without touching anything else.
LEMMA PayerMoves ==
  ASSUME PayInv, NEW p \in Payers,
         NEW r \in [pc : PayerPcs, detail : Detail, id : Nat],
         payer' = [payer EXCEPT ![p] = r], orders' \in OrderId,
         UNCHANGED <<pay, detail, outbox, job, worker, hook, psp>>,
         r.pc \in {"enqueue", "saveJobId", "wait"} => r.id \in DOMAIN outbox,
         r.pc = "persist" => /\ r.detail.order # None /\ r.detail.url = None
                             /\ detail.order # None => r.detail.order = detail.order,
         Linked(r.detail), r.pc = "update" => r.detail.url # None
  PROVE  PayInv'
<1>1. payer'[p] = r /\ \A q \in Payers \ {p} : payer'[q] = payer[q]
  BY DEF PayInv, TypeInv
<1>2. TypeInv'
  BY DEF PayInv, TypeInv
<1>3. RowInv'
  BY <1>1 DEF PayInv, RowInv
<1>4. OrderInv'
  BY <1>1 DEF PayInv, OrderInv
<1>5. LinkInv'
  <2>1. Known' = Known /\ \A d \in Detail : Linked(d)' = Linked(d)
    BY DEF Known, Linked
  <2> QED
    BY <1>1, <2>1 DEF PayInv, LinkInv, Linked, Known
<1> QED
  BY <1>2, <1>3, <1>4, <1>5 DEF PayInv

\* The steps of a payer that leave the rows alone.
LEMMA PayerOnlySteps ==
  ASSUME PayInv, NEW p \in Payers,
         \/ ProceedRidePayment(p) \/ FindDetail(p) \/ WaitUntilFinished(p)
         \/ WaitTimesOut(p) \/ RefreshDetail(p) \/ PayerCrashes(p)
  PROVE  PayInv'
<1>1. /\ payer[p] \in [pc : PayerPcs, detail : Detail, id : Nat]
      /\ payer \in [Payers -> [pc : PayerPcs, detail : Detail, id : Nat]]
      /\ detail \in Detail /\ orders \in OrderId
  BY DEF PayInv, TypeInv
<1>2. Linked(payer[p].detail) /\ Linked(detail)
  BY DEF PayInv, LinkInv
<1>3. CASE ProceedRidePayment(p)
  <2>1. PICK r : r = [payer[p] EXCEPT !.pc = "find"]
    OBVIOUS
  <2>2. /\ r \in [pc : PayerPcs, detail : Detail, id : Nat] /\ r.pc = "find"
        /\ r.detail = payer[p].detail
    BY <1>1, <2>1 DEF PayerPcs
  <2>3. /\ payer' = [payer EXCEPT ![p] = r] /\ orders' \in OrderId
        /\ UNCHANGED <<pay, detail, outbox, job, worker, hook, psp>>
    BY <1>1, <1>3, <2>1 DEF ProceedRidePayment
  <2>4. Linked(r.detail)
    BY <1>2, <2>2
  <2> QED
    BY <2>2, <2>3, <2>4, PayerMoves
<1>4. CASE FindDetail(p)
  <2>1. ASSUME HasLink(detail), ReturnDetail(p, detail) PROVE PayInv'
    <3>1. PICK r : r = [payer[p] EXCEPT !.pc = "update", !.detail = detail]
      OBVIOUS
    <3>2. /\ r \in [pc : PayerPcs, detail : Detail, id : Nat] /\ r.pc = "update"
          /\ r.detail = detail
      BY <1>1, <3>1 DEF PayerPcs
    <3>3. /\ payer' = [payer EXCEPT ![p] = r] /\ orders' \in OrderId
          /\ UNCHANGED <<pay, detail, outbox, job, worker, hook, psp>>
      BY <1>1, <1>4, <2>1, <3>1 DEF FindDetail, ReturnDetail
    <3>4. Linked(r.detail)
      BY <1>2, <3>2
    <3> QED
      BY <2>1, <3>2, <3>3, <3>4, PayerMoves DEF HasLink
  <2>2. ASSUME NEW o \in Orders, QueueDetail(p, o), orders' \in OrderId,
               detail.order # None => o = detail.order
        PROVE  PayInv'
    <3>1. PICK d : d = [status |-> "queued", url |-> None, token |-> FALSE, order |-> o]
      OBVIOUS
    <3>2. d \in Detail /\ d.url = None /\ d.order = o /\ o # None
      BY <3>1, PaymentAssumption DEF Detail, DetailStatus, None, OrderId, Orders
    <3>3. PICK r : r = [payer[p] EXCEPT !.pc = "persist", !.detail = d]
      OBVIOUS
    <3>4. /\ r \in [pc : PayerPcs, detail : Detail, id : Nat] /\ r.pc = "persist"
          /\ r.detail = d
      BY <1>1, <3>2, <3>3 DEF PayerPcs
    <3>5. /\ payer' = [payer EXCEPT ![p] = r]
          /\ UNCHANGED <<pay, detail, outbox, job, worker, hook, psp>>
      BY <1>1, <1>4, <2>2, <3>1, <3>3 DEF FindDetail, QueueDetail
    <3>6. Linked(r.detail)
      BY <3>2, <3>4 DEF Linked
    <3> QED
      BY <2>2, <3>2, <3>4, <3>5, <3>6, PayerMoves
  <2>3. CASE ~HasLink(detail) /\ detail.order # None
    <3>1. detail.order \in Orders
      BY <1>1, <2>3, PaymentAssumption DEF Detail, OrderId, Orders, None
    <3>2. QueueDetail(p, detail.order) /\ UNCHANGED orders
      BY <1>4, <2>3 DEF FindDetail, FindByRideId
    <3> QED
      BY <1>1, <2>2, <3>1, <3>2
  <2>4. CASE ~HasLink(detail) /\ detail.order = None
    <3>1. QueueNewOrder(p)
      BY <1>4, <2>4 DEF FindDetail, FindByRideId
    <3>2. /\ orders' = orders + 1 /\ orders' \in OrderId /\ orders + 1 \in Orders
          /\ QueueDetail(p, orders + 1)
      BY <1>1, <3>1, PaymentAssumption DEF QueueNewOrder, OrderId, Orders
    <3> QED
      BY <2>2, <2>4, <3>2
  <2> QED
    BY <1>4, <2>1, <2>3, <2>4 DEF FindDetail, FindByRideId
<1>5. ASSUME payer' = [payer EXCEPT ![p] = NoPayer],
             UNCHANGED <<pay, detail, outbox, job, orders, worker, hook, psp>>
      PROVE  PayInv'
  <2>1. Linked(NoPayer.detail)
    BY ConstantTypes DEF Linked
  <2> QED
    BY <1>1, <1>5, <2>1, ConstantTypes, PayerMoves
<1>6. CASE WaitTimesOut(p) \/ PayerCrashes(p)
  BY <1>5, <1>6 DEF WaitTimesOut, PayerCrashes
<1>7. CASE WaitUntilFinished(p)
  <2>1. CASE payer' = [payer EXCEPT ![p].pc = "refresh"]
    <3>1. PICK r : r = [payer[p] EXCEPT !.pc = "refresh"]
      OBVIOUS
    <3>2. /\ r \in [pc : PayerPcs, detail : Detail, id : Nat] /\ r.pc = "refresh"
          /\ r.detail = payer[p].detail
      BY <1>1, <3>1 DEF PayerPcs
    <3>3. /\ payer' = [payer EXCEPT ![p] = r] /\ orders' \in OrderId
          /\ UNCHANGED <<pay, detail, outbox, job, worker, hook, psp>>
      BY <1>1, <1>7, <2>1, <3>1 DEF WaitUntilFinished
    <3>4. Linked(r.detail)
      BY <1>2, <3>2
    <3> QED
      BY <3>2, <3>3, <3>4, PayerMoves
  <2> QED
    BY <1>5, <1>7, <2>1 DEF WaitUntilFinished
<1>8. CASE RefreshDetail(p)
  <2>1. CASE detail.url # None
    <3>1. PICK r : r = [payer[p] EXCEPT !.pc = "update", !.detail = detail]
      OBVIOUS
    <3>2. /\ r \in [pc : PayerPcs, detail : Detail, id : Nat] /\ r.pc = "update"
          /\ r.detail = detail
      BY <1>1, <3>1 DEF PayerPcs
    <3>3. /\ payer' = [payer EXCEPT ![p] = r] /\ orders' \in OrderId
          /\ UNCHANGED <<pay, detail, outbox, job, worker, hook, psp>>
      BY <1>1, <1>8, <2>1, <3>1 DEF RefreshDetail, FindByRideId
    <3>4. Linked(r.detail)
      BY <1>2, <3>2
    <3> QED
      BY <2>1, <3>2, <3>3, <3>4, PayerMoves
  <2>2. CASE detail.url = None
    BY <1>5, <1>8, <2>2 DEF RefreshDetail, FindByRideId
  <2> QED
    BY <2>1, <2>2
<1> QED
  BY <1>3, <1>4, <1>6, <1>7, <1>8

\* saveDetailAndOutbox.  With one call in flight nobody else holds a detail
\* before the first order id is written.
LEMMA SaveDetailAndOutboxKept ==
  ASSUME OnePayer, PayInv, NEW p \in Payers, SaveDetailAndOutbox(p)
  PROVE  PayInv'
<1>1. PICK d : d = payer[p].detail
  OBVIOUS
<1>2. /\ d \in Detail /\ d.url = None /\ d.order # None
      /\ detail.order # None => d.order = detail.order
      /\ outbox \in Seq(OutboxRow)
  BY <1>1 DEF PayInv, TypeInv, OrderInv, SaveDetailAndOutbox
<1>3. d.order \in Orders
  <2>1. d.order \in OrderId
    BY <1>2 DEF Detail
  <2> QED
    BY <1>2, <2>1, PaymentAssumption DEF OrderId, Orders, None
<1>4. PICK row : row = [order |-> d.order, status |-> "pending"]
  OBVIOUS
<1>5. row \in OutboxRow /\ row.order = d.order
  BY <1>3, <1>4 DEF OutboxRow, OutboxStatus
<1>6. outbox' = Append(outbox, row)
  BY <1>1, <1>4 DEF SaveDetailAndOutbox
<1>7. PICK n : n = Len(outbox) + 1
  OBVIOUS
<1>8. /\ outbox' \in Seq(OutboxRow) /\ n \in Nat
      /\ n \in DOMAIN outbox' /\ outbox'[n] = row
      /\ \A i \in DOMAIN outbox : i \in DOMAIN outbox' /\ outbox'[i] = outbox[i]
      /\ \A i \in DOMAIN outbox' : i \in DOMAIN outbox \/ i = n
  BY <1>2, <1>5, <1>6, <1>7, LenProperties, AppendProperties
<1>9. PICK r : r = [payer[p] EXCEPT !.pc = "enqueue", !.id = n]
  OBVIOUS
<1>10. /\ r \in [pc : PayerPcs, detail : Detail, id : Nat]
       /\ r.pc = "enqueue" /\ r.id = n /\ r.detail = d
  BY <1>1, <1>8, <1>9 DEF PayInv, TypeInv, PayerPcs
<1>11. payer' = [payer EXCEPT ![p] = r] /\ payer'[p] = r
  BY <1>7, <1>9 DEF SaveDetailAndOutbox, PayInv, TypeInv
<1>12. \A q \in Payers : payer'[q] = r
  BY <1>11 DEF OnePayer
<1>13. /\ detail' = d /\ UNCHANGED <<pay, job, orders, worker, hook, psp>>
  BY <1>1 DEF SaveDetailAndOutbox
<1>14. TypeInv'
  BY <1>2, <1>8, <1>10, <1>11, <1>13 DEF PayInv, TypeInv
<1>15. RowInv'
  BY <1>8, <1>10, <1>12, <1>13 DEF PayInv, RowInv
<1>16. \A i \in DOMAIN outbox : outbox[i].order = detail.order /\ detail.order # None
  <2>1. \A i \in DOMAIN outbox : outbox[i] \in OutboxRow
    BY <1>2, ElementOfSeq
  <2>2. \A i \in DOMAIN outbox : outbox[i].order # None
    BY <2>1, PaymentAssumption DEF OutboxRow, Orders, None
  <2> QED
    BY <2>2 DEF PayInv, OrderInv
<1>17. OrderInv'
  <2>1. \A i \in DOMAIN outbox' : outbox'[i].order = detail'.order
    BY <1>2, <1>5, <1>8, <1>13, <1>16
  <2>2. worker.pc # "idle" => detail.order # None
    BY <1>16 DEF PayInv, RowInv
  <2>3. \A q \in Payers : payer'[q].pc # "persist"
    BY <1>10, <1>12
  <2> QED
    BY <1>2, <1>13, <2>1, <2>2, <2>3 DEF PayInv, OrderInv
<1>18. Stays
  BY <1>2, <1>13 DEF Stays
<1>19. LinkInv'
  <2>1. TypeInv /\ LinkInv
    BY DEF PayInv
  <2>2. /\ Known => Known'
        /\ \A x \in Detail : Linked(x) => Linked(x)'
    BY <1>14, <1>18, <2>1, LinkedStays
  <2>3. \A o \in Orders : psp'[o] # "unknown" => detail'.order = o
    <3>1. \A o \in Orders : o # None
      BY PaymentAssumption DEF Orders, None
    <3> QED
      BY <1>2, <1>13, <2>1, <3>1 DEF LinkInv
  <2>4. Linked(detail)' /\ \A q \in Payers : Linked(payer[q].detail)'
    BY <1>2, <1>10, <1>12, <1>13 DEF Linked
  <2>5. Linked(worker.detail)' /\ Linked(hook.detail)'
    <3>1. worker.detail \in Detail /\ hook.detail \in Detail
      BY <2>1 DEF TypeInv
    <3>2. Linked(worker.detail) /\ Linked(hook.detail)
      BY <2>1 DEF LinkInv
    <3> QED
      BY <1>13, <2>2, <3>1, <3>2 DEF Linked
  <2>6. worker'.pc = "initiated" => Known'
    BY <1>13, <2>1, <2>2 DEF LinkInv
  <2>7. pay'.status = "on_process" => pay'.url = detail'.order /\ Known'
    BY <1>2, <1>13, <2>1, <2>2 DEF LinkInv, Known
  <2> QED
    BY <1>10, <1>12, <2>3, <2>4, <2>5, <2>6, <2>7 DEF LinkInv
<1> QED
  BY <1>14, <1>15, <1>17, <1>19 DEF PayInv

\* A call queues the job, saves its id in the row, or ends with the link.
LEMMA AddJobKept ==
  ASSUME PayInv, NEW p \in Payers, AddJob(p)
  PROVE  PayInv'
<1>1. PICK r : r = [payer[p] EXCEPT !.pc = "saveJobId"]
  OBVIOUS
<1>2. /\ r \in [pc : PayerPcs, detail : Detail, id : Nat] /\ r.pc = "saveJobId"
      /\ r.detail = payer[p].detail /\ r.id = payer[p].id
      /\ payer' = [payer EXCEPT ![p] = r] /\ r.id \in DOMAIN outbox
      /\ payer'[p] = r /\ \A q \in Payers \ {p} : payer'[q] = payer[q]
  BY <1>1 DEF PayInv, TypeInv, RowInv, PayerPcs, AddJob
<1>3. UNCHANGED <<pay, detail, outbox, orders, worker, hook, psp>>
  BY DEF AddJob
<1>4. /\ job' \in [Ids -> [state : JobState, attempts : Nat]]
      /\ \A i \in Ids : job'[i].state # job[i].state => i = r.id
  <2>1. /\ job \in [Ids -> [state : JobState, attempts : Nat]]
        /\ job' = [job EXCEPT ![r.id].state = "waiting"] /\ "waiting" \in JobState
    BY <1>2 DEF AddJob, PayInv, TypeInv, JobState
  <2> QED
    BY <2>1
<1>5. TypeInv'
  BY <1>2, <1>3, <1>4 DEF PayInv, TypeInv
<1>6. RowInv'
  BY <1>2, <1>3, <1>4 DEF PayInv, RowInv
<1>7. OrderInv'
  BY <1>2, <1>3 DEF PayInv, OrderInv
<1>8. LinkInv'
  BY <1>2, <1>3 DEF PayInv, LinkInv, Linked, Known
<1> QED
  BY <1>5, <1>6, <1>7, <1>8 DEF PayInv

\* Saving the job id writes the outbox row whole, with its own order.
LEMMA SaveJobIdKept ==
  ASSUME PayInv, NEW p \in Payers, SaveJobId(p)
  PROVE  PayInv'
<1>1. PICK r : r = [payer[p] EXCEPT !.pc = "wait"]
  OBVIOUS
<1>2. /\ r \in [pc : PayerPcs, detail : Detail, id : Nat] /\ r.pc = "wait"
      /\ r.detail = payer[p].detail /\ r.id = payer[p].id
      /\ payer' = [payer EXCEPT ![p] = r] /\ r.id \in DOMAIN outbox
      /\ payer'[p] = r /\ \A q \in Payers \ {p} : payer'[q] = payer[q]
  BY <1>1 DEF PayInv, TypeInv, RowInv, PayerPcs, SaveJobId
<1>3. UNCHANGED <<pay, detail, job, orders, worker, hook, psp>>
  BY DEF SaveJobId
<1>4. SameRows
  BY SaveStatus DEF SaveJobId, PayInv, TypeInv, OutboxStatus
<1>5. TypeInv'
  BY <1>2, <1>3, <1>4 DEF PayInv, TypeInv, SameRows
<1>6. RowInv'
  BY <1>2, <1>3, <1>4 DEF PayInv, RowInv, SameRows
<1>7. OrderInv'
  BY <1>2, <1>3, <1>4 DEF PayInv, OrderInv, SameRows
<1>8. LinkInv'
  BY <1>2, <1>3 DEF PayInv, LinkInv, Linked, Known
<1> QED
  BY <1>5, <1>6, <1>7, <1>8 DEF PayInv

\* The rider is given the link of the detail that was read.
LEMMA UpdatePaymentStateKept ==
  ASSUME PayInv, NEW p \in Payers, UpdatePaymentState(p)
  PROVE  PayInv'
<1>1. /\ payer' = [payer EXCEPT ![p] = NoPayer]
      /\ payer'[p] = NoPayer /\ \A q \in Payers \ {p} : payer'[q] = payer[q]
      /\ UNCHANGED <<detail, outbox, job, orders, worker, hook, psp>>
  BY DEF PayInv, TypeInv, UpdatePaymentState
<1>2. pay'.url = detail.order /\ Known
  BY DEF UpdatePaymentState, PayInv, LinkInv, Linked
<1>3. pay' \in [status : {"pending", "on_process", "paid"}, url : OrderId]
  BY DEF UpdatePaymentState, PayInv, TypeInv, Detail
<1>4. TypeInv'
  BY <1>1, <1>3, ConstantTypes DEF PayInv, TypeInv
<1>5. RowInv'
  BY <1>1, ConstantTypes DEF PayInv, RowInv
<1>6. OrderInv'
  BY <1>1, ConstantTypes DEF PayInv, OrderInv
<1>7. LinkInv'
  BY <1>1, <1>2, ConstantTypes DEF PayInv, LinkInv, Linked, Known
<1> QED
  BY <1>4, <1>5, <1>6, <1>7 DEF PayInv

-----------------------------------------------------------------------------
(***************************************************************************)
(* The worker, the rider and the notifications.                            *)
(***************************************************************************)

\* What such a step has to leave as it is.
LEMMA OthersMove ==
  ASSUME PayInv, TypeInv', SameRows, UNCHANGED payer,
         detail'.order = detail.order,
         \A o \in Orders : psp[o] # "unknown" => psp'[o] # "unknown",
         \A o \in Orders : psp'[o] # "unknown" => detail.order = o,
         Linked(detail)', Linked(worker.detail)', Linked(hook.detail)',
         \A i \in Ids : job'[i].state = "waiting" => i \in DOMAIN outbox,
         worker'.pc # "idle" => worker'.id \in DOMAIN outbox,
         worker'.pc \notin {"idle", "detail"} => worker'.detail.order = detail.order,
         worker'.pc = "initiated" => Known',
         hook'.pc = "save" => hook'.detail.order = detail.order /\ detail.order # None,
         pay'.status = "on_process" => pay'.url = detail.order /\ Known'
  PROVE  PayInv'
<1>1. Stays /\ TypeInv
  BY DEF Stays, PayInv
<1>2. /\ Known => Known'
      /\ \A x \in Detail : Linked(x) => Linked(x)'
  BY <1>1, LinkedStays
<1>3. RowInv'
  BY DEF PayInv, RowInv, SameRows
<1>4. OrderInv'
  BY DEF PayInv, OrderInv, SameRows
<1>5. \A p \in Payers : Linked(payer[p].detail)'
  <2>1. \A p \in Payers : payer[p].detail \in Detail
    BY <1>1 DEF TypeInv
  <2>2. \A p \in Payers : Linked(payer[p].detail)
    BY DEF PayInv, LinkInv
  <2> QED
    BY <1>2, <2>1, <2>2 DEF Linked
<1>6. LinkInv'
  BY <1>5 DEF PayInv, LinkInv
<1> QED
  BY <1>3, <1>4, <1>6 DEF PayInv

\* Facts for the steps of the worker: the job in hand has a row, so there is an
\* order, and it is the one of the detail.
LEMMA WorkerFacts ==
  ASSUME PayInv
  PROVE  /\ TypeInv /\ outbox \in Seq(OutboxRow) /\ worker.detail \in Detail
         /\ hook.detail \in Detail /\ detail \in Detail
         /\ Linked(detail) /\ Linked(worker.detail) /\ Linked(hook.detail)
         /\ worker.pc # "idle" =>
              /\ worker.id \in DOMAIN outbox
              /\ outbox[worker.id].order = detail.order
              /\ detail.order \in Orders /\ detail.order # None
         /\ \A i \in Ids : job[i].state = "waiting" => i \in DOMAIN outbox
         /\ pay.status = "on_process" => pay.url = detail.order /\ Known
<1>1. \A i \in DOMAIN outbox : outbox[i] \in OutboxRow
  BY ElementOfSeq DEF PayInv, TypeInv
<1>2. \A i \in DOMAIN outbox : outbox[i].order \in Orders /\ outbox[i].order # None
  BY <1>1, PaymentAssumption DEF OutboxRow, Orders, None
<1>3. worker.pc # "idle" =>
        /\ worker.id \in DOMAIN outbox
        /\ outbox[worker.id].order = detail.order
        /\ detail.order \in Orders /\ detail.order # None
  BY <1>2 DEF PayInv, RowInv, OrderInv
<1>4. TypeInv /\ outbox \in Seq(OutboxRow) /\ worker.detail \in Detail
      /\ hook.detail \in Detail /\ detail \in Detail
  BY DEF PayInv, TypeInv
<1>5. /\ Linked(detail) /\ Linked(worker.detail) /\ Linked(hook.detail)
      /\ pay.status = "on_process" => pay.url = detail.order /\ Known
  BY DEF PayInv, LinkInv
<1> QED
  BY <1>3, <1>4, <1>5 DEF PayInv, RowInv

\* Saving nothing is saving the same rows.
LEMMA RowsUnchanged ==
  ASSUME PayInv, UNCHANGED outbox
  PROVE  SameRows
BY DEF PayInv, TypeInv, SameRows

\* A step of the worker that writes neither the detail nor to the provider.
LEMMA WorkerMoves ==
  ASSUME PayInv, SameRows, UNCHANGED <<pay, detail, orders, payer, hook, psp>>,
         worker' \in [pc : WorkerPcs, id : Nat, detail : Detail],
         job' \in [Ids -> [state : JobState, attempts : Nat]],
         \A i \in Ids : job'[i].state = "waiting" => i \in DOMAIN outbox,
         worker'.pc # "idle" => worker'.id \in DOMAIN outbox,
         worker'.pc \notin {"idle", "detail"} => worker'.detail.order = detail.order,
         worker'.detail \in {worker.detail, detail, NoDetail},
         worker'.pc # "initiated"
  PROVE  PayInv'
<1>1. TypeInv'
  BY DEF PayInv, TypeInv, SameRows
<1>2. Known' = Known
  BY DEF Known
<1>3. /\ Linked(detail) /\ Linked(worker.detail) /\ Linked(hook.detail)
      /\ Linked(NoDetail)
  BY WorkerFacts, ConstantTypes DEF Linked
<1>4. Linked(detail)' /\ Linked(worker.detail)' /\ Linked(hook.detail)'
  BY <1>2, <1>3 DEF Linked
<1>5. \A o \in Orders : psp'[o] # "unknown" => detail.order = o
  BY DEF PayInv, LinkInv
<1>6. /\ hook'.pc = "save" => hook'.detail.order = detail.order /\ detail.order # None
      /\ pay'.status = "on_process" => pay'.url = detail.order /\ Known'
  BY <1>2 DEF PayInv, OrderInv, LinkInv
<1> QED
  BY <1>1, <1>4, <1>5, <1>6, OthersMove

\* The worker takes a job of a row that was committed.
LEMMA TakeJobKept ==
  ASSUME PayInv, NEW i \in Ids, TakeJob(i)
  PROVE  PayInv'
<1>1. /\ worker' \in [pc : WorkerPcs, id : Nat, detail : Detail]
      /\ worker'.pc = "detail" /\ worker'.id = i /\ worker'.detail = NoDetail
  <2>1. worker' = [NoWork EXCEPT !.pc = "detail", !.id = i] /\ i \in Nat
    BY PaymentAssumption DEF TakeJob, Ids
  <2>2. "detail" \in WorkerPcs
    BY DEF WorkerPcs
  <2> QED
    BY <2>1, <2>2, ConstantTypes
<1>2. /\ job \in [Ids -> [state : JobState, attempts : Nat]]
      /\ job[i].attempts + 1 \in Nat /\ "active" \in JobState
      /\ job' = [job EXCEPT ![i] =
                   [state |-> "active", attempts |-> job[i].attempts + 1]]
  BY DEF PayInv, TypeInv, TakeJob, JobState
<1>3. /\ job' \in [Ids -> [state : JobState, attempts : Nat]]
      /\ \A k \in Ids : job'[k].state = "waiting" => job[k].state = "waiting"
  BY <1>2
<1>4. i \in DOMAIN outbox /\ \A k \in Ids : job[k].state = "waiting" => k \in DOMAIN outbox
  BY DEF PayInv, RowInv, TakeJob
<1>5. SameRows /\ UNCHANGED <<pay, detail, orders, payer, hook, psp>>
  BY RowsUnchanged DEF TakeJob
<1> QED
  BY <1>1, <1>3, <1>4, <1>5, WorkerMoves

\* The worker with another program counter.
LEMMA WorkerGoes ==
  ASSUME PayInv, NEW pc \in WorkerPcs, worker' = [worker EXCEPT !.pc = pc]
  PROVE  /\ worker' \in [pc : WorkerPcs, id : Nat, detail : Detail]
         /\ worker'.pc = pc /\ worker'.id = worker.id /\ worker'.detail = worker.detail
BY DEF PayInv, TypeInv

\* The worker reads the detail of the order of its row.
LEMMA ReadDetailKept ==
  ASSUME PayInv, ReadDetail
  PROVE  PayInv'
<1>1. /\ worker' \in [pc : WorkerPcs, id : Nat, detail : Detail]
      /\ worker'.pc = "processing" /\ worker'.id = worker.id /\ worker'.detail = detail
  BY DEF ReadDetail, FindByRideId, PayInv, TypeInv, WorkerPcs
<1>2. SameRows /\ UNCHANGED <<pay, detail, orders, payer, hook, psp, job>>
  BY RowsUnchanged DEF ReadDetail
<1>3. /\ job' \in [Ids -> [state : JobState, attempts : Nat]]
      /\ \A i \in Ids : job'[i].state = "waiting" => i \in DOMAIN outbox
      /\ worker.id \in DOMAIN outbox
  BY <1>2 DEF ReadDetail, PayInv, TypeInv, RowInv
<1> QED
  BY <1>1, <1>2, <1>3, WorkerMoves

\* MarkProcessing and MarkFailed.
LEMMA SaveOutboxKept ==
  ASSUME PayInv, MarkProcessing \/ MarkFailed
  PROVE  PayInv'
<1>1. PICK pc \in {"processing", "error"}, st \in OutboxStatus,
           next \in {"post", "saveFailed"} : SaveOutbox(pc, st, next)
  BY DEF MarkProcessing, MarkFailed, OutboxStatus
<1>2. /\ worker' \in [pc : WorkerPcs, id : Nat, detail : Detail]
      /\ worker'.pc = next /\ worker'.id = worker.id /\ worker'.detail = worker.detail
  BY <1>1, WorkerGoes DEF SaveOutbox, WorkerPcs
<1>3. SameRows /\ UNCHANGED <<pay, detail, orders, payer, hook, psp, job>>
  BY <1>1, SaveStatus DEF SaveOutbox, MarkProcessing, MarkFailed, PayInv, TypeInv
<1>4. /\ job' \in [Ids -> [state : JobState, attempts : Nat]]
      /\ \A i \in Ids : job'[i].state = "waiting" => i \in DOMAIN outbox
      /\ worker.id \in DOMAIN outbox /\ worker.detail.order = detail.order
  BY <1>1, <1>3 DEF SaveOutbox, PayInv, TypeInv, RowInv, OrderInv
<1> QED
  BY <1>1, <1>2, <1>3, <1>4, WorkerMoves

\* The job of the worker gets another state.
LEMMA JobGoes ==
  ASSUME PayInv, worker.pc # "idle", NEW st \in JobState,
         job' = [job EXCEPT ![worker.id].state = st]
  PROVE  /\ job' \in [Ids -> [state : JobState, attempts : Nat]]
         /\ \A i \in Ids : job'[i].state = "waiting" => i \in DOMAIN outbox
<1>1. /\ job \in [Ids -> [state : JobState, attempts : Nat]]
      /\ worker.id \in DOMAIN outbox
      /\ \A i \in Ids : job[i].state = "waiting" => i \in DOMAIN outbox
  BY DEF PayInv, TypeInv, RowInv
<1> QED
  BY <1>1

\* The outbox row is marked, and the job ends.
LEMMA MarkCompletedKept ==
  ASSUME PayInv, MarkCompleted
  PROVE  PayInv'
<1>1. /\ worker' = NoWork /\ worker' \in [pc : WorkerPcs, id : Nat, detail : Detail]
      /\ worker'.pc = "idle" /\ worker'.detail = NoDetail
  BY ConstantTypes DEF MarkCompleted
<1>2. SameRows /\ UNCHANGED <<pay, detail, orders, payer, hook, psp>>
  BY SaveStatus DEF MarkCompleted, PayInv, TypeInv, OutboxStatus
<1>3. /\ job' \in [Ids -> [state : JobState, attempts : Nat]]
      /\ \A i \in Ids : job'[i].state = "waiting" => i \in DOMAIN outbox
  BY JobGoes DEF MarkCompleted, JobState
<1> QED
  BY <1>1, <1>2, <1>3, WorkerMoves

\* The provider learns the order of the row, which is the detail's.
LEMMA PostPaymentKept ==
  ASSUME PayInv, PostPayment
  PROVE  PayInv'
<1>1. PICK o : o = detail.order
  OBVIOUS
<1>2. /\ worker.pc = "post" /\ worker.id \in DOMAIN outbox
      /\ outbox[worker.id].order = o /\ o \in Orders /\ o # None
      /\ psp \in [Orders -> {"unknown", "open", "paid", "denied"}]
      /\ worker.detail.order = o
  BY <1>1, WorkerFacts DEF PostPayment, PayInv, TypeInv, OrderInv
<1>3. UNCHANGED <<pay, detail, outbox, job, orders, payer, hook>> /\ SameRows
  BY RowsUnchanged DEF PostPayment
<1>4. /\ \/ psp' = [psp EXCEPT ![o] = IF psp[o] = "unknown" THEN "open" ELSE psp[o]]
            /\ worker' = [worker EXCEPT !.pc = "initiated"]
         \/ /\ \/ psp' = [psp EXCEPT ![o] = IF psp[o] = "unknown" THEN "open" ELSE psp[o]]
               \/ psp' = psp
            /\ worker' = [worker EXCEPT !.pc = "error"]
  BY <1>2 DEF PostPayment, FindOutbox
<1>5. /\ psp' \in [Orders -> {"unknown", "open", "paid", "denied"}]
      /\ \A x \in Orders : psp[x] # "unknown" => psp'[x] # "unknown"
      /\ \A x \in Orders : psp'[x] # "unknown" => psp[x] # "unknown" \/ x = o
      /\ worker' = [worker EXCEPT !.pc = "initiated"] => psp'[o] # "unknown"
  <2>1. CASE psp' = psp /\ worker' = [worker EXCEPT !.pc = "error"]
    <3>1. worker'.pc = "error" /\ [worker EXCEPT !.pc = "initiated"].pc = "initiated"
      BY <2>1 DEF PayInv, TypeInv
    <3> QED
      BY <1>2, <2>1, <3>1
  <2>2. CASE psp' = [psp EXCEPT ![o] = IF psp[o] = "unknown" THEN "open" ELSE psp[o]]
    BY <1>2, <2>2
  <2> QED
    BY <1>4, <2>1, <2>2
<1>6. /\ worker' \in [pc : WorkerPcs, id : Nat, detail : Detail]
      /\ worker'.pc \in {"initiated", "error"} /\ worker'.id = worker.id
      /\ worker'.detail = worker.detail
      /\ worker'.pc = "initiated" => psp'[o] # "unknown"
  BY <1>4, <1>5, WorkerGoes DEF WorkerPcs
<1>7. TypeInv'
  BY <1>3, <1>5, <1>6 DEF PayInv, TypeInv
<1>8. TypeInv /\ Stays
  BY <1>3, <1>5 DEF PayInv, Stays
<1>9. /\ Known => Known'
      /\ \A x \in Detail : Linked(x) => Linked(x)'
  BY <1>7, <1>8, LinkedStays
<1>10. Linked(detail)' /\ Linked(worker.detail)' /\ Linked(hook.detail)'
  BY <1>3, <1>6, <1>9, WorkerFacts DEF Linked
<1>11. \A x \in Orders : psp'[x] # "unknown" => detail.order = x
  BY <1>1, <1>5 DEF PayInv, LinkInv
<1>12. worker'.pc = "initiated" => Known'
  BY <1>1, <1>2, <1>3, <1>6 DEF Known
<1>13. /\ hook'.pc = "save" => hook'.detail.order = detail.order /\ detail.order # None
       /\ pay'.status = "on_process" => pay'.url = detail.order /\ Known'
       /\ \A i \in Ids : job'[i].state = "waiting" => i \in DOMAIN outbox
  BY <1>3, <1>9, WorkerFacts DEF PayInv, OrderInv
<1> QED
  BY <1>1, <1>2, <1>3, <1>5, <1>6, <1>7, <1>10, <1>11, <1>12, <1>13, OthersMove

\* The detail gets the link of the order that the provider answered.
LEMMA SaveInitiatedKept ==
  ASSUME PayInv, SaveInitiated
  PROVE  PayInv'
<1>1. /\ worker.pc = "initiated" /\ worker.id \in DOMAIN outbox
      /\ outbox[worker.id].order = detail.order /\ detail.order \in Orders
      /\ worker.detail.order = detail.order /\ Known
  BY WorkerFacts DEF SaveInitiated, PayInv, OrderInv, LinkInv
<1>2. PICK url \in {detail.order, None}, token \in BOOLEAN :
        detail' = [status |-> "initiated", order |-> detail.order, url |-> url,
                   token |-> token]
  BY <1>1 DEF SaveInitiated, FindOutbox, PersistDetail
<1>3. UNCHANGED <<pay, outbox, job, orders, payer, hook, psp>> /\ SameRows
  BY RowsUnchanged DEF SaveInitiated
<1>4. /\ worker' \in [pc : WorkerPcs, id : Nat, detail : Detail]
      /\ worker'.pc = "completed" /\ worker'.id = worker.id
      /\ worker'.detail = worker.detail
  BY WorkerGoes DEF SaveInitiated, WorkerPcs
<1>5. /\ detail' \in Detail /\ detail'.order = detail.order
      /\ detail'.url \in {detail.order, None}
  <2>1. None \in OrderId /\ detail.order \in OrderId
    BY <1>1, PaymentAssumption DEF None, OrderId, Orders
  <2> QED
    BY <1>2, <2>1 DEF Detail, DetailStatus
<1>6. TypeInv'
  BY <1>3, <1>4, <1>5 DEF PayInv, TypeInv
<1>7. Known'
  BY <1>1, <1>3, <1>5 DEF Known
<1>8. TypeInv /\ Stays
  BY <1>3, <1>5 DEF PayInv, Stays
<1>9. \A x \in Detail : Linked(x) => Linked(x)'
  BY <1>6, <1>8, LinkedStays
<1>10. Linked(detail)' /\ Linked(worker.detail)' /\ Linked(hook.detail)'
  BY <1>3, <1>4, <1>5, <1>7, <1>9, WorkerFacts DEF Linked
<1>11. /\ \A o \in Orders : psp'[o] # "unknown" => detail.order = o
       /\ \A o \in Orders : psp[o] # "unknown" => psp'[o] # "unknown"
  BY <1>3 DEF PayInv, LinkInv
<1>12. /\ hook'.pc = "save" => hook'.detail.order = detail.order /\ detail.order # None
       /\ pay'.status = "on_process" => pay'.url = detail.order /\ Known'
       /\ \A i \in Ids : job'[i].state = "waiting" => i \in DOMAIN outbox
  BY <1>3, <1>7, WorkerFacts DEF PayInv, OrderInv
<1> QED
  BY <1>1, <1>3, <1>4, <1>5, <1>6, <1>7, <1>10, <1>11, <1>12, OthersMove

\* The stale detail that is saved as failed has the same order, and no link that
\* the provider does not know.
LEMMA SaveFailedKept ==
  ASSUME PayInv, SaveFailed
  PROVE  PayInv'
<1>1. /\ worker.pc = "saveFailed" /\ worker.detail.order = detail.order
      /\ worker.detail \in Detail
  BY WorkerFacts DEF SaveFailed, PayInv, OrderInv
<1>2. detail' = [worker.detail EXCEPT !.status = "failed"]
  BY DEF SaveFailed, PersistDetail
<1>3. /\ detail' \in Detail /\ detail'.order = detail.order
      /\ detail'.url = worker.detail.url
  BY <1>1, <1>2 DEF Detail, DetailStatus
<1>4. /\ UNCHANGED <<pay, outbox, orders, payer, hook, psp>> /\ SameRows
      /\ worker' = NoWork
  BY RowsUnchanged DEF SaveFailed
<1>5. PICK st \in JobState : job' = [job EXCEPT ![worker.id].state = st]
  BY DEF SaveFailed, JobState
<1>6. /\ job' \in [Ids -> [state : JobState, attempts : Nat]]
      /\ \A i \in Ids : job'[i].state = "waiting" => i \in DOMAIN outbox
  BY <1>1, <1>5, JobGoes
<1>7. TypeInv'
  BY <1>3, <1>4, <1>6, ConstantTypes DEF PayInv, TypeInv
<1>8. TypeInv /\ Stays
  BY <1>3, <1>4 DEF PayInv, Stays
<1>9. /\ Known => Known'
      /\ \A x \in Detail : Linked(x) => Linked(x)'
  BY <1>7, <1>8, LinkedStays
<1>10. Linked(detail)' /\ Linked(worker.detail)' /\ Linked(hook.detail)'
  BY <1>1, <1>3, <1>4, <1>9, WorkerFacts, ConstantTypes DEF Linked
<1>11. /\ \A o \in Orders : psp'[o] # "unknown" => detail.order = o
       /\ \A o \in Orders : psp[o] # "unknown" => psp'[o] # "unknown"
  BY <1>4 DEF PayInv, LinkInv
<1>12. /\ hook'.pc = "save" => hook'.detail.order = detail.order /\ detail.order # None
       /\ pay'.status = "on_process" => pay'.url = detail.order /\ Known'
       /\ worker'.pc = "idle"
  BY <1>4, <1>9, WorkerFacts, ConstantTypes DEF PayInv, OrderInv
<1> QED
  BY <1>3, <1>4, <1>6, <1>7, <1>10, <1>11, <1>12, OthersMove

\* The rider pays an order whose link was given.
LEMMA RiderPaysKept ==
  ASSUME PayInv, NEW o \in Orders, RiderPays(o)
  PROVE  PayInv'
<1>1. PICK out \in {"paid", "denied"} : psp' = [psp EXCEPT ![o] = out]
  BY DEF RiderPays
<1>2. /\ psp[o] = "open" /\ psp \in [Orders -> {"unknown", "open", "paid", "denied"}]
      /\ UNCHANGED <<pay, detail, outbox, job, orders, payer, worker, hook>> /\ SameRows
  BY RowsUnchanged DEF RiderPays, PayInv, TypeInv
<1>3. /\ psp' \in [Orders -> {"unknown", "open", "paid", "denied"}]
      /\ \A x \in Orders : psp[x] # "unknown" => psp'[x] # "unknown"
      /\ \A x \in Orders : psp'[x] # "unknown" => psp[x] # "unknown"
  BY <1>1, <1>2
<1>4. TypeInv'
  BY <1>2, <1>3 DEF PayInv, TypeInv
<1>5. TypeInv /\ Stays
  BY <1>2, <1>3 DEF PayInv, Stays
<1>6. /\ Known => Known'
      /\ \A x \in Detail : Linked(x) => Linked(x)'
  BY <1>4, <1>5, LinkedStays
<1>7. Linked(detail)' /\ Linked(worker.detail)' /\ Linked(hook.detail)'
  BY <1>2, <1>6, WorkerFacts DEF Linked
<1>8. \A x \in Orders : psp'[x] # "unknown" => detail.order = x
  BY <1>3 DEF PayInv, LinkInv
<1>9. /\ hook'.pc = "save" => hook'.detail.order = detail.order /\ detail.order # None
      /\ pay'.status = "on_process" => pay'.url = detail.order /\ Known'
      /\ \A i \in Ids : job'[i].state = "waiting" => i \in DOMAIN outbox
      /\ worker'.pc # "idle" => worker'.id \in DOMAIN outbox
      /\ worker'.pc \notin {"idle", "detail"} => worker'.detail.order = detail.order
      /\ worker'.pc = "initiated" => Known'
  BY <1>2, <1>6, WorkerFacts DEF PayInv, OrderInv, LinkInv
<1> QED
  BY <1>2, <1>3, <1>4, <1>7, <1>8, <1>9, OthersMove

\* A notification reads the detail of its order.
LEMMA HandleNotificationKept ==
  ASSUME PayInv, NEW o \in Orders, NEW out \in Outcomes, HandleNotification(o, out)
  PROVE  PayInv'
<1>1. detail.order = o /\ o # None /\ o \in OrderId
  BY PaymentAssumption DEF HandleNotification, FindByOrderId, Orders, OrderId, None
<1>2. /\ hook' = [pc |-> "save", order |-> o, outcome |-> out, detail |-> detail]
      /\ UNCHANGED <<pay, detail, outbox, job, orders, payer, worker, psp>> /\ SameRows
  BY RowsUnchanged DEF HandleNotification, FindByOrderId
<1>3. /\ hook' \in [pc : {"idle", "save"}, order : OrderId, outcome : Outcomes,
                    detail : Detail]
      /\ hook'.detail = detail
  BY <1>1, <1>2 DEF PayInv, TypeInv
<1>4. TypeInv'
  BY <1>2, <1>3 DEF PayInv, TypeInv
<1>5. Known' = Known
  BY <1>2 DEF Known
<1>6. Linked(detail)' /\ Linked(worker.detail)' /\ Linked(hook.detail)'
  BY <1>2, <1>3, <1>5, WorkerFacts DEF Linked
<1>7. /\ \A x \in Orders : psp'[x] # "unknown" => detail.order = x
      /\ \A x \in Orders : psp[x] # "unknown" => psp'[x] # "unknown"
  BY <1>2 DEF PayInv, LinkInv
<1>8. /\ hook'.pc = "save" => hook'.detail.order = detail.order /\ detail.order # None
      /\ pay'.status = "on_process" => pay'.url = detail.order /\ Known'
      /\ \A i \in Ids : job'[i].state = "waiting" => i \in DOMAIN outbox
      /\ worker'.pc # "idle" => worker'.id \in DOMAIN outbox
      /\ worker'.pc \notin {"idle", "detail"} => worker'.detail.order = detail.order
      /\ worker'.pc = "initiated" => Known'
  BY <1>1, <1>2, <1>3, <1>5, WorkerFacts DEF PayInv, OrderInv, LinkInv
<1> QED
  BY <1>2, <1>4, <1>6, <1>7, <1>8, OthersMove

\* The detail that a notification saves was read earlier, with the same order.
LEMMA SaveDetailWithRideUpdateKept ==
  ASSUME PayInv, SaveDetailWithRideUpdate
  PROVE  PayInv'
<1>1. /\ hook.pc = "save" /\ hook.detail.order = detail.order
      /\ hook.detail \in Detail /\ hook.outcome \in Outcomes
  BY DEF SaveDetailWithRideUpdate, PayInv, TypeInv, OrderInv
<1>2. detail' = [hook.detail EXCEPT !.status = hook.outcome]
  BY DEF SaveDetailWithRideUpdate, PersistDetail, ApplyNotification
<1>3. /\ detail' \in Detail /\ detail'.order = detail.order
      /\ detail'.url = hook.detail.url
  BY <1>1, <1>2 DEF Detail, DetailStatus, Outcomes
<1>4. UNCHANGED <<job, orders, payer, worker, psp>> /\ hook' = NoHook
  BY DEF SaveDetailWithRideUpdate
<1>5. /\ pay' \in [status : {"pending", "on_process", "paid"}, url : OrderId]
      /\ pay'.status = "on_process" => pay' = pay
  <2>1. None \in OrderId
    BY PaymentAssumption DEF None, OrderId
  <2> QED
    BY <2>1 DEF SaveDetailWithRideUpdate, PayInv, TypeInv
<1>6. SameRows
  <2>1. PICK st : st = OutboxStatusFor[hook.outcome]
    OBVIOUS
  <2>2. st \in OutboxStatus
    BY <1>1, <2>1 DEF OutboxStatusFor, OutboxStatus, Outcomes
  <2>3. outbox' = [i \in DOMAIN outbox |->
                     IF outbox[i].order = hook.order
                       THEN [outbox[i] EXCEPT !.status = st] ELSE outbox[i]]
    BY <2>1 DEF SaveDetailWithRideUpdate
  <2>4. outbox \in Seq(OutboxRow)
    BY DEF PayInv, TypeInv
  <2> QED
    BY <2>2, <2>3, <2>4, SaveStatuses
<1>7. TypeInv'
  BY <1>3, <1>4, <1>5, <1>6, ConstantTypes DEF PayInv, TypeInv, SameRows
<1>8. TypeInv /\ Stays
  BY <1>3, <1>4 DEF PayInv, Stays
<1>9. /\ Known => Known'
      /\ \A x \in Detail : Linked(x) => Linked(x)'
  BY <1>7, <1>8, LinkedStays
<1>10. Linked(detail)' /\ Linked(worker.detail)' /\ Linked(hook.detail)'
  BY <1>1, <1>3, <1>4, <1>9, WorkerFacts, ConstantTypes DEF Linked
<1>11. /\ \A o \in Orders : psp'[o] # "unknown" => detail.order = o
       /\ \A o \in Orders : psp[o] # "unknown" => psp'[o] # "unknown"
  BY <1>4 DEF PayInv, LinkInv
<1>12. /\ hook'.pc # "save"
       /\ pay'.status = "on_process" => pay'.url = detail.order /\ Known'
       /\ \A i \in Ids : job'[i].state = "waiting" => i \in DOMAIN outbox
       /\ worker'.pc # "idle" => worker'.id \in DOMAIN outbox
       /\ worker'.pc \notin {"idle", "detail"} => worker'.detail.order = detail.order
       /\ worker'.pc = "initiated" => Known'
  BY <1>4, <1>5, <1>9, WorkerFacts, ConstantTypes DEF PayInv, OrderInv, LinkInv
<1> QED
  BY <1>3, <1>4, <1>6, <1>7, <1>10, <1>11, <1>12, OthersMove

-----------------------------------------------------------------------------
(***************************************************************************)
(* The theorems.                                                           *)
(***************************************************************************)

\* PayInv is inductive.
LEMMA InitPayInv == Init => PayInv
<1> SUFFICES ASSUME Init PROVE PayInv
  OBVIOUS
<1>1. None \in OrderId /\ 0 \in OrderId
  BY PaymentAssumption DEF None, OrderId
<1>2. outbox = << >> /\ DOMAIN outbox = {} /\ outbox \in Seq(OutboxRow)
  BY EmptySeq DEF Init
<1>3. job \in [Ids -> [state : JobState, attempts : Nat]]
      /\ \A i \in Ids : job[i].state = "none"
  BY DEF Init, JobState
<1>4. TypeInv
  BY <1>1, <1>2, <1>3, ConstantTypes DEF Init, TypeInv
<1>5. \A p \in Payers : payer[p].pc = "idle" /\ payer[p].detail = NoDetail
  BY ConstantTypes DEF Init
<1>6. RowInv /\ OrderInv
  BY <1>2, <1>3, <1>5, ConstantTypes DEF Init, RowInv, OrderInv
<1>7. LinkInv
  BY <1>5, ConstantTypes DEF Init, LinkInv, Linked
<1> QED
  BY <1>4, <1>6, <1>7 DEF PayInv

\* Every step keeps PayInv.
LEMMA NextPayInv ==
  ASSUME OnePayer
  PROVE  PayInv /\ [Next]_vars => PayInv'
<1> SUFFICES ASSUME PayInv, [Next]_vars PROVE PayInv'
  OBVIOUS
<1>1. ASSUME NEW p \in Payers,
             ProceedRidePayment(p) \/ PayStep(p) \/ WaitTimesOut(p) \/ PayerCrashes(p)
      PROVE  PayInv'
  BY <1>1, PayerOnlySteps, SaveDetailAndOutboxKept, AddJobKept, SaveJobIdKept,
     UpdatePaymentStateKept DEF PayStep
<1>2. ASSUME NEW i \in Ids, TakeJob(i) PROVE PayInv'
  BY <1>2, TakeJobKept
<1>3. CASE WorkStep
  BY <1>3, ReadDetailKept, SaveOutboxKept, PostPaymentKept, SaveInitiatedKept,
     MarkCompletedKept, SaveFailedKept DEF WorkStep
<1>4. ASSUME NEW o \in Orders, RiderPays(o) PROVE PayInv'
  BY <1>4, RiderPaysKept
<1>5. ASSUME NEW o \in Orders, NEW out \in {"pending", "paid", "denied"},
             HandleNotification(o, out)
      PROVE  PayInv'
  BY <1>5, HandleNotificationKept DEF Outcomes
<1>6. CASE SaveDetailWithRideUpdate
  BY <1>6, SaveDetailWithRideUpdateKept
<1>7. CASE UNCHANGED vars
  <2>1. UNCHANGED <<pay, detail, outbox, job, orders, payer, worker, hook, psp>>
    BY <1>7 DEF vars
  <2> QED
    BY <2>1 DEF PayInv, TypeInv, RowInv, OrderInv, LinkInv, Linked, Known
<1> QED
  BY <1>1, <1>2, <1>3, <1>4, <1>5, <1>6, <1>7 DEF Next

\* PayInv holds in every reachable state.
LEMMA SpecPayInv ==
  ASSUME OnePayer
  PROVE  Spec => []PayInv
<1>1. PayInv /\ [Next]_vars => PayInv'
  BY NextPayInv
<1> QED
  BY <1>1, InitPayInv, PTL DEF Spec

\* One order per ride, however often the rider asks to pay and whatever fails:
\* initiatePayment takes the order id of the stored detail again, and no save
\* of a detail that processOutbox or a notification read earlier loses it.
\* Calls of proceedRidePayment must not overlap before the first detail is stored.
THEOREM OneOrderCorrect ==
  ASSUME OnePayer
  PROVE  Spec => []OneOrderPerRide
<1>1. PayInv => OneOrderPerRide
  BY DEF PayInv, OrderInv, OneOrderPerRide
<1> QED
  BY <1>1, SpecPayInv, PTL

\* A notification of an order that the provider knows finds its detail by
\* findByOrderId.
THEOREM OpenOrderCorrect ==
  ASSUME OnePayer
  PROVE  Spec => []OpenOrderIsKnown
<1>1. PayInv => OpenOrderIsKnown
  BY DEF PayInv, LinkInv, OpenOrderIsKnown
<1> QED
  BY <1>1, SpecPayInv, PTL

\* The link that updatePaymentState writes to the ride is one of the order in
\* the detail, and the provider knows the order.
THEOREM LinkCorrect ==
  ASSUME OnePayer
  PROVE  Spec => []LinkIsPayable
<1>1. PayInv => LinkIsPayable
  BY DEF PayInv, LinkInv, Known, LinkIsPayable
<1> QED
  BY <1>1, SpecPayInv, PTL
=============================================================================
