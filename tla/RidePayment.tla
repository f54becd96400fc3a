---------------------------- MODULE RidePayment ----------------------------
(***************************************************************************)
(* Paying for one completed ride: the payment columns of the `rides' row,  *)
(* its row of `ride_payment_details' (one per ride), its rows of           *)
(* `ride_payment_outbox', the jobs of the payment queue, the calls of      *)
(* proceedRidePayment, the worker that runs processOutbox, the payment     *)
(* provider and its notifications.                                         *)
(*                                                                         *)
(* Every statement or transaction is an action.  An entity that was read   *)
(* is saved whole, so it brings back the columns it was read with.  Orders *)
(* and payment links are numbers: the link of an order is the order.       *)
(***************************************************************************)
EXTENDS Naturals, Sequences, FiniteSets

CONSTANTS
  Payers,       \* calls of proceedRidePayment that can be in flight
  MaxOutbox,    \* bound: outbox rows
  MaxOrders,    \* bound: order ids generated
  MaxAttempts,  \* attempts of a job (PAYMENT_QUEUE_ATTEMPTS)
  MaxCrashes    \* bound: calls of proceedRidePayment that die

ASSUME PaymentAssumption ==
  /\ MaxOutbox \in Nat /\ MaxOrders \in Nat
  /\ MaxAttempts \in Nat \ {0} /\ MaxCrashes \in Nat

VARIABLES
  pay,     \* payment_status and payment_url of the ride
  detail,  \* the row of ride_payment_details
  outbox,  \* the rows of ride_payment_outbox, by id
  job,     \* the job of each outbox row
  orders,  \* order ids generated so far
  payer,   \* proceedRidePayment in flight
  worker,  \* processOutbox in flight: the queue has one worker
  hook,    \* handlePaymentNotification in flight
  psp,     \* the provider's view of each order
  given,   \* the orders whose link the rider was given
  crashes  \* calls that died so far

vars == <<pay, detail, outbox, job, orders, payer, worker, hook, psp, given,
          crashes>>

None == 0                 \* a column that is NULL
Ids == 1 .. MaxOutbox     \* outbox rows
Orders == 1 .. MaxOrders
OrderId == 0 .. MaxOrders

DetailStatus == {"none", "queued", "initiated", "failed",
                 "pending", "paid", "denied"}
Detail ==
  [status : DetailStatus, order : OrderId, url : OrderId, token : BOOLEAN]
NoDetail == [status |-> "none", order |-> None, url |-> None, token |-> FALSE]

OutboxStatus == {"pending", "processing", "completed", "failed"}
OutboxRow == [order : Orders, status : OutboxStatus]
JobState == {"none", "waiting", "active", "done", "failed"}

NoPayer == [pc |-> "idle", detail |-> NoDetail, id |-> 0]
NoWork == [pc |-> "idle", id |-> 0, detail |-> NoDetail]
NoHook == [pc |-> "idle", order |-> None, outcome |-> "pending",
           detail |-> NoDetail]

Init ==
  /\ pay = [status |-> "pending", url |-> None]
  /\ detail = NoDetail
  /\ outbox = << >>
  /\ job = [i \in Ids |-> [state |-> "none", attempts |-> 0]]
  /\ orders = 0
  /\ payer = [p \in Payers |-> NoPayer]
  /\ worker = NoWork
  /\ hook = NoHook
  /\ psp = [o \in Orders |-> "unknown"]
  /\ given = {}
  /\ crashes = 0

(***************************************************************************)
(* The statements of the repositories on the detail and the outbox.        *)
(***************************************************************************)
FindByRideId == detail

FindByOrderId(o) == {d \in {detail} : d.order = o}

\* The upsert of the detail, with every column of the entity.
PersistDetail(d) == detail' = d

FindOutbox(id) == outbox[id]

PayersInFlight == {p \in Payers : payer[p].pc # "idle"}

(***************************************************************************)
(* proceedRidePayment and initiatePayment.                                 *)
(***************************************************************************)
ProceedRidePayment(p) ==
  /\ payer[p].pc = "idle"
  /\ Len(outbox) + Cardinality(PayersInFlight) < MaxOutbox
  /\ pay.status # "paid"
  /\ payer' = [payer EXCEPT ![p].pc = "find"]
  /\ UNCHANGED <<pay, detail, outbox, job, orders, worker, hook, psp, given,
                 crashes>>

\* A payment that has its link and its token is returned; any other is queued
\* again.
HasLink(found) == found.url # None /\ found.token

ReturnDetail(p, found) ==
  /\ payer' = [payer EXCEPT ![p].pc = "update", ![p].detail = found]
  /\ UNCHANGED orders

QueueDetail(p, order) ==
  payer' = [payer EXCEPT
    ![p].pc = "persist",
    ![p].detail = [status |-> "queued", url |-> None, token |-> FALSE,
                   order |-> order]]

\* generateOrderId.
QueueNewOrder(p) ==
  /\ orders < MaxOrders
  /\ orders' = orders + 1
  /\ QueueDetail(p, orders + 1)

\* Mutant: a retry generates a new order id.
FindWithNewOrder(p) ==
  /\ payer[p].pc = "find"
  /\ \/ HasLink(detail) /\ ReturnDetail(p, detail)
     \/ ~HasLink(detail) /\ QueueNewOrder(p)
  /\ UNCHANGED <<pay, detail, outbox, job, worker, hook, psp, given, crashes>>

\* Mutant: a payment that exists is returned although it has no link yet.
FindWithoutLink(p) ==
  /\ payer[p].pc = "find"
  /\ \/ detail.order # None /\ ReturnDetail(p, detail)
     \/ detail.order = None /\ QueueNewOrder(p)
  /\ UNCHANGED <<pay, detail, outbox, job, worker, hook, psp, given, crashes>>

\* findByRideId: a payment that has both is returned; otherwise the order
\* id of the detail is used again, or a new one generated.
FindDetail(p) ==
  LET found == FindByRideId IN
  /\ payer[p].pc = "find"
  /\ \/ HasLink(found) /\ ReturnDetail(p, found)
     \/ /\ ~HasLink(found) /\ found.order # None
        /\ QueueDetail(p, found.order)
        /\ UNCHANGED orders
     \/ /\ ~HasLink(found) /\ found.order = None
        /\ QueueNewOrder(p)
  /\ UNCHANGED <<pay, detail, outbox, job, worker, hook, psp, given, crashes>>

\* One transaction: the detail, and a new outbox row.
SaveDetailAndOutbox(p) ==
  /\ payer[p].pc = "persist"
  /\ detail' = payer[p].detail
  /\ outbox' = Append(outbox, [order |-> payer[p].detail.order,
                               status |-> "pending"])
  /\ payer' = [payer EXCEPT ![p].pc = "enqueue", ![p].id = Len(outbox) + 1]
  /\ UNCHANGED <<pay, job, orders, worker, hook, psp, given, crashes>>

AddJob(p) ==
  /\ payer[p].pc = "enqueue"
  /\ job' = [job EXCEPT ![payer[p].id].state = "waiting"]
  /\ payer' = [payer EXCEPT ![p].pc = "saveJobId"]
  /\ UNCHANGED <<pay, detail, outbox, orders, worker, hook, psp, given,
                 crashes>>

\* The outbox entity was read when it was inserted, and is saved whole.
SaveJobId(p) ==
  /\ payer[p].pc = "saveJobId"
  /\ outbox' = [outbox EXCEPT ![payer[p].id].status = "pending"]
  /\ payer' = [payer EXCEPT ![p].pc = "wait"]
  /\ UNCHANGED <<pay, detail, job, orders, worker, hook, psp, given, crashes>>

WaitUntilFinished(p) ==
  /\ payer[p].pc = "wait"
  /\ \/ /\ job[payer[p].id].state = "done"
        /\ payer' = [payer EXCEPT ![p].pc = "refresh"]
     \/ /\ job[payer[p].id].state = "failed"
        /\ payer' = [payer EXCEPT ![p] = NoPayer]
  /\ UNCHANGED <<pay, detail, outbox, job, orders, worker, hook, psp, given,
                 crashes>>

\* PAYMENT_QUEUE_TIMEOUT_MS passes; the job stays in the queue.
WaitTimesOut(p) ==
  /\ payer[p].pc = "wait"
  /\ job[payer[p].id].state \in {"waiting", "active"}
  /\ payer' = [payer EXCEPT ![p] = NoPayer]
  /\ UNCHANGED <<pay, detail, outbox, job, orders, worker, hook, psp, given,
                 crashes>>

RefreshDetail(p) ==
  /\ payer[p].pc = "refresh"
  /\ payer' = [payer EXCEPT ![p] =
                 IF FindByRideId.url = None THEN NoPayer
                 ELSE [@ EXCEPT !.pc = "update", !.detail = FindByRideId]]
  /\ UNCHANGED <<pay, detail, outbox, job, orders, worker, hook, psp, given,
                 crashes>>

\* updatePaymentState, and the answer with the link.
UpdatePaymentState(p) ==
  /\ payer[p].pc = "update"
  /\ pay' = [status |-> "on_process", url |-> payer[p].detail.url]
  /\ given' = given \cup {payer[p].detail.url}
  /\ payer' = [payer EXCEPT ![p] = NoPayer]
  /\ UNCHANGED <<detail, outbox, job, orders, worker, hook, psp, crashes>>

\* The process dies in the middle of a call.
PayerCrashes(p) ==
  /\ payer[p].pc # "idle"
  /\ crashes < MaxCrashes
  /\ crashes' = crashes + 1
  /\ payer' = [payer EXCEPT ![p] = NoPayer]
  /\ UNCHANGED <<pay, detail, outbox, job, orders, worker, hook, psp, given>>

(***************************************************************************)
(* processOutbox.                                                          *)
(***************************************************************************)
TakeJob(i) ==
  /\ worker.pc = "idle"
  /\ job[i].state = "waiting"
  /\ job' = [job EXCEPT ![i] = [state |-> "active", attempts |-> @.attempts + 1]]
  /\ worker' = [NoWork EXCEPT !.pc = "detail", !.id = i]
  /\ UNCHANGED <<pay, detail, outbox, orders, payer, hook, psp, given, crashes>>

ReadDetail ==
  /\ worker.pc = "detail"
  /\ worker' = [worker EXCEPT !.pc = "processing", !.detail = FindByRideId]
  /\ UNCHANGED <<pay, detail, outbox, job, orders, payer, hook, psp, given,
                 crashes>>

\* Saving the outbox row with its status, and going on.
SaveOutbox(pc, status, next) ==
  /\ worker.pc = pc
  /\ outbox' = [outbox EXCEPT ![worker.id].status = status]
  /\ worker' = [worker EXCEPT !.pc = next]

MarkProcessing ==
  /\ SaveOutbox("processing", "processing", "post")
  /\ UNCHANGED <<pay, detail, job, orders, payer, hook, psp, given, crashes>>

\* The provider accepts an order it does not know, and may answer an order it
\* knows with its link or with an error; the request or the answer can be lost.
PostPayment ==
  LET o == FindOutbox(worker.id).order IN
  /\ worker.pc = "post"
  /\ \/ /\ psp' = [psp EXCEPT ![o] = IF @ = "unknown" THEN "open" ELSE @]
        /\ \/ worker' = [worker EXCEPT !.pc = "initiated"]
           \/ worker' = [worker EXCEPT !.pc = "error"]
     \/ /\ worker' = [worker EXCEPT !.pc = "error"]
        /\ UNCHANGED psp
  /\ UNCHANGED <<pay, detail, outbox, job, orders, payer, hook, given, crashes>>

\* The link and the token of the answer, which may lack either.
SaveInitiated ==
  LET o == FindOutbox(worker.id).order IN
  /\ worker.pc = "initiated"
  /\ \E url \in {o, None}, token \in BOOLEAN :
       PersistDetail([status |-> "initiated", order |-> o, url |-> url,
                      token |-> token])
  /\ worker' = [worker EXCEPT !.pc = "completed"]
  /\ UNCHANGED <<pay, outbox, job, orders, payer, hook, psp, given, crashes>>

MarkCompleted ==
  /\ worker.pc = "completed"
  /\ outbox' = [outbox EXCEPT ![worker.id].status = "completed"]
  /\ job' = [job EXCEPT ![worker.id].state = "done"]
  /\ worker' = NoWork
  /\ UNCHANGED <<pay, detail, orders, payer, hook, psp, given, crashes>>

MarkFailed ==
  /\ SaveOutbox("error", "failed", "saveFailed")
  /\ UNCHANGED <<pay, detail, job, orders, payer, hook, psp, given, crashes>>

\* Mutant: a failure clears the detail with its order id.
SaveFailedWithoutOrder ==
  /\ worker.pc = "saveFailed"
  /\ detail' = [NoDetail EXCEPT !.status = "failed"]
  /\ job' = [job EXCEPT ![worker.id].state =
               IF job[worker.id].attempts < MaxAttempts THEN "waiting"
                                                        ELSE "failed"]
  /\ worker' = NoWork
  /\ UNCHANGED <<pay, outbox, orders, payer, hook, psp, given, crashes>>

\* The detail read at the start is saved as failed; the error it throws makes
\* the queue retry the job while attempts are left.
SaveFailed ==
  /\ worker.pc = "saveFailed"
  /\ PersistDetail([worker.detail EXCEPT !.status = "failed"])
  /\ job' = [job EXCEPT ![worker.id].state =
               IF job[worker.id].attempts < MaxAttempts THEN "waiting"
                                                        ELSE "failed"]
  /\ worker' = NoWork
  /\ UNCHANGED <<pay, outbox, orders, payer, hook, psp, given, crashes>>

(***************************************************************************)
(* The rider at the provider's page, and the provider's notifications: of  *)
(* an order that waits for its payment, and of its outcome, any number of  *)
(* times and in any order.                                                 *)
(***************************************************************************)
RiderPays(o) ==
  /\ o \in given
  /\ psp[o] = "open"
  /\ \E outcome \in {"paid", "denied"} : psp' = [psp EXCEPT ![o] = outcome]
  /\ UNCHANGED <<pay, detail, outbox, job, orders, payer, worker, hook, given,
                 crashes>>

Notifications(o) ==
  CASE psp[o] = "unknown" -> {}
    [] psp[o] = "open" -> {"pending"}
    [] OTHER -> {"pending", psp[o]}

\* Mutant: only a detail that is still `initiated' takes a notification.
HandleInitiatedOnly(o, outcome) ==
  /\ hook.pc = "idle"
  /\ outcome \in Notifications(o)
  /\ detail.order = o /\ detail.status = "initiated"
  /\ hook' = [pc |-> "save", order |-> o, outcome |-> outcome, detail |-> detail]
  /\ UNCHANGED <<pay, detail, outbox, job, orders, payer, worker, psp, given,
                 crashes>>

\* findByOrderId: the notification of an order that no detail has is refused.
HandleNotification(o, outcome) ==
  /\ hook.pc = "idle"
  /\ outcome \in Notifications(o)
  /\ \E d \in FindByOrderId(o) :
       hook' = [pc |-> "save", order |-> o, outcome |-> outcome, detail |-> d]
  /\ UNCHANGED <<pay, detail, outbox, job, orders, payer, worker, psp, given,
                 crashes>>

\* The detail with the status of a notification.
ApplyNotification(d, outcome) == [d EXCEPT !.status = outcome]

OutboxStatusFor == [paid |-> "completed", denied |-> "failed",
                    pending |-> "processing"]

\* One transaction: the detail, the ride when it is paid, and the outbox rows
\* of the order.
SaveDetailWithRideUpdate ==
  /\ hook.pc = "save"
  /\ PersistDetail(ApplyNotification(hook.detail, hook.outcome))
  /\ pay' = IF hook.outcome = "paid" THEN [status |-> "paid", url |-> None]
                                     ELSE pay
  /\ outbox' = [i \in DOMAIN outbox |->
                  IF outbox[i].order = hook.order
                    THEN [outbox[i] EXCEPT !.status = OutboxStatusFor[hook.outcome]]
                    ELSE outbox[i]]
  /\ hook' = NoHook
  /\ UNCHANGED <<job, orders, payer, worker, psp, given, crashes>>

PayStep(p) ==
  \/ FindDetail(p)
  \/ SaveDetailAndOutbox(p)
  \/ AddJob(p)
  \/ SaveJobId(p)
  \/ WaitUntilFinished(p)
  \/ RefreshDetail(p)
  \/ UpdatePaymentState(p)

WorkStep ==
  \/ ReadDetail
  \/ MarkProcessing
  \/ PostPayment
  \/ SaveInitiated
  \/ MarkCompleted
  \/ MarkFailed
  \/ SaveFailed

Next ==
  \/ \E p \in Payers :
       ProceedRidePayment(p) \/ PayStep(p) \/ WaitTimesOut(p) \/ PayerCrashes(p)
  \/ \E i \in Ids : TakeJob(i)
  \/ WorkStep
  \/ \E o \in Orders : RiderPays(o)
  \/ \E o \in Orders, outcome \in {"pending", "paid", "denied"} :
       HandleNotification(o, outcome)
  \/ SaveDetailWithRideUpdate

Spec == Init /\ [][Next]_vars

\* Calls and jobs run to their end, the queue delivers its jobs, and the
\* provider repeats the notification of a payment until it is handled.
FairSpec ==
  /\ Spec
  /\ \A p \in Payers : WF_vars(PayStep(p))
  /\ \A i \in Ids : WF_vars(TakeJob(i))
  /\ WF_vars(WorkStep)
  /\ \A o \in Orders : SF_vars(HandleNotification(o, "paid"))
  /\ WF_vars(SaveDetailWithRideUpdate)

-----------------------------------------------------------------------------
(***************************************************************************)
(* Properties.                                                             *)
(***************************************************************************)

\* The variables keep their types, and a call or a job in flight names a row
\* of the outbox where it uses one.
TypeOK ==
  /\ pay \in [status : {"pending", "on_process", "paid"}, url : OrderId]
  /\ detail \in Detail
  /\ outbox \in Seq(OutboxRow)
  /\ Len(outbox) <= MaxOutbox
  /\ job \in [Ids -> [state : JobState, attempts : 0 .. MaxAttempts]]
  /\ orders \in OrderId
  /\ \A p \in Payers :
       /\ payer[p].detail \in Detail
       /\ payer[p].pc \in {"enqueue", "saveJobId", "wait"} =>
            payer[p].id \in DOMAIN outbox
  /\ worker.pc # "idle" => worker.id \in DOMAIN outbox
  /\ worker.detail \in Detail /\ hook.detail \in Detail
  /\ psp \in [Orders -> {"unknown", "open", "paid", "denied"}]
  /\ given \subseteq Orders
  /\ crashes \in 0 .. MaxCrashes

\* However often the rider asks to pay, one call after the other, and whatever
\* fails or times out, there is one order for the ride: initiatePayment takes
\* the order id of the detail again.  Two orders would be two payments, and two
\* calls that overlap do make them.
OneOrderPerRide ==
  \A i, j \in DOMAIN outbox : outbox[i].order = outbox[j].order

\* The notification of every order that the provider can take money for finds
\* its payment: no save of a stale detail forgets the order.
OpenOrderIsKnown ==
  \A o \in Orders : psp[o] # "unknown" => detail.order = o

\* A paid ride stays paid, whatever jobs and late notifications still do.
PaidIsFinal == [][ pay.status = "paid" => pay'.status = "paid" ]_vars

\* A ride on its way to be paid shows the link of its own payment, and one the
\* provider knows.
LinkIsPayable ==
  pay.status = "on_process" =>
    /\ pay.url = detail.order
    /\ psp[pay.url] # "unknown"

\* Money taken by the provider makes the ride paid.
PaymentIsRecorded ==
  (\E o \in Orders : psp[o] = "paid") ~> pay.status = "paid"
=============================================================================
