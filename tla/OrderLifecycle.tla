--------------------------- MODULE OrderLifecycle ---------------------------
(***************************************************************************)
(* The life of an order, from the checkout request to its tickets or its   *)
(* cancellation: OrderService, its three workers, PaymentService and the   *)
(* Redis and Postgres state they share.                                    *)
(*                                                                         *)
(* Every handler is cut at its awaits: an action is the code between two   *)
(* awaits together with the single command it issues, so a read of one     *)
(* step is stale for the next.  An error thrown by an awaited call is the  *)
(* environment's choice (CheckoutFails, CancelFails, JobFails), bounded by *)
(* MaxFaults; a call that took effect and whose answer was lost is the     *)
(* completed step followed by the failure of the next one.                 *)
(*                                                                         *)
(* The event is published before the first request: available, hold and    *)
(* sold start as EventConfigService.requestConfigure writes them.          *)
(***************************************************************************)
EXTENDS Integers, FiniteSets

CONSTANTS
  Orders,       \* one checkout request each; stands for the order code
  Classes,      \* the ticket classes of the event
  Total,        \* Total[c]: tickets published for class c
  Carts,        \* the possible contents of a request
  CartQty,      \* CartQty[x][c]: tickets of class c over all lines of x
  CartMaxLine,  \* CartMaxLine[x][c]: the largest single line of class c in x
  Gateways,     \* the payment gateways customers choose
  HttpCancels,  \* bound: POST order/:id/cancel requests per order
  Callbacks,    \* bound: transaction jobs per order
  TestCalls,    \* whether somebody uses POST payment/test/procress
  MaxAttempts,  \* attempts of a transaction job (payment.module.ts: 3)
  MaxCrashes,   \* bound: crashes of the process
  MaxFaults     \* bound: calls that fail although the process is up

ASSUME CartsAssumption ==
  /\ Total \in [Classes -> Nat]
  /\ CartQty \in [Carts -> [Classes -> Nat]]
  /\ CartMaxLine \in [Carts -> [Classes -> Nat]]
  /\ \A x \in Carts, c \in Classes :
        /\ CartMaxLine[x][c] <= CartQty[x][c]
        /\ CartMaxLine[x][c] = 0 => CartQty[x][c] = 0

ASSUME BoundsAssumption ==
  /\ Gateways \subseteq {"vnpay", "zalopay", "payos"}
  /\ HttpCancels \in Nat /\ Callbacks \in Nat /\ MaxAttempts \in Nat \ {0}
  /\ TestCalls \in BOOLEAN
  /\ MaxCrashes \in Nat /\ MaxFaults \in Nat

\* The cancellations of an order: <<o, 0>> is its release job, <<o, i>> the
\* i-th HTTP request.  Jobs are the transaction jobs of an order, QueueJobs all
\* that BullMQ knows of it, its release job included.
Callers == Orders \X (0 .. HttpCancels)
Jobs == Orders \X (1 .. Callbacks)
QueueJobs == Orders \X (0 .. Callbacks)
OrderOf(x) == x[1]
Release(o) == <<o, 0>>

VARIABLES
  request,      \* request[o]: the cart and the gateway of the request body
  checkout,     \* checkout[o]: where OrderService.checkout stands
  seen,         \* seen[o]: the availability the request read
  orderKey,     \* orderKey[o]: the hash order:<code> in Redis
  available,    \* Redis ticketClass:<id>.available
  hold,         \* Redis ticketClass:<id>.hold
  cancel,       \* cancel[k]: where cancelOrder stands for caller k
  paid,         \* paid[o]: the customer paid at the gateway
  reply,        \* reply[o]: the last answer to the gateway's callback
  job,          \* job[j]: where the transaction job stands
  attempts,     \* attempts[j]: failed attempts of the job
  transaction,  \* transaction[o]: the row with refCode o
  dbOrder,      \* dbOrder[o]: the row with code o
  tickets,      \* tickets[o]: batches of tickets created for o
  soldQuantity, \* soldQuantity[c]: column of the ticket class
  emails,       \* emails[o]: confirmations put on the e-mail queue
  crashes, faults

redis == <<orderKey, available, hold>>
database == <<transaction, dbOrder, tickets, soldQuantity>>
payment == <<paid, reply>>
queue == <<job, attempts>>
environment == <<crashes, faults>>
vars == <<request, checkout, seen, redis, cancel, payment, queue, database,
          emails, environment>>

\* A key that is deleted and then written by HSET status COMPLETED holds
\* that one field: "ghost".
KeyState == {"none", "PENDING", "COMPLETED", "ghost"}
CheckoutRunning == {"store", "reserve", "schedule", "link"}
CheckoutState == CheckoutRunning
                   \cup {"idle", "done", "rejected", "unlinked", "failed"}
CancelRunning == {"check", "release", "delete", "persist"}
\* A cancellation that is over has deleted the hash, "done", or threw before,
\* "failed".
CancelState == CancelRunning \cup {"idle", "delayed", "done", "failed"}
JobRunning == {"charge", "verify", "mark", "commit", "notify", "cleanup"}
JobState == JobRunning \cup {"idle", "waiting", "done", "failed"}
RowState == {"none", "COMPLETED", "CANCELLED"}
Reply == {"none", "success", "orderNotFound", "invalidAmount",
          "alreadyConfirmed"}

Quantity(o) == CartQty[request[o].cart]
LargestLine(o) == CartMaxLine[request[o].cart]

Init ==
  /\ request \in [Orders -> [cart : Carts, gateway : Gateways]]
  /\ checkout = [o \in Orders |-> "idle"]
  /\ seen = [o \in Orders |-> [c \in Classes |-> 0]]
  /\ orderKey = [o \in Orders |-> "none"]
  /\ available = Total
  /\ hold = [c \in Classes |-> 0]
  /\ cancel = [k \in Callers |-> "idle"]
  /\ paid = [o \in Orders |-> FALSE]
  /\ reply = [o \in Orders |-> "none"]
  /\ job = [j \in Jobs |-> "idle"]
  /\ attempts = [j \in Jobs |-> 0]
  /\ transaction = [o \in Orders |-> "none"]
  /\ dbOrder = [o \in Orders |-> "none"]
  /\ tickets = [o \in Orders |-> 0]
  /\ soldQuantity = [c \in Classes |-> 0]
  /\ emails = [o \in Orders |-> 0]
  /\ crashes = 0
  /\ faults = 0

-----------------------------------------------------------------------------
(* OrderService.checkout *)

(* createOrderOnRedis reads the sale data of the event. *)
GetSaleData(o) ==
  /\ checkout[o] = "idle"
  /\ seen' = [seen EXCEPT ![o] = available]
  /\ checkout' = [checkout EXCEPT ![o] = "store"]
  /\ UNCHANGED <<request, redis, cancel, payment, queue, database, emails,
                 environment>>

(* The PENDING hash is written before anything is reserved. *)
StoreOrder(o) ==
  /\ checkout[o] = "store"
  /\ orderKey' = [orderKey EXCEPT ![o] = "PENDING"]
  /\ checkout' = [checkout EXCEPT ![o] = "reserve"]
  /\ UNCHANGED <<request, seen, available, hold, cancel, payment, queue,
                 database, emails, environment>>

\* Variant: a line may ask for one ticket more than there are.
SufficientOffByOne(o) ==
  \A c \in Classes : seen[o][c] + 1 >= LargestLine(o)[c]

\* Each line of the cart is compared with the availability read before.
Sufficient(o) == \A c \in Classes : seen[o][c] >= LargestLine(o)[c]

\* Variant: the hold of the second HINCRBY is forgotten.
TakeWithoutHold(o) ==
  /\ available' = [c \in Classes |-> available[c] - Quantity(o)[c]]
  /\ hold' = hold

TakeTickets(o) ==
  /\ available' = [c \in Classes |-> available[c] - Quantity(o)[c]]
  /\ hold' = [c \in Classes |-> hold[c] + Quantity(o)[c]]

(* reserveTickets: one MULTI of HINCRBYs, or an exception before it that
   leaves the PENDING hash behind. *)
ReserveTickets(o) ==
  /\ checkout[o] = "reserve"
  /\ IF Sufficient(o)
       THEN /\ TakeTickets(o)
            /\ checkout' = [checkout EXCEPT ![o] = "schedule"]
       ELSE /\ checkout' = [checkout EXCEPT ![o] = "rejected"]
            /\ UNCHANGED <<available, hold>>
  /\ UNCHANGED <<request, seen, orderKey, cancel, payment, queue, database,
                 emails, environment>>

(* The delayed release job is queued; the field releaseJobId written next is
   read by nobody, and the job is eleven minutes away. *)
ScheduleRelease(o) ==
  /\ checkout[o] = "schedule"
  /\ cancel' = [cancel EXCEPT ![Release(o)] = "delayed"]
  /\ checkout' = [checkout EXCEPT ![o] = "link"]
  /\ UNCHANGED <<request, seen, redis, payment, queue, database, emails,
                 environment>>

(* PaymentService.createPaymentLink: the gateway answers or refuses. *)
CreatePaymentLink(o) ==
  /\ checkout[o] = "link"
  /\ \E result \in {"done", "unlinked"} :
        checkout' = [checkout EXCEPT ![o] = result]
  /\ UNCHANGED <<request, seen, redis, cancel, payment, queue, database,
                 emails, environment>>

-----------------------------------------------------------------------------
(* OrderService.cancelOrder, called by the release worker and over HTTP *)

(* The release worker takes one job at a time, and only cancels an order that
   it reads as PENDING. *)
TakeReleaseJob(o) ==
  /\ cancel[Release(o)] = "delayed"
  /\ \A p \in Orders : cancel[Release(p)] \notin CancelRunning
  /\ cancel' = [cancel EXCEPT ![Release(o)] =
                  IF orderKey[o] = "PENDING" THEN "check" ELSE "failed"]
  /\ UNCHANGED <<request, checkout, seen, redis, payment, queue, database,
                 emails, environment>>

(* A customer knows the code of an order once the checkout has answered. *)
RequestCancel(k) ==
  /\ k[2] # 0
  /\ cancel[k] = "idle"
  /\ checkout[OrderOf(k)] = "done"
  /\ cancel' = [cancel EXCEPT ![k] = "check"]
  /\ UNCHANGED <<request, checkout, seen, redis, payment, queue, database,
                 emails, environment>>

\* What releaseTickets demands of the hash it reads.
Releasable(o) == orderKey[o] = "PENDING"

(* releaseTickets reads the hash again and throws unless it is PENDING. *)
CheckPending(k) ==
  /\ cancel[k] = "check"
  /\ cancel' = [cancel EXCEPT ![k] =
                  IF Releasable(OrderOf(k)) THEN "release" ELSE "failed"]
  /\ UNCHANGED <<request, checkout, seen, redis, payment, queue, database,
                 emails, environment>>

ReturnTickets(o) ==
  /\ available' = [c \in Classes |-> available[c] + Quantity(o)[c]]
  /\ hold' = [c \in Classes |-> hold[c] - Quantity(o)[c]]

(* releaseTickets: one MULTI that gives the tickets back. *)
ReleaseTickets(k) ==
  /\ cancel[k] = "release"
  /\ ReturnTickets(OrderOf(k))
  /\ cancel' = [cancel EXCEPT ![k] = "delete"]
  /\ UNCHANGED <<request, checkout, seen, orderKey, payment, queue, database,
                 emails, environment>>

\* Variant: the hash is left in place.
KeepOrder(k) ==
  /\ cancel[k] = "delete"
  /\ cancel' = [cancel EXCEPT ![k] = "persist"]
  /\ UNCHANGED <<request, checkout, seen, redis, payment, queue, database,
                 emails, environment>>

\* Variant: the handler answers before it has written the cancelled order.
DropOrder(k) ==
  /\ cancel[k] = "delete"
  /\ orderKey' = [orderKey EXCEPT ![OrderOf(k)] = "none"]
  /\ cancel' = [cancel EXCEPT ![k] = "done"]
  /\ UNCHANGED <<request, checkout, seen, available, hold, payment, queue,
                 database, emails, environment>>

(* The hash is deleted, whatever its status is by now. *)
DeleteOrder(k) ==
  /\ cancel[k] = "delete"
  /\ orderKey' = [orderKey EXCEPT ![OrderOf(k)] = "none"]
  /\ cancel' = [cancel EXCEPT ![k] = "persist"]
  /\ UNCHANGED <<request, checkout, seen, available, hold, payment, queue,
                 database, emails, environment>>

\* Variant: refCode without the unique constraint.
RefCodeNotUnique(o) == transaction[o] \in RowState

\* The unique columns Transaction.refCode and Order.code.
RefCodeFree(o) == transaction[o] = "none"
OrderCodeFree(o) == dbOrder[o] = "none"

(* The cancelled order and its cancelled transaction are one nested create;
   a taken code makes it throw and writes neither. *)
PersistCancelled(k) ==
  LET o == OrderOf(k) IN
  /\ cancel[k] = "persist"
  /\ IF RefCodeFree(o) /\ OrderCodeFree(o)
       THEN /\ transaction' = [transaction EXCEPT ![o] = "CANCELLED"]
            /\ dbOrder' = [dbOrder EXCEPT ![o] = "CANCELLED"]
       ELSE UNCHANGED <<transaction, dbOrder>>
  /\ cancel' = [cancel EXCEPT ![k] = "done"]
  /\ UNCHANGED <<request, checkout, seen, redis, payment, queue, tickets,
                 soldQuantity, emails, environment>>

-----------------------------------------------------------------------------
(* The gateways and PaymentService *)

(* The customer pays with the link of the answered checkout. *)
Pay(o) ==
  /\ checkout[o] = "done"
  /\ ~paid[o]
  /\ paid' = [paid EXCEPT ![o] = TRUE]
  /\ UNCHANGED <<request, checkout, seen, redis, cancel, reply, queue,
                 database, emails, environment>>

\* The fields createOrderOnRedis writes.
OrderFields ==
  {"code", "eventId", "userId", "status", "totalCheckout", "totalQuantity",
   "createdAt", "orderDetails", "transactionCode", "transactionAction",
   "paymentGateway", "releaseJobId"}

\* A genuine notification carries the amount of the link.  The amount that
\* VnpayGateway.handleCallback compares it with is a field of the hash.
VnpayReply(o) ==
  CASE orderKey[o] \in {"none", "ghost"} -> "orderNotFound"
    [] "amount" \notin OrderFields -> "invalidAmount"
    [] orderKey[o] = "COMPLETED" -> "alreadyConfirmed"
    [] OTHER -> "success"

\* ZaloPay and PayOS check the signature of the notification and no more.
CallbackReply(o) ==
  IF request[o].gateway = "vnpay" THEN VnpayReply(o) ELSE "success"

AddTransactionToQueue(j) ==
  /\ job[j] = "idle"
  /\ job' = [job EXCEPT ![j] = "waiting"]
  /\ UNCHANGED attempts

(* PaymentService.handleCallback for a genuine notification of a payment;
   gateways repeat notifications, so it may run more than once. *)
HandleCallback(j) ==
  LET o == OrderOf(j) IN
  /\ paid[o]
  /\ job[j] = "idle"
  /\ reply' = [reply EXCEPT ![o] = CallbackReply(o)]
  /\ IF CallbackReply(o) = "success"
       THEN AddTransactionToQueue(j)
       ELSE UNCHANGED queue
  /\ UNCHANGED <<request, checkout, seen, redis, cancel, paid, database,
                 emails, environment>>

(* POST payment/test/procress queues the code of the body as it is. *)
TestCreatePaymentLink(j) ==
  /\ TestCalls
  /\ checkout[OrderOf(j)] = "done"
  /\ AddTransactionToQueue(j)
  /\ UNCHANGED <<request, checkout, seen, redis, cancel, payment, database,
                 emails, environment>>

-----------------------------------------------------------------------------
(* ProcessTransactionWorker: processTransaction, then completeOrder *)

\* Variant: failed attempts are not counted.
RetryForEver(j) ==
  /\ job' = [job EXCEPT ![j] = "waiting"]
  /\ UNCHANGED attempts

\* BullMQ puts a job that threw back in the queue until its last attempt.
RetryOrFail(j) ==
  /\ attempts' = [attempts EXCEPT ![j] = @ + 1]
  /\ job' = [job EXCEPT ![j] =
               IF attempts[j] + 1 < MaxAttempts THEN "waiting" ELSE "failed"]

Step(j, from, to) ==
  /\ job[j] = from
  /\ job' = [job EXCEPT ![j] = to]
  /\ UNCHANGED attempts

(* processTransaction reads the hash and demands PENDING. *)
ProcessTransaction(j) ==
  /\ job[j] = "waiting"
  /\ IF orderKey[OrderOf(j)] = "PENDING"
       THEN Step(j, "waiting", "charge")
       ELSE RetryOrFail(j)
  /\ UNCHANGED <<request, checkout, seen, redis, cancel, payment, database,
                 emails, environment>>

\* Variant: an upsert instead of a create, so that a retry finds its row.
UpsertTransaction(j) ==
  LET o == OrderOf(j) IN
  /\ Step(j, "charge", "verify")
  /\ transaction' = [transaction EXCEPT ![o] = "COMPLETED"]
  /\ UNCHANGED <<request, checkout, seen, redis, cancel, payment, dbOrder,
                 tickets, soldQuantity, emails, environment>>

(* The transaction row is created with the order code as unique refCode. *)
ChargeTransaction(j) ==
  LET o == OrderOf(j) IN
  /\ job[j] = "charge"
  /\ IF RefCodeFree(o)
       THEN /\ transaction' = [transaction EXCEPT ![o] = "COMPLETED"]
            /\ Step(j, "charge", "verify")
       ELSE /\ RetryOrFail(j)
            /\ UNCHANGED transaction
  /\ UNCHANGED <<request, checkout, seen, redis, cancel, payment, dbOrder,
                 tickets, soldQuantity, emails, environment>>

(* completeOrder reads the hash again and demands PENDING again. *)
VerifyPending(j) ==
  /\ job[j] = "verify"
  /\ IF orderKey[OrderOf(j)] = "PENDING"
       THEN Step(j, "verify", "mark")
       ELSE RetryOrFail(j)
  /\ UNCHANGED <<request, checkout, seen, redis, cancel, payment, database,
                 emails, environment>>

\* Variant: the status of the hash is not updated.
StatusKept(key) == key

\* Variant: HSET writes a status that the enum does not have.
StatusUnknown(key) == IF key = "PENDING" THEN "PAID" ELSE key

\* HSET creates the key when it is gone.
StatusWritten(key) == IF key \in {"none", "ghost"} THEN "ghost" ELSE "COMPLETED"

MarkCompleted(j) ==
  LET o == OrderOf(j) IN
  /\ Step(j, "mark", "commit")
  /\ orderKey' = [orderKey EXCEPT ![o] = StatusWritten(@)]
  /\ UNCHANGED <<request, checkout, seen, available, hold, cancel, payment,
                 database, emails, environment>>

SellTickets(o) ==
  soldQuantity' = [c \in Classes |-> soldQuantity[c] + Quantity(o)[c]]

\* Variant: the sold quantities are updated outside of the transaction.
CommitInParts(j) ==
  LET o == OrderOf(j) IN
  /\ job[j] = "commit"
  /\ SellTickets(o)
  /\ \/ /\ tickets' = [tickets EXCEPT ![o] = @ + 1]
        /\ dbOrder' = [dbOrder EXCEPT ![o] = "COMPLETED"]
        /\ Step(j, "commit", "notify")
     \/ RetryOrFail(j) /\ UNCHANGED <<tickets, dbOrder>>
  /\ UNCHANGED <<request, checkout, seen, redis, cancel, payment, transaction,
                 emails, environment>>

(* The interactive database transaction: sold quantities, tickets and the
   completed order, all or nothing. *)
CommitOrder(j) ==
  LET o == OrderOf(j) IN
  /\ job[j] = "commit"
  /\ IF OrderCodeFree(o)
       THEN /\ SellTickets(o)
            /\ tickets' = [tickets EXCEPT ![o] = @ + 1]
            /\ dbOrder' = [dbOrder EXCEPT ![o] = "COMPLETED"]
            /\ Step(j, "commit", "notify")
       ELSE /\ RetryOrFail(j)
            /\ UNCHANGED <<soldQuantity, tickets, dbOrder>>
  /\ UNCHANGED <<request, checkout, seen, redis, cancel, payment, transaction,
                 emails, environment>>

\* Variant: the hash is deleted before the confirmation is queued.
DeleteThenNotify(j) ==
  LET o == OrderOf(j) IN
  /\ job[j] = "notify"
  /\ IF orderKey[o] # "none"
       THEN /\ orderKey' = [orderKey EXCEPT ![o] = "none"]
            /\ UNCHANGED <<queue, emails>>
       ELSE /\ emails' = [emails EXCEPT ![o] = @ + 1]
            /\ Step(j, "notify", "cleanup")
            /\ UNCHANGED orderKey
  /\ UNCHANGED <<request, checkout, seen, available, hold, cancel, payment,
                 database, environment>>

(* The ticket PDFs are rendered and the confirmation is queued. *)
NotifyCustomer(j) ==
  /\ Step(j, "notify", "cleanup")
  /\ emails' = [emails EXCEPT ![OrderOf(j)] = @ + 1]
  /\ UNCHANGED <<request, checkout, seen, redis, cancel, payment, database,
                 environment>>

(* The hash is deleted and the statistics of the event are invalidated. *)
CleanUp(j) ==
  /\ Step(j, "cleanup", "done")
  /\ orderKey' = [orderKey EXCEPT ![OrderOf(j)] = "none"]
  /\ UNCHANGED <<request, checkout, seen, available, hold, cancel, payment,
                 database, emails, environment>>

-----------------------------------------------------------------------------
(* Failures *)

Fault == faults < MaxFaults /\ faults' = faults + 1

(* A call of the checkout throws: the request answers with an error. *)
CheckoutFails(o) ==
  /\ Fault
  /\ checkout[o] \in CheckoutRunning
  /\ checkout' = [checkout EXCEPT ![o] = "failed"]
  /\ UNCHANGED <<request, seen, redis, cancel, payment, queue, database,
                 emails, crashes>>

\* How a cancellation ends that is cut off before its last call.
Interrupted(k) == IF cancel[k] = "persist" THEN "done" ELSE "failed"

(* A call of cancelOrder throws.  The release worker logs the error and
   returns, so BullMQ takes its job for completed. *)
CancelFails(k) ==
  /\ Fault
  /\ cancel[k] \in CancelRunning \cup {"delayed"}
  /\ cancel' = [cancel EXCEPT ![k] = Interrupted(k)]
  /\ UNCHANGED <<request, checkout, seen, redis, payment, queue, database,
                 emails, crashes>>

(* A call of the transaction worker throws, which costs an attempt. *)
JobFails(j) ==
  /\ Fault
  /\ job[j] \in JobRunning \cup {"waiting"}
  /\ RetryOrFail(j)
  /\ UNCHANGED <<request, checkout, seen, redis, cancel, payment, database,
                 emails, crashes>>

HasWorker(x) ==
  IF x[2] = 0 THEN cancel[x] \in CancelRunning ELSE job[x] \in JobRunning

(* The process dies and is restarted.  Requests are lost.  BullMQ puts a job
   that lost its worker back in its queue, and gives it up the second time
   (maxStalledCount): from the second crash on, any of them may be given up.
   A release job that has deleted the hash has nothing left to release. *)
Crash ==
  /\ crashes < MaxCrashes
  /\ crashes' = crashes + 1
  /\ checkout' = [o \in Orders |->
       IF checkout[o] \in CheckoutRunning THEN "failed" ELSE checkout[o]]
  /\ \E lost \in SUBSET {x \in QueueJobs : HasWorker(x)} :
       /\ crashes = 0 => lost = {}
       /\ cancel' = [k \in Callers |->
            IF cancel[k] \notin CancelRunning THEN cancel[k]
            ELSE IF k[2] = 0 /\ k \notin lost /\ cancel[k] # "persist"
                   THEN "delayed"
            ELSE Interrupted(k)]
       /\ job' = [j \in Jobs |->
            IF job[j] \notin JobRunning THEN job[j]
            ELSE IF j \in lost THEN "failed" ELSE "waiting"]
  /\ UNCHANGED <<request, seen, redis, payment, attempts, database, emails,
                 faults>>

-----------------------------------------------------------------------------
CheckoutStep(o) ==
  \/ StoreOrder(o)
  \/ ReserveTickets(o)
  \/ ScheduleRelease(o)
  \/ CreatePaymentLink(o)

CancelStep(k) ==
  \/ CheckPending(k)
  \/ ReleaseTickets(k)
  \/ DeleteOrder(k)
  \/ PersistCancelled(k)

JobStep(j) ==
  \/ ProcessTransaction(j)
  \/ ChargeTransaction(j)
  \/ VerifyPending(j)
  \/ MarkCompleted(j)
  \/ CommitOrder(j)
  \/ NotifyCustomer(j)
  \/ CleanUp(j)

Next ==
  \/ \E o \in Orders :
        \/ GetSaleData(o)
        \/ CheckoutStep(o)
        \/ TakeReleaseJob(o)
        \/ Pay(o)
        \/ CheckoutFails(o)
  \/ \E k \in Callers : RequestCancel(k) \/ CancelStep(k) \/ CancelFails(k)
  \/ \E j \in Jobs :
        \/ HandleCallback(j)
        \/ TestCreatePaymentLink(j)
        \/ JobStep(j)
        \/ JobFails(j)
  \/ Crash

Spec == Init /\ [][Next]_vars

\* Node runs the continuation of every settled call, the workers keep taking
\* jobs and the delay of a release job passes.  Customers and gateways owe
\* nothing.
Fairness ==
  /\ \A o \in Orders : WF_vars(CheckoutStep(o)) /\ WF_vars(TakeReleaseJob(o))
  /\ \A k \in Callers : WF_vars(CancelStep(k))
  /\ \A j \in Jobs : WF_vars(JobStep(j))

FairSpec == Spec /\ Fairness

-----------------------------------------------------------------------------
(* Properties *)

\* Every variable stays in its domain; counters of Redis may go negative.
TypeOK ==
  /\ request \in [Orders -> [cart : Carts, gateway : Gateways]]
  /\ checkout \in [Orders -> CheckoutState]
  /\ seen \in [Orders -> [Classes -> Int]]
  /\ orderKey \in [Orders -> KeyState]
  /\ available \in [Classes -> Int]
  /\ hold \in [Classes -> Int]
  /\ cancel \in [Callers -> CancelState]
  /\ paid \in [Orders -> BOOLEAN]
  /\ reply \in [Orders -> Reply]
  /\ job \in [Jobs -> JobState]
  /\ attempts \in [Jobs -> Nat]
  /\ transaction \in [Orders -> RowState]
  /\ dbOrder \in [Orders -> RowState]
  /\ tickets \in [Orders -> Nat]
  /\ soldQuantity \in [Classes -> Nat]
  /\ emails \in [Orders -> Nat]
  /\ crashes \in 0 .. MaxCrashes
  /\ faults \in 0 .. MaxFaults

\* Whatever reservations, cancellations, retries and crashes do, the two
\* counters of a ticket class add up to the published total: reserveTickets
\* and releaseTickets move them in one MULTI each.
CountersBalance == \A c \in Classes : available[c] + hold[c] = Total[c]

\* The transaction row is the lock of an order: of all its transaction jobs,
\* delivered twice, retried or redelivered after a crash, one at a time is
\* past processTransaction's create.
Fulfilling == {"verify", "mark", "commit", "notify", "cleanup"}
SingleWinner ==
  \A i, j \in Jobs :
    OrderOf(i) = OrderOf(j) /\ job[i] \in Fulfilling /\ job[j] \in Fulfilling
      => i = j

\* The order row and the transaction row of a code never contradict each
\* other, though cancelOrder and completeOrder write them at different times.
OutcomeAgreement ==
  \A o \in Orders :
    /\ dbOrder[o] = "CANCELLED" <=> transaction[o] = "CANCELLED"
    /\ dbOrder[o] = "COMPLETED" => transaction[o] = "COMPLETED"

\* An order with a row in Postgres is not PENDING in Redis any more, so that
\* no repeated notification or cancellation passes the status checks again.
SettledNotPending ==
  \A o \in Orders : dbOrder[o] # "none" => orderKey[o] # "PENDING"

\* A cancellation past its DEL has deleted the hash of o.
DeletedBy(o) ==
  \E k \in Callers : OrderOf(k) = o /\ cancel[k] \in {"persist", "done"}

\* Until the confirmation is queued, Redis knows the completed order:
\* completeOrder queues it before its own DEL, so a failure in between leaves
\* a hash that shows what happened.  The one exception is cancelOrder's DEL,
\* which does not look at the status again: a cancellation that passed its
\* check before the order was marked COMPLETED takes the hash away.
KnownUntilConfirmed ==
  \A o \in Orders :
    dbOrder[o] = "COMPLETED" /\ emails[o] = 0
      => orderKey[o] # "none" \/ DeletedBy(o)

\* While no call fails and nothing crashes, an order that was stored is in
\* Redis or in Postgres: one that is gone from both has a cancellation about
\* to write its row, or was charged, so that cancelOrder's create met a taken
\* refCode after the hash was deleted.
LostOnlyWhenCharged ==
  \A o \in Orders :
    /\ faults = 0 /\ crashes = 0
    /\ checkout[o] \notin {"idle", "store"}
    /\ orderKey[o] \in {"none", "ghost"}
    /\ dbOrder[o] = "none"
    => \/ \E k \in Callers : OrderOf(k) = o /\ cancel[k] = "persist"
       \/ transaction[o] = "COMPLETED"

\* What the handlers rely on between their steps, and what makes the
\* first three invariants inductive: the winner of the transaction row owns it until
\* it is done; its stage tells which rows exist; tickets and confirmation
\* follow the order row; nobody has set a status back to PENDING, because an
\* order is stored, and its release scheduled, before anything else can know its
\* code.
LockHeld ==
  \A j \in Jobs :
    job[j] \in Fulfilling => transaction[OrderOf(j)] = "COMPLETED"

StageMatchesRows ==
  \A j \in Jobs :
    /\ job[j] \in {"verify", "mark", "commit"} => dbOrder[OrderOf(j)] = "none"
    /\ job[j] \in {"notify", "cleanup"} => dbOrder[OrderOf(j)] = "COMPLETED"
    /\ job[j] = "notify" => emails[OrderOf(j)] = 0

HandedOutOnce ==
  \A o \in Orders :
    /\ tickets[o] = IF dbOrder[o] = "COMPLETED" THEN 1 ELSE 0
    /\ dbOrder[o] # "COMPLETED" => emails[o] = 0

PastPending ==
  /\ \A j \in Jobs : job[j] = "commit" => orderKey[OrderOf(j)] # "PENDING"
  /\ \A k \in Callers : cancel[k] = "persist" => orderKey[OrderOf(k)] # "PENDING"

UnknownBeforeStored ==
  /\ \A o \in Orders : paid[o] => checkout[o] = "done"
  /\ \A o \in Orders :
        checkout[o] \in {"idle", "store"} => dbOrder[o] = "none"
  /\ \A j \in Jobs :
        checkout[OrderOf(j)] \in {"idle", "store"} => job[j] = "idle"
  /\ \A k \in Callers :
        checkout[OrderOf(k)] \in {"idle", "store", "reserve", "schedule"}
          => cancel[k] = "idle"

LifecycleInvariant ==
  /\ SingleWinner
  /\ OutcomeAgreement
  /\ SettledNotPending
  /\ LockHeld
  /\ StageMatchesRows
  /\ HandedOutOnce
  /\ PastPending
  /\ UnknownBeforeStored

\* The rows of an order, read as its entry in the ledger.
LedgerOf(o) ==
  CASE transaction[o] = "none" /\ dbOrder[o] = "none" -> "open"
    [] transaction[o] = "COMPLETED" /\ dbOrder[o] = "none" -> "charged"
    [] transaction[o] = "COMPLETED" /\ dbOrder[o] = "COMPLETED" -> "fulfilled"
    [] transaction[o] = "CANCELLED" /\ dbOrder[o] = "CANCELLED" -> "voided"
    [] OTHER -> "contradictory"

Ledger == INSTANCE OrderLedger WITH
            ledger <- [o \in Orders |-> LedgerOf(o)],
            issued <- tickets,
            mailed <- emails

\* The handlers implement the ledger: an order is charged or voided, its
\* tickets are issued once after the charge, its confirmation queued once
\* after the tickets.
ImplementsLedger == Ledger!Spec

\* While no call fails, the release job of a reservation ends its PENDING
\* state, whatever the customer, the gateway and a crash do.  After a second
\* crash BullMQ may have given the job up.
ReservationsResolve ==
  \A o \in Orders :
    cancel[Release(o)] = "delayed"
      ~> orderKey[o] # "PENDING" \/ crashes > 1

\* A queued transaction job is never starved or retried for ever: it ends
\* completed or, after its last attempt, failed.
JobsSettle == \A j \in Jobs : job[j] = "waiting" ~> job[j] \in {"done", "failed"}
=============================================================================
