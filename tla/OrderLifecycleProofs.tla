------------------------ MODULE OrderLifecycleProofs ------------------------
(***************************************************************************)
(* Theorems of OrderLifecycle for every number of orders, ticket classes,  *)
(* carts, cancellations, jobs, attempts, crashes and failing calls.        *)
(***************************************************************************)
EXTENDS OrderLifecycle, TLAPS

-----------------------------------------------------------------------------
(* The identifiers *)

\* A caller and a job belong to an order, and a release job is a caller.
LEMMA Identifiers ==
  /\ \A k \in Callers : OrderOf(k) \in Orders
  /\ \A j \in Jobs : OrderOf(j) \in Orders
  /\ \A o \in Orders : Release(o) \in Callers /\ OrderOf(Release(o)) = o
BY BoundsAssumption DEF Callers, Jobs, OrderOf, Release

\* What a request takes of each class is a natural number.
LEMMA QuantityType ==
  ASSUME TypeOK, NEW o \in Orders
  PROVE  Quantity(o) \in [Classes -> Nat]
BY CartsAssumption DEF TypeOK, Quantity

-----------------------------------------------------------------------------
(* Type correctness *)

LEMMA InitTypeOK == Init => TypeOK
BY CartsAssumption, BoundsAssumption
   DEF Init, TypeOK, CheckoutState, KeyState, CancelState, JobState, RowState, Reply

\* A failed attempt and a step forward leave the queue well typed.
LEMMA QueueTypeOK ==
  ASSUME TypeOK, NEW j \in Jobs, NEW from \in JobState, NEW to \in JobState,
         RetryOrFail(j) \/ Step(j, from, to) \/ AddTransactionToQueue(j)
  PROVE  job' \in [Jobs -> JobState] /\ attempts' \in [Jobs -> Nat]
<1>1. CASE RetryOrFail(j)
  BY <1>1 DEF TypeOK, RetryOrFail, JobState
<1>2. CASE Step(j, from, to)
  BY <1>2 DEF TypeOK, Step
<1>3. CASE AddTransactionToQueue(j)
  BY <1>3 DEF TypeOK, AddTransactionToQueue, JobState
<1>4. QED BY <1>1, <1>2, <1>3

\* Every step keeps the variables in their domains.
LEMMA NextTypeOK == TypeOK /\ [Next]_vars => TypeOK'
<1> SUFFICES ASSUME TypeOK, [Next]_vars PROVE TypeOK'
  OBVIOUS
<1> USE DEF redis, database, payment, queue, environment
<1>1. ASSUME NEW o \in Orders, GetSaleData(o) PROVE TypeOK'
  BY <1>1 DEF TypeOK, GetSaleData, CheckoutState, CheckoutRunning
<1>2. ASSUME NEW o \in Orders, StoreOrder(o) PROVE TypeOK'
  BY <1>2 DEF TypeOK, StoreOrder, CheckoutState, CheckoutRunning, KeyState
<1>3. ASSUME NEW o \in Orders, ReserveTickets(o) PROVE TypeOK'
  <2>1. available' \in [Classes -> Int] /\ hold' \in [Classes -> Int]
    BY <1>3, QuantityType DEF TypeOK, ReserveTickets, TakeTickets
  <2>2. checkout' \in [Orders -> CheckoutState]
    BY <1>3 DEF TypeOK, ReserveTickets, CheckoutState, CheckoutRunning
  <2>3. QED BY <1>3, <2>1, <2>2 DEF TypeOK, ReserveTickets
<1>4. ASSUME NEW o \in Orders, ScheduleRelease(o) PROVE TypeOK'
  BY <1>4, Identifiers
     DEF TypeOK, ScheduleRelease, CheckoutState, CheckoutRunning, CancelState
<1>5. ASSUME NEW o \in Orders, CreatePaymentLink(o) PROVE TypeOK'
  BY <1>5 DEF TypeOK, CreatePaymentLink, CheckoutState
<1>6. ASSUME NEW o \in Orders, TakeReleaseJob(o) PROVE TypeOK'
  BY <1>6, Identifiers DEF TypeOK, TakeReleaseJob, CancelState, CancelRunning
<1>7. ASSUME NEW o \in Orders, Pay(o) PROVE TypeOK'
  BY <1>7 DEF TypeOK, Pay
<1>8. ASSUME NEW o \in Orders, CheckoutFails(o) PROVE TypeOK'
  BY <1>8, BoundsAssumption DEF TypeOK, CheckoutFails, Fault, CheckoutState
<1>9. ASSUME NEW k \in Callers, RequestCancel(k) PROVE TypeOK'
  BY <1>9 DEF TypeOK, RequestCancel, CancelState, CancelRunning
<1>10. ASSUME NEW k \in Callers, CheckPending(k) PROVE TypeOK'
  BY <1>10 DEF TypeOK, CheckPending, CancelState, CancelRunning
<1>11. ASSUME NEW k \in Callers, ReleaseTickets(k) PROVE TypeOK'
  <2>1. available' \in [Classes -> Int] /\ hold' \in [Classes -> Int]
    BY <1>11, QuantityType, Identifiers DEF TypeOK, ReleaseTickets, ReturnTickets
  <2>2. cancel' \in [Callers -> CancelState]
    BY <1>11 DEF TypeOK, ReleaseTickets, CancelState, CancelRunning
  <2>3. QED BY <1>11, <2>1, <2>2 DEF TypeOK, ReleaseTickets
<1>12. ASSUME NEW k \in Callers, DeleteOrder(k) PROVE TypeOK'
  BY <1>12 DEF TypeOK, DeleteOrder, CancelState, CancelRunning, KeyState
<1>13. ASSUME NEW k \in Callers, PersistCancelled(k) PROVE TypeOK'
  BY <1>13 DEF TypeOK, PersistCancelled, CancelState, RowState
<1>14. ASSUME NEW k \in Callers, CancelFails(k) PROVE TypeOK'
  BY <1>14, BoundsAssumption DEF TypeOK, CancelFails, Fault, CancelState, Interrupted
<1>15. ASSUME NEW j \in Jobs, HandleCallback(j) PROVE TypeOK'
  <2>1. job' \in [Jobs -> JobState] /\ attempts' \in [Jobs -> Nat]
    BY <1>15, QueueTypeOK DEF TypeOK, HandleCallback, JobState
  <2>2. reply' \in [Orders -> Reply]
    BY <1>15 DEF TypeOK, HandleCallback, CallbackReply, VnpayReply, Reply
  <2>3. QED BY <1>15, <2>1, <2>2 DEF TypeOK, HandleCallback
<1>16. ASSUME NEW j \in Jobs, TestCreatePaymentLink(j) PROVE TypeOK'
  <2>1. job' \in [Jobs -> JobState] /\ attempts' \in [Jobs -> Nat]
    BY <1>16, QueueTypeOK DEF TestCreatePaymentLink, JobState
  <2>2. QED BY <1>16, <2>1 DEF TypeOK, TestCreatePaymentLink
<1>17. ASSUME NEW j \in Jobs, ProcessTransaction(j) PROVE TypeOK'
  <2>1. job' \in [Jobs -> JobState] /\ attempts' \in [Jobs -> Nat]
    BY <1>17, QueueTypeOK DEF ProcessTransaction, JobState, JobRunning
  <2>2. QED BY <1>17, <2>1 DEF TypeOK, ProcessTransaction
<1>18. ASSUME NEW j \in Jobs, ChargeTransaction(j) PROVE TypeOK'
  <2>1. job' \in [Jobs -> JobState] /\ attempts' \in [Jobs -> Nat]
    BY <1>18, QueueTypeOK DEF ChargeTransaction, JobState, JobRunning
  <2>2. transaction' \in [Orders -> RowState]
    BY <1>18 DEF TypeOK, ChargeTransaction, RowState
  <2>3. QED BY <1>18, <2>1, <2>2 DEF TypeOK, ChargeTransaction
<1>19. ASSUME NEW j \in Jobs, VerifyPending(j) PROVE TypeOK'
  <2>1. job' \in [Jobs -> JobState] /\ attempts' \in [Jobs -> Nat]
    BY <1>19, QueueTypeOK DEF VerifyPending, JobState, JobRunning
  <2>2. QED BY <1>19, <2>1 DEF TypeOK, VerifyPending
<1>20. ASSUME NEW j \in Jobs, MarkCompleted(j) PROVE TypeOK'
  <2>1. job' \in [Jobs -> JobState] /\ attempts' \in [Jobs -> Nat]
    BY <1>20, QueueTypeOK DEF MarkCompleted, JobState, JobRunning
  <2>2. orderKey' \in [Orders -> KeyState]
    BY <1>20 DEF TypeOK, MarkCompleted, StatusWritten, KeyState
  <2>3. QED BY <1>20, <2>1, <2>2 DEF TypeOK, MarkCompleted, Step
<1>21. ASSUME NEW j \in Jobs, CommitOrder(j) PROVE TypeOK'
  <2>1. job' \in [Jobs -> JobState] /\ attempts' \in [Jobs -> Nat]
    BY <1>21, QueueTypeOK DEF CommitOrder, JobState, JobRunning
  <2>2. soldQuantity' \in [Classes -> Nat]
    BY <1>21, QuantityType, Identifiers DEF TypeOK, CommitOrder, SellTickets
  <2>3. tickets' \in [Orders -> Nat]
    <3>1. tickets \in [Orders -> Nat] /\ tickets[OrderOf(j)] + 1 \in Nat
      BY Identifiers DEF TypeOK
    <3>2. CASE OrderCodeFree(OrderOf(j))
      <4>1. tickets' = [tickets EXCEPT ![OrderOf(j)] = tickets[OrderOf(j)] + 1]
        BY <1>21, <3>2 DEF CommitOrder
      <4>2. QED BY <3>1, <4>1
    <3>3. CASE ~OrderCodeFree(OrderOf(j))
      BY <1>21, <3>1, <3>3 DEF CommitOrder
    <3>4. QED BY <3>2, <3>3
  <2>4. dbOrder' \in [Orders -> RowState]
    BY <1>21 DEF TypeOK, CommitOrder, RowState
  <2>5. UNCHANGED <<request, checkout, seen, orderKey, available, hold, cancel,
                    paid, reply, transaction, emails, crashes, faults>>
    BY <1>21 DEF CommitOrder
  <2>6. QED BY <2>1, <2>2, <2>3, <2>4, <2>5 DEF TypeOK
<1>22. ASSUME NEW j \in Jobs, NotifyCustomer(j) PROVE TypeOK'
  <2>1. job' \in [Jobs -> JobState] /\ attempts' \in [Jobs -> Nat]
    BY <1>22, QueueTypeOK DEF NotifyCustomer, JobState, JobRunning
  <2>2. QED BY <1>22, <2>1, Identifiers DEF TypeOK, NotifyCustomer
<1>23. ASSUME NEW j \in Jobs, CleanUp(j) PROVE TypeOK'
  <2>1. job' \in [Jobs -> JobState] /\ attempts' \in [Jobs -> Nat]
    BY <1>23, QueueTypeOK DEF CleanUp, JobState, JobRunning
  <2>2. QED BY <1>23, <2>1 DEF TypeOK, CleanUp, KeyState
<1>24. ASSUME NEW j \in Jobs, JobFails(j) PROVE TypeOK'
  <2>1. job' \in [Jobs -> JobState] /\ attempts' \in [Jobs -> Nat]
    BY <1>24, QueueTypeOK DEF JobFails, JobState
  <2>2. QED BY <1>24, <2>1, BoundsAssumption DEF TypeOK, JobFails, Fault
<1>25. CASE Crash
  <2>1. PICK lost \in SUBSET {x \in QueueJobs : HasWorker(x)} : Crash!4!(lost)
    BY <1>25 DEF Crash
  <2>2. checkout' \in [Orders -> CheckoutState]
    BY <1>25 DEF Crash, TypeOK, CheckoutState
  <2>3. cancel' \in [Callers -> CancelState]
    BY <2>1 DEF TypeOK, Interrupted, CancelState
  <2>4. job' \in [Jobs -> JobState]
    BY <2>1 DEF TypeOK, JobState
  <2>5. QED
    BY <1>25, <2>2, <2>3, <2>4, BoundsAssumption DEF TypeOK, Crash
<1>26. CASE UNCHANGED vars
  BY <1>26 DEF TypeOK, vars
<1>27. QED
  BY <1>1, <1>2, <1>3, <1>4, <1>5, <1>6, <1>7, <1>8, <1>9, <1>10, <1>11, <1>12,
     <1>13, <1>14, <1>15, <1>16, <1>17, <1>18, <1>19, <1>20, <1>21, <1>22,
     <1>23, <1>24, <1>25, <1>26
     DEF Next, CheckoutStep, CancelStep, JobStep

\* The specification is well typed: the status of a hash, the rows and the
\* stages of the handlers never leave the values the code writes.
THEOREM TypeCorrect == Spec => []TypeOK
BY InitTypeOK, NextTypeOK, PTL DEF Spec
-----------------------------------------------------------------------------
(* The counters of the stock *)

\* Only reserveTickets and releaseTickets move the counters, both at once.
LEMMA NextCountersBalance ==
  TypeOK /\ CountersBalance /\ [Next]_vars => CountersBalance'
<1> SUFFICES ASSUME TypeOK, CountersBalance, [Next]_vars
             PROVE  CountersBalance'
  OBVIOUS
<1>1. CASE UNCHANGED <<available, hold>>
  BY <1>1 DEF CountersBalance
<1>2. ASSUME NEW o \in Orders, TakeTickets(o) PROVE CountersBalance'
  BY <1>2, QuantityType DEF CountersBalance, TakeTickets, TypeOK
<1>3. ASSUME NEW o \in Orders, ReturnTickets(o) PROVE CountersBalance'
  BY <1>3, QuantityType DEF CountersBalance, ReturnTickets, TypeOK
<1>4. ASSUME NEW o \in Orders, CheckoutStep(o)
      PROVE  UNCHANGED <<available, hold>> \/ TakeTickets(o)
  BY <1>4 DEF CheckoutStep, StoreOrder, ReserveTickets, ScheduleRelease,
              CreatePaymentLink, redis
<1>5. ASSUME NEW k \in Callers, CancelStep(k)
      PROVE  UNCHANGED <<available, hold>> \/ ReturnTickets(OrderOf(k))
  BY <1>5 DEF CancelStep, CheckPending, ReleaseTickets, DeleteOrder,
              PersistCancelled, redis
<1>6. ASSUME NEW j \in Jobs, JobStep(j) PROVE UNCHANGED <<available, hold>>
  BY <1>6 DEF JobStep, ProcessTransaction, ChargeTransaction, VerifyPending,
              MarkCompleted, CommitOrder, NotifyCustomer, CleanUp, redis
<1>7. ASSUME NEW o \in Orders,
             GetSaleData(o) \/ TakeReleaseJob(o) \/ Pay(o) \/ CheckoutFails(o)
      PROVE  UNCHANGED <<available, hold>>
  BY <1>7 DEF GetSaleData, TakeReleaseJob, Pay, CheckoutFails, redis
<1>8. ASSUME NEW k \in Callers, RequestCancel(k) \/ CancelFails(k)
      PROVE  UNCHANGED <<available, hold>>
  BY <1>8 DEF RequestCancel, CancelFails, redis
<1>9. ASSUME NEW j \in Jobs,
             HandleCallback(j) \/ TestCreatePaymentLink(j) \/ JobFails(j)
      PROVE  UNCHANGED <<available, hold>>
  BY <1>9 DEF HandleCallback, TestCreatePaymentLink, JobFails, redis
<1>10. CASE Crash
  BY <1>10, <1>1 DEF Crash, redis
<1>11. CASE UNCHANGED vars
  BY <1>11, <1>1 DEF vars, redis
<1>12. QED
  BY <1>1, <1>2, <1>3, <1>4, <1>5, <1>6, <1>7, <1>8, <1>9, <1>10, <1>11,
     Identifiers DEF Next

\* The availability and the holds of a ticket class add up to its published
\* total in every reachable state, however the handlers interleave and fail.
THEOREM CountersAlwaysBalance == Spec => []CountersBalance
<1>1. Init => CountersBalance
  BY CartsAssumption DEF Init, CountersBalance
<1>2. QED BY <1>1, TypeCorrect, NextCountersBalance, PTL DEF Spec

-----------------------------------------------------------------------------
(* The life cycle *)

\* What LifecycleInvariant speaks about, apart from the stages of the handlers.
Rows == <<orderKey, paid, transaction, dbOrder, tickets, emails>>

LEMMA InitLifecycleInvariant == Init => LifecycleInvariant
BY Identifiers
   DEF Init, LifecycleInvariant, Fulfilling, SingleWinner, OutcomeAgreement, SettledNotPending, LockHeld,
         StageMatchesRows, HandedOutOnce, PastPending, UnknownBeforeStored

\* A checkout that goes on disturbs nothing: it leaves its first two stages
\* for good, and nothing has been paid before it answers.
LEMMA CheckoutMoves ==
  ASSUME TypeOK, LifecycleInvariant, NEW o \in Orders, NEW s \in CheckoutState,
         checkout' = [checkout EXCEPT ![o] = s], checkout[o] # "done",
         s \in {"idle", "store"} => checkout[o] = "idle",
         s = "schedule" => checkout[o] = "reserve",
         s # "reserve",
         UNCHANGED <<cancel, job, Rows>>
  PROVE  LifecycleInvariant'
<1>1. UnknownBeforeStored'
  BY DEF LifecycleInvariant, UnknownBeforeStored, TypeOK, Rows
<1>2. QED
  BY <1>1 DEF LifecycleInvariant, Rows, SingleWinner, OutcomeAgreement,
     SettledNotPending, LockHeld, StageMatchesRows, HandedOutOnce, PastPending

\* A cancellation of a stored order may move to any stage but the last one.
LEMMA CancelMoves ==
  ASSUME TypeOK, LifecycleInvariant, NEW k \in Callers, NEW s \in CancelState,
         cancel' = [cancel EXCEPT ![k] = s], s # "persist",
         cancel[k] # "idle" \/ checkout[OrderOf(k)] = "done",
         UNCHANGED <<checkout, job, Rows>>
  PROVE  LifecycleInvariant'
<1>1. PastPending'
  BY DEF LifecycleInvariant, PastPending, TypeOK, Rows
<1>2. UnknownBeforeStored'
  BY DEF LifecycleInvariant, UnknownBeforeStored, TypeOK, Rows
<1>3. QED
  BY <1>1, <1>2 DEF LifecycleInvariant, Rows, SingleWinner, OutcomeAgreement,
     SettledNotPending, LockHeld, StageMatchesRows, HandedOutOnce

\* A job of a stored order may move to any stage that owns nothing.
LEMMA JobMoves ==
  ASSUME TypeOK, LifecycleInvariant, NEW j \in Jobs,
         NEW s \in JobState \ Fulfilling,
         job' = [job EXCEPT ![j] = s],
         job[j] # "idle" \/ checkout[OrderOf(j)] \notin {"idle", "store"},
         UNCHANGED <<checkout, cancel, Rows>>
  PROVE  LifecycleInvariant'
<1>1. SingleWinner' /\ LockHeld' /\ StageMatchesRows'
  BY DEF LifecycleInvariant, SingleWinner, LockHeld, StageMatchesRows,
         Fulfilling, TypeOK, Rows
<1>2. PastPending'
  BY DEF LifecycleInvariant, PastPending, Fulfilling, TypeOK, Rows
<1>3. UnknownBeforeStored'
  BY DEF LifecycleInvariant, UnknownBeforeStored, TypeOK, Rows
<1>4. QED
  BY <1>1, <1>2, <1>3 DEF LifecycleInvariant, Rows, OutcomeAgreement,
     SettledNotPending, HandedOutOnce

\* So a failed attempt preserves the invariant, at any stage.
LEMMA RetryPreserves ==
  ASSUME TypeOK, LifecycleInvariant, NEW j \in Jobs, RetryOrFail(j),
         job[j] # "idle", UNCHANGED <<checkout, cancel, Rows>>
  PROVE  LifecycleInvariant'
<1>1. PICK s \in {"waiting", "failed"} : job' = [job EXCEPT ![j] = s]
  BY DEF RetryOrFail
<1>2. s \in JobState \ Fulfilling
  BY DEF JobState, Fulfilling
<1>3. QED BY <1>1, <1>2, JobMoves

LEMMA CheckoutPreserves ==
  ASSUME TypeOK, LifecycleInvariant, NEW o \in Orders,
         GetSaleData(o) \/ CheckoutStep(o) \/ Pay(o) \/ CheckoutFails(o)
  PROVE  LifecycleInvariant'
<1> USE DEF redis, database, payment, queue, Rows, CheckoutState, CheckoutRunning
<1>1. CASE GetSaleData(o)
  BY <1>1, CheckoutMoves DEF GetSaleData
<1>2. CASE StoreOrder(o)
  <2>1. SettledNotPending' /\ PastPending'
    BY <1>2 DEF StoreOrder, LifecycleInvariant, SettledNotPending, PastPending,
                UnknownBeforeStored, TypeOK
  <2>2. UnknownBeforeStored'
    BY <1>2 DEF StoreOrder, LifecycleInvariant, UnknownBeforeStored, TypeOK
  <2>3. QED
    BY <1>2, <2>1, <2>2
       DEF StoreOrder, LifecycleInvariant, SingleWinner, OutcomeAgreement,
           LockHeld, StageMatchesRows, HandedOutOnce
<1>3. CASE ReserveTickets(o)
  <2>1. PICK s \in {"schedule", "rejected"} :
               checkout' = [checkout EXCEPT ![o] = s]
    BY <1>3 DEF ReserveTickets
  <2>2. QED BY <1>3, <2>1, CheckoutMoves DEF ReserveTickets
<1>4. CASE ScheduleRelease(o)
  <2>1. PastPending'
    BY <1>4, Identifiers
       DEF ScheduleRelease, LifecycleInvariant, PastPending, TypeOK
  <2>2. UnknownBeforeStored'
    BY <1>4, Identifiers
       DEF ScheduleRelease, LifecycleInvariant, UnknownBeforeStored, TypeOK
  <2>3. QED
    BY <1>4, <2>1, <2>2
       DEF ScheduleRelease, LifecycleInvariant, SingleWinner, OutcomeAgreement,
           SettledNotPending, LockHeld, StageMatchesRows, HandedOutOnce
<1>5. CASE CreatePaymentLink(o)
  BY <1>5, CheckoutMoves DEF CreatePaymentLink
<1>6. CASE Pay(o)
  <2>1. UnknownBeforeStored'
    BY <1>6 DEF Pay, LifecycleInvariant, UnknownBeforeStored, TypeOK
  <2>2. QED
    BY <1>6, <2>1
       DEF Pay, LifecycleInvariant, SingleWinner, OutcomeAgreement,
           SettledNotPending, LockHeld, StageMatchesRows, HandedOutOnce, PastPending
<1>7. CASE CheckoutFails(o)
  BY <1>7, CheckoutMoves DEF CheckoutFails
<1>8. QED
  BY <1>1, <1>2, <1>3, <1>4, <1>5, <1>6, <1>7 DEF CheckoutStep

\* The last stage of a cancellation comes after the hash was deleted, and its
\* rows are written only when no job holds the transaction row.
LEMMA CancelPreserves ==
  ASSUME TypeOK, LifecycleInvariant, NEW k \in Callers,
         (\E o \in Orders : k = Release(o) /\ TakeReleaseJob(o))
           \/ RequestCancel(k) \/ CancelStep(k) \/ CancelFails(k)
  PROVE  LifecycleInvariant'
<1> USE DEF redis, database, payment, queue, Rows, CancelState, CancelRunning
<1>1. ASSUME NEW o \in Orders, k = Release(o), TakeReleaseJob(o)
      PROVE  LifecycleInvariant'
  BY <1>1, CancelMoves DEF TakeReleaseJob
<1>2. CASE RequestCancel(k)
  BY <1>2, CancelMoves DEF RequestCancel
<1>3. CASE CheckPending(k)
  BY <1>3, CancelMoves DEF CheckPending
<1>4. CASE ReleaseTickets(k)
  BY <1>4, CancelMoves DEF ReleaseTickets
<1>5. CASE DeleteOrder(k)
  <2>1. SettledNotPending' /\ PastPending'
    BY <1>5, Identifiers
       DEF DeleteOrder, LifecycleInvariant, SettledNotPending, PastPending, TypeOK
  <2>2. UnknownBeforeStored'
    BY <1>5 DEF DeleteOrder, LifecycleInvariant, UnknownBeforeStored, TypeOK
  <2>3. QED
    BY <1>5, <2>1, <2>2
       DEF DeleteOrder, LifecycleInvariant, SingleWinner, OutcomeAgreement,
           LockHeld, StageMatchesRows, HandedOutOnce
<1>6. CASE PersistCancelled(k)
  <2>1. CASE RefCodeFree(OrderOf(k)) /\ OrderCodeFree(OrderOf(k))
    <3>1. OutcomeAgreement'
      BY <1>6, <2>1, Identifiers
         DEF PersistCancelled, LifecycleInvariant, OutcomeAgreement, TypeOK
    <3>5. SettledNotPending'
      BY <1>6, <2>1, Identifiers
         DEF PersistCancelled, LifecycleInvariant, SettledNotPending,
             PastPending, TypeOK
    <3>2. LockHeld' /\ StageMatchesRows'
      BY <1>6, <2>1, Identifiers
         DEF PersistCancelled, RefCodeFree, LifecycleInvariant, LockHeld,
             StageMatchesRows, Fulfilling, TypeOK
    <3>3. HandedOutOnce'
      BY <1>6, <2>1, Identifiers
         DEF PersistCancelled, OrderCodeFree, LifecycleInvariant, HandedOutOnce,
             TypeOK
    <3>4. PastPending' /\ UnknownBeforeStored'
      BY <1>6, <2>1, Identifiers
         DEF PersistCancelled, LifecycleInvariant, PastPending,
             UnknownBeforeStored, TypeOK
    <3>6. QED
      BY <1>6, <3>1, <3>2, <3>3, <3>4, <3>5
         DEF PersistCancelled, LifecycleInvariant, SingleWinner
  <2>2. CASE ~(RefCodeFree(OrderOf(k)) /\ OrderCodeFree(OrderOf(k)))
    BY <1>6, <2>2, CancelMoves DEF PersistCancelled
  <2>3. QED BY <2>1, <2>2
<1>7. CASE CancelFails(k)
  BY <1>7, CancelMoves DEF CancelFails, Interrupted
<1>8. QED
  BY <1>1, <1>2, <1>3, <1>4, <1>5, <1>6, <1>7 DEF CancelStep

\* The job that creates the transaction row owns the order from there on.
LEMMA JobPreserves ==
  ASSUME TypeOK, LifecycleInvariant, NEW j \in Jobs,
         HandleCallback(j) \/ TestCreatePaymentLink(j) \/ JobStep(j) \/ JobFails(j)
  PROVE  LifecycleInvariant'
<1> USE DEF redis, database, payment, queue, Rows
<1> DEFINE o == OrderOf(j)
<1>1. CASE HandleCallback(j)
  <2>1. checkout[o] = "done"
    BY <1>1, Identifiers DEF HandleCallback, LifecycleInvariant, UnknownBeforeStored
  <2>2. CASE CallbackReply(o) = "success"
    <3>1. job' = [job EXCEPT ![j] = "waiting"]
      BY <1>1, <2>2 DEF HandleCallback, AddTransactionToQueue
    <3>2. QED
      BY <1>1, <2>1, <3>1, JobMoves DEF HandleCallback, JobState, Fulfilling
  <2>3. CASE CallbackReply(o) # "success"
    BY <1>1, <2>3
       DEF HandleCallback, LifecycleInvariant, SingleWinner, OutcomeAgreement,
           SettledNotPending, LockHeld, StageMatchesRows, HandedOutOnce,
           PastPending, UnknownBeforeStored
  <2>4. QED BY <2>2, <2>3
<1>2. CASE TestCreatePaymentLink(j)
  <2>1. job' = [job EXCEPT ![j] = "waiting"]
    BY <1>2 DEF TestCreatePaymentLink, AddTransactionToQueue
  <2>2. QED
    BY <1>2, <2>1, JobMoves DEF TestCreatePaymentLink, JobState, Fulfilling
<1>3. CASE ProcessTransaction(j)
  <2>1. CASE orderKey[o] = "PENDING"
    <3>1. job' = [job EXCEPT ![j] = "charge"]
      BY <1>3, <2>1 DEF ProcessTransaction, Step
    <3>2. QED
      BY <1>3, <3>1, JobMoves
         DEF ProcessTransaction, JobState, JobRunning, Fulfilling
  <2>2. CASE orderKey[o] # "PENDING"
    BY <1>3, <2>2, RetryPreserves DEF ProcessTransaction
  <2>3. QED BY <2>1, <2>2
<1>4. CASE ChargeTransaction(j)
  <2>1. CASE RefCodeFree(o)
    <3>1. /\ job' = [job EXCEPT ![j] = "verify"]
          /\ transaction' = [transaction EXCEPT ![o] = "COMPLETED"]
          /\ UNCHANGED <<checkout, cancel, orderKey, paid, dbOrder, tickets, emails>>
      BY <1>4, <2>1 DEF ChargeTransaction, Step
    <3>2. job[j] = "charge" /\ transaction[o] = "none" /\ dbOrder[o] = "none"
      BY <1>4, <2>1, Identifiers
         DEF ChargeTransaction, RefCodeFree, LifecycleInvariant,
             OutcomeAgreement, TypeOK, RowState
    <3>3. SingleWinner' /\ LockHeld'
      BY <3>1, <3>2, Identifiers
         DEF LifecycleInvariant, SingleWinner, LockHeld, Fulfilling, TypeOK
    <3>4. OutcomeAgreement' /\ SettledNotPending'
      BY <3>1, <3>2, Identifiers
         DEF LifecycleInvariant, OutcomeAgreement, SettledNotPending, TypeOK
    <3>5. StageMatchesRows' /\ PastPending' /\ UnknownBeforeStored'
      BY <3>1, <3>2, Identifiers
         DEF LifecycleInvariant, StageMatchesRows, PastPending,
             UnknownBeforeStored, TypeOK
    <3>6. HandedOutOnce'
      BY <3>1 DEF LifecycleInvariant, HandedOutOnce
    <3>7. QED BY <3>3, <3>4, <3>5, <3>6 DEF LifecycleInvariant
  <2>2. CASE ~RefCodeFree(o)
    BY <1>4, <2>2, RetryPreserves DEF ChargeTransaction
  <2>3. QED BY <2>1, <2>2
<1>5. CASE VerifyPending(j)
  <2>1. CASE orderKey[o] = "PENDING"
    <3>1. /\ job[j] = "verify" /\ job' = [job EXCEPT ![j] = "mark"]
          /\ UNCHANGED <<checkout, cancel, Rows>>
      BY <1>5, <2>1 DEF VerifyPending, Step
    <3>2. SingleWinner' /\ LockHeld' /\ StageMatchesRows'
      BY <3>1 DEF LifecycleInvariant, SingleWinner, LockHeld, StageMatchesRows,
                  Fulfilling, TypeOK
    <3>3. PastPending' /\ UnknownBeforeStored'
      BY <3>1 DEF LifecycleInvariant, PastPending, UnknownBeforeStored, TypeOK
    <3>4. QED
      BY <3>1, <3>2, <3>3
         DEF LifecycleInvariant, OutcomeAgreement, SettledNotPending, HandedOutOnce
  <2>2. CASE orderKey[o] # "PENDING"
    BY <1>5, <2>2, RetryPreserves DEF VerifyPending
  <2>3. QED BY <2>1, <2>2
<1>6. CASE MarkCompleted(j)
  <2>1. /\ job[j] = "mark" /\ job' = [job EXCEPT ![j] = "commit"]
        /\ orderKey' = [orderKey EXCEPT ![o] = StatusWritten(orderKey[o])]
        /\ StatusWritten(orderKey[o]) # "PENDING"
        /\ UNCHANGED <<checkout, cancel, paid, transaction, dbOrder, tickets, emails>>
    BY <1>6 DEF MarkCompleted, Step, StatusWritten
  <2>2. SingleWinner' /\ LockHeld' /\ StageMatchesRows'
    BY <2>1 DEF LifecycleInvariant, SingleWinner, LockHeld, StageMatchesRows,
                Fulfilling, TypeOK
  <2>3. SettledNotPending' /\ PastPending'
    BY <2>1, Identifiers
       DEF LifecycleInvariant, SettledNotPending, PastPending, TypeOK
  <2>4. UnknownBeforeStored'
    BY <2>1 DEF LifecycleInvariant, UnknownBeforeStored, TypeOK
  <2>5. QED
    BY <2>1, <2>2, <2>3, <2>4
       DEF LifecycleInvariant, OutcomeAgreement, HandedOutOnce
<1>7. CASE CommitOrder(j)
  <2>1. CASE OrderCodeFree(o)
    <3>1. /\ job[j] = "commit" /\ job' = [job EXCEPT ![j] = "notify"]
          /\ tickets' = [tickets EXCEPT ![o] = tickets[o] + 1]
          /\ dbOrder' = [dbOrder EXCEPT ![o] = "COMPLETED"]
          /\ UNCHANGED <<checkout, cancel, orderKey, paid, transaction, emails>>
      BY <1>7, <2>1 DEF CommitOrder, Step
    <3>2. /\ transaction[o] = "COMPLETED" /\ dbOrder[o] = "none"
          /\ orderKey[o] # "PENDING" /\ emails[o] = 0 /\ tickets[o] = 0
      BY <3>1, Identifiers
         DEF LifecycleInvariant, LockHeld, StageMatchesRows, PastPending,
             HandedOutOnce, Fulfilling
    <3>3. SingleWinner' /\ LockHeld'
      BY <3>1 DEF LifecycleInvariant, SingleWinner, LockHeld, Fulfilling, TypeOK
    <3>4. StageMatchesRows'
      BY <3>1, <3>2, Identifiers
         DEF LifecycleInvariant, SingleWinner, StageMatchesRows, Fulfilling, TypeOK
    <3>5. OutcomeAgreement' /\ SettledNotPending'
      BY <3>1, <3>2, Identifiers
         DEF LifecycleInvariant, OutcomeAgreement, SettledNotPending, TypeOK
    <3>6. HandedOutOnce'
      BY <3>1, <3>2, Identifiers DEF LifecycleInvariant, HandedOutOnce, TypeOK
    <3>7. PastPending' /\ UnknownBeforeStored'
      BY <3>1, <3>2, Identifiers
         DEF LifecycleInvariant, PastPending, UnknownBeforeStored, TypeOK
    <3>8. QED BY <3>3, <3>4, <3>5, <3>6, <3>7 DEF LifecycleInvariant
  <2>2. CASE ~OrderCodeFree(o)
    BY <1>7, <2>2, RetryPreserves DEF CommitOrder
  <2>3. QED BY <2>1, <2>2
<1>8. CASE NotifyCustomer(j)
  <2>1. /\ job[j] = "notify" /\ job' = [job EXCEPT ![j] = "cleanup"]
        /\ emails' = [emails EXCEPT ![o] = emails[o] + 1]
        /\ UNCHANGED <<checkout, cancel, orderKey, paid, transaction, dbOrder, tickets>>
    BY <1>8 DEF NotifyCustomer, Step
  <2>2. dbOrder[o] = "COMPLETED"
    BY <2>1 DEF LifecycleInvariant, StageMatchesRows
  <2>3. SingleWinner' /\ LockHeld'
    BY <2>1 DEF LifecycleInvariant, SingleWinner, LockHeld, Fulfilling, TypeOK
  <2>4. StageMatchesRows'
    BY <2>1, <2>2, Identifiers
       DEF LifecycleInvariant, SingleWinner, StageMatchesRows, Fulfilling, TypeOK
  <2>5. HandedOutOnce'
    BY <2>1, <2>2, Identifiers DEF LifecycleInvariant, HandedOutOnce, TypeOK
  <2>6. PastPending' /\ UnknownBeforeStored'
    BY <2>1 DEF LifecycleInvariant, PastPending, UnknownBeforeStored, TypeOK
  <2>7. QED
    BY <2>1, <2>3, <2>4, <2>5, <2>6
       DEF LifecycleInvariant, OutcomeAgreement, SettledNotPending
<1>9. CASE CleanUp(j)
  <2>1. /\ job[j] = "cleanup" /\ job' = [job EXCEPT ![j] = "done"]
        /\ orderKey' = [orderKey EXCEPT ![o] = "none"]
        /\ UNCHANGED <<checkout, cancel, paid, transaction, dbOrder, tickets, emails>>
    BY <1>9 DEF CleanUp, Step
  <2>2. SingleWinner' /\ LockHeld' /\ StageMatchesRows'
    BY <2>1 DEF LifecycleInvariant, SingleWinner, LockHeld, StageMatchesRows,
                Fulfilling, TypeOK
  <2>3. SettledNotPending' /\ PastPending'
    BY <2>1, Identifiers
       DEF LifecycleInvariant, SettledNotPending, PastPending, TypeOK
  <2>4. UnknownBeforeStored'
    BY <2>1 DEF LifecycleInvariant, UnknownBeforeStored, TypeOK
  <2>5. QED
    BY <2>1, <2>2, <2>3, <2>4
       DEF LifecycleInvariant, OutcomeAgreement, HandedOutOnce
<1>10. CASE JobFails(j)
  BY <1>10, RetryPreserves DEF JobFails, JobRunning
<1>11. QED
  BY <1>1, <1>2, <1>3, <1>4, <1>5, <1>6, <1>7, <1>8, <1>9, <1>10 DEF JobStep

\* A crash only takes stages away.
LEMMA CrashPreserves ==
  ASSUME TypeOK, LifecycleInvariant, Crash
  PROVE  LifecycleInvariant'
<1> USE DEF Crash, redis, database, payment, LifecycleInvariant, TypeOK
<1>1. SingleWinner' /\ LockHeld' /\ StageMatchesRows'
  BY DEF SingleWinner, LockHeld, StageMatchesRows, Fulfilling
<1>2. PastPending'
  BY DEF PastPending, CancelRunning, Interrupted
<1>3. UnknownBeforeStored'
  BY Identifiers
     DEF UnknownBeforeStored, CheckoutRunning, CancelRunning, JobRunning
<1>4. OutcomeAgreement' /\ SettledNotPending' /\ HandedOutOnce'
  BY DEF OutcomeAgreement, SettledNotPending, HandedOutOnce
<1>5. QED BY <1>1, <1>2, <1>3, <1>4

LEMMA NextLifecycleInvariant ==
  TypeOK /\ LifecycleInvariant /\ [Next]_vars => LifecycleInvariant'
<1> SUFFICES ASSUME TypeOK, LifecycleInvariant, [Next]_vars
             PROVE  LifecycleInvariant'
  OBVIOUS
<1>1. ASSUME NEW o \in Orders, TakeReleaseJob(o) PROVE LifecycleInvariant'
  BY <1>1, Identifiers, CancelPreserves
<1>2. CASE UNCHANGED vars
  BY <1>2 DEF vars, redis, database, payment, queue, LifecycleInvariant,
     SingleWinner, OutcomeAgreement, SettledNotPending, LockHeld,
     StageMatchesRows, HandedOutOnce, PastPending, UnknownBeforeStored
<1>3. QED
  BY <1>1, <1>2, CheckoutPreserves, CancelPreserves, JobPreserves, CrashPreserves
     DEF Next

\* LifecycleInvariant is an invariant for any number of orders, jobs, retries,
\* cancellations, crashes and failing calls.
THEOREM LifecycleInvariantHolds == Spec => []LifecycleInvariant
BY InitLifecycleInvariant, NextLifecycleInvariant, TypeCorrect, PTL DEF Spec

\* Of all the jobs of an order one at most is past the transaction row.
THEOREM WinnerIsSingle == Spec => []SingleWinner
<1>1. LifecycleInvariant => SingleWinner
  BY DEF LifecycleInvariant
<1>2. QED BY <1>1, LifecycleInvariantHolds, PTL

\* The order row and the transaction row of a code agree.
THEOREM OutcomesAgree == Spec => []OutcomeAgreement
<1>1. LifecycleInvariant => OutcomeAgreement
  BY DEF LifecycleInvariant
<1>2. QED BY <1>1, LifecycleInvariantHolds, PTL

\* An order with a row in the database is not PENDING in Redis.
THEOREM SettledIsNotPending == Spec => []SettledNotPending
<1>1. LifecycleInvariant => SettledNotPending
  BY DEF LifecycleInvariant
<1>2. QED BY <1>1, LifecycleInvariantHolds, PTL

-----------------------------------------------------------------------------
(* What Redis knows of an order while its handlers fail *)

\* KnownUntilConfirmed, with what a job relies on before its commit and leaves
\* behind after its confirmation.
KnownInvariant ==
  /\ KnownUntilConfirmed
  /\ \A j \in Jobs : job[j] = "commit" =>
        orderKey[OrderOf(j)] # "none" \/ DeletedBy(OrderOf(j))
  /\ \A j \in Jobs : job[j] = "cleanup" => emails[OrderOf(j)] > 0

\* Neither a completed order nor a job at its commit appears, no hash and no
\* confirmation goes away, and no cancellation forgets that it ran its DEL.
Quiet ==
  /\ \A o \in Orders :
       /\ orderKey[o] # "none" => orderKey'[o] # "none"
       /\ dbOrder'[o] = "COMPLETED" => dbOrder[o] = "COMPLETED"
       /\ emails'[o] = emails[o]
  /\ \A k \in Callers :
       cancel[k] \in {"persist", "done"} => cancel'[k] \in {"persist", "done"}
  /\ \A j \in Jobs : job'[j] \in {"commit", "cleanup"} => job'[j] = job[j]

LEMMA DeletedByStays ==
  ASSUME NEW o \in Orders, DeletedBy(o),
         \A k \in Callers :
           cancel[k] \in {"persist", "done"} => cancel'[k] \in {"persist", "done"}
  PROVE  DeletedBy(o)'
BY DEF DeletedBy

LEMMA QuietKeepsKnown ==
  ASSUME TypeOK, KnownInvariant, Quiet
  PROVE  KnownInvariant'
<1>1. \A o \in Orders : orderKey[o] # "none" \/ DeletedBy(o)
                        => orderKey'[o] # "none" \/ DeletedBy(o)'
  BY DeletedByStays DEF Quiet
<1>2. KnownUntilConfirmed'
  BY <1>1 DEF KnownInvariant, KnownUntilConfirmed, Quiet
<1>3. \A j \in Jobs : job'[j] = "commit" =>
         orderKey'[OrderOf(j)] # "none" \/ DeletedBy(OrderOf(j))'
  BY <1>1, Identifiers DEF KnownInvariant, Quiet
<1>4. \A j \in Jobs : job'[j] = "cleanup" => emails'[OrderOf(j)] > 0
  BY Identifiers DEF KnownInvariant, Quiet
<1>5. QED BY <1>2, <1>3, <1>4 DEF KnownInvariant

\* Requests, cancellations before and after their DEL, failures and crashes
\* are quiet.
LEMMA CheckoutIsQuiet ==
  ASSUME TypeOK, LifecycleInvariant, NEW o \in Orders,
         GetSaleData(o) \/ CheckoutStep(o) \/ Pay(o) \/ CheckoutFails(o)
  PROVE  Quiet
<1> USE DEF redis, database, queue
<1>1. CASE UNCHANGED <<orderKey, dbOrder, emails, cancel, job>>
  BY <1>1 DEF Quiet
<1>2. CASE StoreOrder(o)
  BY <1>2 DEF StoreOrder, Quiet, TypeOK
<1>3. CASE ScheduleRelease(o)
  BY <1>3, Identifiers
     DEF ScheduleRelease, Quiet, TypeOK, LifecycleInvariant, UnknownBeforeStored
<1>4. QED
  BY <1>1, <1>2, <1>3
     DEF GetSaleData, CheckoutStep, ReserveTickets, CreatePaymentLink, Pay,
         CheckoutFails

LEMMA CancelIsQuiet ==
  ASSUME TypeOK, NEW k \in Callers,
         (\E o \in Orders : k = Release(o) /\ TakeReleaseJob(o))
           \/ RequestCancel(k) \/ CheckPending(k) \/ ReleaseTickets(k)
           \/ PersistCancelled(k) \/ CancelFails(k)
  PROVE  Quiet
<1> USE DEF redis, database, queue
<1>1. ASSUME UNCHANGED <<orderKey, dbOrder, emails, job>>,
             NEW s \in CancelState, cancel' = [cancel EXCEPT ![k] = s],
             cancel[k] \in {"persist", "done"} => s \in {"persist", "done"}
      PROVE  Quiet
  BY <1>1 DEF Quiet, TypeOK
<1>2. ASSUME NEW o \in Orders, k = Release(o), TakeReleaseJob(o) PROVE Quiet
  BY <1>1, <1>2 DEF TakeReleaseJob, CancelState, CancelRunning
<1>3. CASE RequestCancel(k) \/ CheckPending(k) \/ ReleaseTickets(k)
  BY <1>1, <1>3
     DEF RequestCancel, CheckPending, ReleaseTickets, CancelState, CancelRunning
<1>4. CASE PersistCancelled(k)
  BY <1>4, Identifiers DEF PersistCancelled, Quiet, TypeOK
<1>5. CASE CancelFails(k)
  BY <1>1, <1>5 DEF CancelFails, Interrupted, CancelState, CancelRunning
<1>6. QED BY <1>2, <1>3, <1>4, <1>5

LEMMA JobIsQuiet ==
  ASSUME TypeOK, NEW j \in Jobs,
         HandleCallback(j) \/ TestCreatePaymentLink(j) \/ ProcessTransaction(j)
           \/ ChargeTransaction(j) \/ VerifyPending(j) \/ JobFails(j)
  PROVE  Quiet
BY DEF TypeOK, Quiet, HandleCallback, TestCreatePaymentLink,
       AddTransactionToQueue, ProcessTransaction, ChargeTransaction,
       VerifyPending, JobFails, RetryOrFail, Step, redis, database, queue

LEMMA CrashIsQuiet == ASSUME TypeOK, Crash PROVE Quiet
BY DEF TypeOK, Quiet, Crash, CancelRunning, Interrupted, redis, database

LEMMA NextKnownInvariant ==
  TypeOK /\ LifecycleInvariant /\ KnownInvariant /\ [Next]_vars => KnownInvariant'
<1> SUFFICES ASSUME TypeOK, LifecycleInvariant, KnownInvariant, [Next]_vars
             PROVE  KnownInvariant'
  OBVIOUS
<1> USE DEF redis, database, queue
<1>1. ASSUME NEW k \in Callers, DeleteOrder(k) PROVE KnownInvariant'
  <2>1. /\ cancel' = [cancel EXCEPT ![k] = "persist"]
        /\ orderKey' = [orderKey EXCEPT ![OrderOf(k)] = "none"]
        /\ cancel[k] = "delete" /\ UNCHANGED <<job, dbOrder, emails>>
    BY <1>1 DEF DeleteOrder
  <2>2. DeletedBy(OrderOf(k))'
    BY <2>1 DEF TypeOK, DeletedBy
  <2>3. \A o \in Orders : orderKey[o] # "none" \/ DeletedBy(o)
                          => orderKey'[o] # "none" \/ DeletedBy(o)'
    <3>1. \A o \in Orders : DeletedBy(o) => DeletedBy(o)'
      BY <2>1, DeletedByStays DEF TypeOK
    <3>2. QED BY <2>1, <2>2, <3>1 DEF TypeOK
  <2>4. KnownUntilConfirmed'
    BY <2>1, <2>3 DEF KnownInvariant, KnownUntilConfirmed
  <2>5. QED BY <2>1, <2>3, <2>4, Identifiers DEF KnownInvariant
<1>2. ASSUME NEW j \in Jobs, MarkCompleted(j) PROVE KnownInvariant'
  <2>1. /\ job[j] = "mark" /\ job' = [job EXCEPT ![j] = "commit"]
        /\ orderKey' = [orderKey EXCEPT
                          ![OrderOf(j)] = StatusWritten(orderKey[OrderOf(j)])]
        /\ StatusWritten(orderKey[OrderOf(j)]) # "none"
        /\ UNCHANGED <<cancel, dbOrder, emails>>
    BY <1>2 DEF MarkCompleted, Step, StatusWritten
  <2>2. \A o \in Orders : orderKey[o] # "none" \/ DeletedBy(o)
                          => orderKey'[o] # "none" \/ DeletedBy(o)'
    BY <2>1, DeletedByStays DEF TypeOK
  <2>3. KnownUntilConfirmed'
    BY <2>1, <2>2 DEF KnownInvariant, KnownUntilConfirmed
  <2>4. orderKey'[OrderOf(j)] # "none"
    BY <2>1, Identifiers DEF TypeOK
  <2>5. QED BY <2>1, <2>2, <2>3, <2>4, Identifiers DEF KnownInvariant, TypeOK
<1>3. ASSUME NEW j \in Jobs, CommitOrder(j) PROVE KnownInvariant'
  <2>1. CASE OrderCodeFree(OrderOf(j))
    <3>1. /\ job[j] = "commit" /\ job' = [job EXCEPT ![j] = "notify"]
          /\ dbOrder' = [dbOrder EXCEPT ![OrderOf(j)] = "COMPLETED"]
          /\ UNCHANGED <<cancel, orderKey, emails>>
      BY <1>3, <2>1 DEF CommitOrder, Step
    <3>2. \A o \in Orders : DeletedBy(o) => DeletedBy(o)'
      BY <3>1, DeletedByStays
    <3>3. orderKey[OrderOf(j)] # "none" \/ DeletedBy(OrderOf(j))
      BY <3>1 DEF KnownInvariant
    <3>4. KnownUntilConfirmed'
      BY <3>1, <3>2, <3>3, Identifiers
         DEF KnownInvariant, KnownUntilConfirmed, TypeOK
    <3>5. QED BY <3>1, <3>2, <3>4, Identifiers DEF KnownInvariant, TypeOK
  <2>2. CASE ~OrderCodeFree(OrderOf(j))
    <3>1. Quiet
      BY <1>3, <2>2 DEF CommitOrder, RetryOrFail, Quiet, TypeOK
    <3>2. QED BY <3>1, QuietKeepsKnown
  <2>3. QED BY <2>1, <2>2
<1>4. ASSUME NEW j \in Jobs, NotifyCustomer(j) PROVE KnownInvariant'
  <2>1. /\ job' = [job EXCEPT ![j] = "cleanup"]
        /\ emails' = [emails EXCEPT ![OrderOf(j)] = emails[OrderOf(j)] + 1]
        /\ UNCHANGED <<cancel, orderKey, dbOrder>>
    BY <1>4 DEF NotifyCustomer, Step
  <2>2. \A o \in Orders : emails[o] \in Nat /\ emails'[o] \in Nat /\ emails'[o] >= emails[o]
    BY <2>1 DEF TypeOK
  <2>3. emails'[OrderOf(j)] > 0
    BY <2>1, Identifiers DEF TypeOK
  <2>4. \A o \in Orders : DeletedBy(o) => DeletedBy(o)'
    BY <2>1, DeletedByStays
  <2>5. KnownUntilConfirmed'
    BY <2>1, <2>2, <2>4 DEF KnownInvariant, KnownUntilConfirmed
  <2>6. QED
    BY <2>1, <2>2, <2>3, <2>4, <2>5, Identifiers DEF KnownInvariant, TypeOK
<1>5. ASSUME NEW j \in Jobs, CleanUp(j) PROVE KnownInvariant'
  <2>1. /\ job[j] = "cleanup" /\ job' = [job EXCEPT ![j] = "done"]
        /\ orderKey' = [orderKey EXCEPT ![OrderOf(j)] = "none"]
        /\ UNCHANGED <<cancel, dbOrder, emails>>
    BY <1>5 DEF CleanUp, Step
  <2>2. emails[OrderOf(j)] > 0
    BY <2>1 DEF KnownInvariant
  <2>3. \A o \in Orders : DeletedBy(o) => DeletedBy(o)'
    BY <2>1, DeletedByStays
  <2>4. KnownUntilConfirmed'
    BY <2>1, <2>2, <2>3 DEF KnownInvariant, KnownUntilConfirmed, TypeOK
  <2>5. \A i \in Jobs : job[i] = "commit" => OrderOf(i) # OrderOf(j)
    BY <2>1 DEF LifecycleInvariant, SingleWinner, Fulfilling
  <2>6. QED
    BY <2>1, <2>3, <2>4, <2>5, Identifiers DEF KnownInvariant, TypeOK
<1>6. CASE UNCHANGED vars
  <2>1. Quiet
    BY <1>6 DEF vars, Quiet
  <2>2. QED BY <2>1, QuietKeepsKnown
<1>7. ASSUME Quiet PROVE KnownInvariant'
  BY <1>7, QuietKeepsKnown
<1>8. ASSUME NEW o \in Orders, TakeReleaseJob(o) PROVE Quiet
  BY <1>8, Identifiers, CancelIsQuiet
<1>9. QED
  BY <1>1, <1>2, <1>3, <1>4, <1>5, <1>6, <1>7, <1>8, CheckoutIsQuiet,
     CancelIsQuiet, JobIsQuiet, CrashIsQuiet
     DEF Next, CancelStep, JobStep

\* Until its confirmation is queued, a completed order is known to Redis or
\* was deleted there by a cancellation past its check.
THEOREM CompletedOrdersAreKnown == Spec => []KnownUntilConfirmed
<1>1. Init => KnownInvariant
  BY Identifiers DEF Init, KnownInvariant, KnownUntilConfirmed
<1>2. KnownInvariant => KnownUntilConfirmed
  BY DEF KnownInvariant
<1>3. QED
  BY <1>1, <1>2, NextKnownInvariant, TypeCorrect, LifecycleInvariantHolds, PTL
     DEF Spec

\* Nothing of an order disappears, from Redis, from Postgres or from the
\* cancellations that are about to write it, and no call failed in the step.
Traced ==
  /\ faults' = 0 /\ crashes' = 0 => faults = 0 /\ crashes = 0
  /\ \A o \in Orders :
       /\ checkout[o] \in {"idle", "store"} => checkout'[o] \in {"idle", "store"}
       /\ orderKey'[o] \in {"none", "ghost"} => orderKey[o] \in {"none", "ghost"}
       /\ dbOrder'[o] = "none" => dbOrder[o] = "none"
       /\ transaction[o] = "COMPLETED" => transaction'[o] = "COMPLETED"
  /\ \A k \in Callers : cancel[k] = "persist" => cancel'[k] = "persist"

LEMMA TracedKeepsOrders ==
  ASSUME LostOnlyWhenCharged, Traced
  PROVE  LostOnlyWhenCharged'
BY DEF LostOnlyWhenCharged, Traced

\* A failing call ends what the property promises.
LEMMA FailureEndsPromise ==
  ASSUME TypeOK, Fault \/ Crash PROVE LostOnlyWhenCharged'
<1>1. faults' # 0 \/ crashes' # 0
  BY DEF TypeOK, Fault, Crash
<1>2. QED BY <1>1 DEF LostOnlyWhenCharged

LEMMA CheckoutLosesNothing ==
  ASSUME TypeOK, LifecycleInvariant, LostOnlyWhenCharged, NEW o \in Orders,
         GetSaleData(o) \/ CheckoutStep(o) \/ Pay(o) \/ CheckoutFails(o)
  PROVE  LostOnlyWhenCharged'
<1> USE DEF redis, database, environment
<1>1. ASSUME NEW s \in CheckoutState, checkout' = [checkout EXCEPT ![o] = s],
             checkout[o] = "idle" => s = "store", checkout[o] # "store",
             UNCHANGED <<orderKey, cancel, transaction, dbOrder, environment>>
      PROVE  LostOnlyWhenCharged'
  BY <1>1, TracedKeepsOrders DEF Traced, TypeOK
<1>2. CASE GetSaleData(o)
  BY <1>1, <1>2 DEF GetSaleData, CheckoutState, CheckoutRunning
<1>3. CASE StoreOrder(o)
  <2>1. /\ orderKey' = [orderKey EXCEPT ![o] = "PENDING"]
        /\ checkout' = [checkout EXCEPT ![o] = "reserve"]
        /\ UNCHANGED <<cancel, transaction, dbOrder, environment>>
    BY <1>3 DEF StoreOrder
  <2>2. QED BY <2>1 DEF LostOnlyWhenCharged, TypeOK
<1>4. CASE ReserveTickets(o) \/ CreatePaymentLink(o)
  BY <1>1, <1>4
     DEF ReserveTickets, CreatePaymentLink, CheckoutState, CheckoutRunning
<1>5. CASE ScheduleRelease(o)
  <2>1. /\ cancel[Release(o)] # "persist" /\ checkout[o] = "schedule"
        /\ checkout' = [checkout EXCEPT ![o] = "link"]
        /\ cancel' = [cancel EXCEPT ![Release(o)] = "delayed"]
        /\ UNCHANGED <<orderKey, transaction, dbOrder, environment>>
    BY <1>5, Identifiers
       DEF ScheduleRelease, LifecycleInvariant, UnknownBeforeStored
  <2>2. Traced
    BY <2>1 DEF Traced, TypeOK
  <2>3. QED BY <2>2, TracedKeepsOrders
<1>6. CASE Pay(o)
  <2>1. Traced
    BY <1>6 DEF Pay, Traced
  <2>2. QED BY <2>1, TracedKeepsOrders
<1>7. CASE CheckoutFails(o)
  BY <1>7, FailureEndsPromise DEF CheckoutFails
<1>8. QED BY <1>2, <1>3, <1>4, <1>5, <1>6, <1>7 DEF CheckoutStep

LEMMA CancelLosesNothing ==
  ASSUME TypeOK, LifecycleInvariant, LostOnlyWhenCharged, NEW k \in Callers,
         (\E o \in Orders : k = Release(o) /\ TakeReleaseJob(o))
           \/ RequestCancel(k) \/ CancelStep(k) \/ CancelFails(k)
  PROVE  LostOnlyWhenCharged'
<1> USE DEF redis, database, environment
<1>1. ASSUME NEW s \in CancelState, cancel' = [cancel EXCEPT ![k] = s],
             cancel[k] # "persist",
             UNCHANGED <<checkout, orderKey, transaction, dbOrder, environment>>
      PROVE  LostOnlyWhenCharged'
  BY <1>1, TracedKeepsOrders DEF Traced, TypeOK
<1>2. ASSUME NEW o \in Orders, k = Release(o), TakeReleaseJob(o)
      PROVE  LostOnlyWhenCharged'
  BY <1>1, <1>2 DEF TakeReleaseJob, CancelState, CancelRunning
<1>3. CASE RequestCancel(k) \/ CheckPending(k) \/ ReleaseTickets(k)
  BY <1>1, <1>3
     DEF RequestCancel, CheckPending, ReleaseTickets, CancelState, CancelRunning
<1>4. CASE DeleteOrder(k)
  <2>1. /\ cancel' = [cancel EXCEPT ![k] = "persist"]
        /\ orderKey' = [orderKey EXCEPT ![OrderOf(k)] = "none"]
        /\ UNCHANGED <<checkout, transaction, dbOrder, environment>>
    BY <1>4 DEF DeleteOrder
  <2>2. cancel'[k] = "persist" /\ \A i \in Callers :
          cancel[i] = "persist" => cancel'[i] = "persist"
    BY <2>1 DEF TypeOK
  <2>3. QED BY <2>1, <2>2 DEF LostOnlyWhenCharged, TypeOK
<1>5. CASE PersistCancelled(k)
  <2>1. /\ dbOrder'[OrderOf(k)] # "none" \/ transaction'[OrderOf(k)] = "COMPLETED"
        /\ \A o \in Orders \ {OrderOf(k)} :
             dbOrder'[o] = dbOrder[o] /\ transaction'[o] = transaction[o]
    BY <1>5, Identifiers
       DEF PersistCancelled, RefCodeFree, OrderCodeFree, LifecycleInvariant,
           OutcomeAgreement, TypeOK, RowState
  <2>2. /\ \A i \in Callers : OrderOf(i) # OrderOf(k) => cancel'[i] = cancel[i]
        /\ UNCHANGED <<checkout, orderKey, environment>>
    BY <1>5 DEF PersistCancelled, TypeOK
  <2>3. QED BY <2>1, <2>2 DEF LostOnlyWhenCharged
<1>6. CASE CancelFails(k)
  BY <1>6, FailureEndsPromise DEF CancelFails
<1>7. QED BY <1>2, <1>3, <1>4, <1>5, <1>6 DEF CancelStep

LEMMA JobLosesNothing ==
  ASSUME TypeOK, LifecycleInvariant, LostOnlyWhenCharged, NEW j \in Jobs,
         HandleCallback(j) \/ TestCreatePaymentLink(j) \/ JobStep(j) \/ JobFails(j)
  PROVE  LostOnlyWhenCharged'
<1> USE DEF redis, database, environment
<1>1. CASE HandleCallback(j) \/ TestCreatePaymentLink(j) \/ ProcessTransaction(j)
             \/ VerifyPending(j) \/ NotifyCustomer(j)
  <2>1. UNCHANGED <<checkout, orderKey, cancel, transaction, dbOrder, environment>>
    BY <1>1 DEF HandleCallback, TestCreatePaymentLink, ProcessTransaction,
                VerifyPending, NotifyCustomer
  <2>2. Traced
    BY <2>1 DEF Traced
  <2>3. QED BY <2>2, TracedKeepsOrders
<1>2. CASE ChargeTransaction(j)
  <2>1. Traced
    BY <1>2 DEF ChargeTransaction, Traced, TypeOK
  <2>2. QED BY <2>1, TracedKeepsOrders
<1>3. CASE MarkCompleted(j)
  <2>1. /\ transaction[OrderOf(j)] = "COMPLETED"
        /\ \A o \in Orders \ {OrderOf(j)} : orderKey'[o] = orderKey[o]
        /\ UNCHANGED <<checkout, cancel, transaction, dbOrder, environment>>
    BY <1>3
       DEF MarkCompleted, Step, LifecycleInvariant, LockHeld, Fulfilling, TypeOK
  <2>2. QED BY <2>1 DEF LostOnlyWhenCharged
<1>4. CASE CommitOrder(j)
  <2>1. Traced
    BY <1>4 DEF CommitOrder, Traced, TypeOK
  <2>2. QED BY <2>1, TracedKeepsOrders
<1>5. CASE CleanUp(j)
  <2>1. /\ dbOrder[OrderOf(j)] = "COMPLETED"
        /\ \A o \in Orders \ {OrderOf(j)} : orderKey'[o] = orderKey[o]
        /\ UNCHANGED <<checkout, cancel, transaction, dbOrder, environment>>
    BY <1>5 DEF CleanUp, Step, LifecycleInvariant, StageMatchesRows, TypeOK
  <2>2. QED BY <2>1 DEF LostOnlyWhenCharged
<1>6. CASE JobFails(j)
  BY <1>6, FailureEndsPromise DEF JobFails
<1>7. QED BY <1>1, <1>2, <1>3, <1>4, <1>5, <1>6 DEF JobStep

LEMMA NextLostOnlyWhenCharged ==
  TypeOK /\ LifecycleInvariant /\ LostOnlyWhenCharged /\ [Next]_vars
    => LostOnlyWhenCharged'
<1> SUFFICES ASSUME TypeOK, LifecycleInvariant, LostOnlyWhenCharged, [Next]_vars
             PROVE  LostOnlyWhenCharged'
  OBVIOUS
<1>1. ASSUME NEW o \in Orders, TakeReleaseJob(o) PROVE LostOnlyWhenCharged'
  BY <1>1, Identifiers, CancelLosesNothing
<1>2. CASE UNCHANGED vars
  <2>1. Traced
    BY <1>2 DEF vars, redis, database, environment, Traced
  <2>2. QED BY <2>1, TracedKeepsOrders
<1>3. QED
  BY <1>1, <1>2, CheckoutLosesNothing, CancelLosesNothing, JobLosesNothing,
     FailureEndsPromise
     DEF Next

\* While nothing fails, an order gone from Redis and from Postgres is one whose
\* charge was recorded before the cancellation could write its row.
THEOREM OnlyChargedOrdersAreLost == Spec => []LostOnlyWhenCharged
<1>1. Init => LostOnlyWhenCharged
  BY DEF Init, LostOnlyWhenCharged
<1>2. QED
  BY <1>1, NextLostOnlyWhenCharged, TypeCorrect, LifecycleInvariantHolds, PTL
     DEF Spec

-----------------------------------------------------------------------------
(* The handlers implement the ledger *)

\* What the ledger sees of a state.
Entries == <<transaction, dbOrder, tickets, emails>>

LEMMA LedgerUnchanged ==
  ASSUME UNCHANGED Entries PROVE UNCHANGED Ledger!vars
BY DEF Entries, Ledger!vars, LedgerOf

\* A step of the handlers that touches the rows of an order is one of the four
\* steps of the ledger.
LEMMA EntrySteps ==
  ASSUME TypeOK, LifecycleInvariant, Next
  PROVE  \/ UNCHANGED Entries
         \/ \E k \in Callers : /\ PersistCancelled(k)
                               /\ RefCodeFree(OrderOf(k)) /\ OrderCodeFree(OrderOf(k))
         \/ \E j \in Jobs : ChargeTransaction(j) /\ RefCodeFree(OrderOf(j))
         \/ \E j \in Jobs : CommitOrder(j) /\ OrderCodeFree(OrderOf(j))
         \/ \E j \in Jobs : NotifyCustomer(j)
<1> USE DEF database, Entries
<1>1. ASSUME NEW o \in Orders,
             GetSaleData(o) \/ CheckoutStep(o) \/ TakeReleaseJob(o) \/ Pay(o)
               \/ CheckoutFails(o)
      PROVE  UNCHANGED Entries
  BY <1>1 DEF GetSaleData, CheckoutStep, StoreOrder, ReserveTickets,
     ScheduleRelease, CreatePaymentLink, TakeReleaseJob, Pay, CheckoutFails
<1>2. ASSUME NEW k \in Callers,
             RequestCancel(k) \/ CheckPending(k) \/ ReleaseTickets(k)
               \/ DeleteOrder(k) \/ CancelFails(k)
      PROVE  UNCHANGED Entries
  BY <1>2 DEF RequestCancel, CheckPending, ReleaseTickets, DeleteOrder, CancelFails
<1>3. ASSUME NEW k \in Callers, PersistCancelled(k),
             ~(RefCodeFree(OrderOf(k)) /\ OrderCodeFree(OrderOf(k)))
      PROVE  UNCHANGED Entries
  BY <1>3 DEF PersistCancelled
<1>4. ASSUME NEW j \in Jobs,
             HandleCallback(j) \/ TestCreatePaymentLink(j) \/ ProcessTransaction(j)
               \/ VerifyPending(j) \/ MarkCompleted(j) \/ CleanUp(j) \/ JobFails(j)
      PROVE  UNCHANGED Entries
  BY <1>4 DEF HandleCallback, TestCreatePaymentLink, ProcessTransaction,
     VerifyPending, MarkCompleted, CleanUp, JobFails
<1>5. ASSUME NEW j \in Jobs, ChargeTransaction(j), ~RefCodeFree(OrderOf(j))
      PROVE  UNCHANGED Entries
  BY <1>5 DEF ChargeTransaction
<1>6. ASSUME NEW j \in Jobs, CommitOrder(j), ~OrderCodeFree(OrderOf(j))
      PROVE  UNCHANGED Entries
  BY <1>6 DEF CommitOrder
<1>7. CASE Crash
  BY <1>7 DEF Crash
<1>8. QED
  BY <1>1, <1>2, <1>3, <1>4, <1>5, <1>6, <1>7 DEF Next, CancelStep, JobStep

LEMMA NextLedger ==
  TypeOK /\ LifecycleInvariant /\ [Next]_vars => [Ledger!Next]_(Ledger!vars)
<1> SUFFICES ASSUME TypeOK, LifecycleInvariant, [Next]_vars
             PROVE  [Ledger!Next]_(Ledger!vars)
  OBVIOUS
<1> DEFINE Shown == [o \in Orders |-> LedgerOf(o)]
<1>1. CASE UNCHANGED Entries
  BY <1>1, LedgerUnchanged
<1>2. ASSUME NEW k \in Callers, PersistCancelled(k),
             RefCodeFree(OrderOf(k)), OrderCodeFree(OrderOf(k))
      PROVE  Ledger!Void(OrderOf(k))
  <2>1. /\ transaction[OrderOf(k)] = "none" /\ dbOrder[OrderOf(k)] = "none"
        /\ transaction' = [transaction EXCEPT ![OrderOf(k)] = "CANCELLED"]
        /\ dbOrder' = [dbOrder EXCEPT ![OrderOf(k)] = "CANCELLED"]
        /\ UNCHANGED <<tickets, emails>>
    BY <1>2 DEF PersistCancelled, RefCodeFree, OrderCodeFree
  <2>2. Shown[OrderOf(k)] = "open"
    BY <2>1, Identifiers DEF LedgerOf
  <2>3. Shown' = [Shown EXCEPT ![OrderOf(k)] = "voided"]
    BY <2>1, Identifiers DEF LedgerOf, TypeOK
  <2>4. QED BY <2>1, <2>2, <2>3 DEF Ledger!Void
<1>3. ASSUME NEW j \in Jobs, ChargeTransaction(j), RefCodeFree(OrderOf(j))
      PROVE  Ledger!Charge(OrderOf(j))
  <2>1. /\ transaction[OrderOf(j)] = "none"
        /\ transaction' = [transaction EXCEPT ![OrderOf(j)] = "COMPLETED"]
        /\ UNCHANGED <<dbOrder, tickets, emails>>
    BY <1>3 DEF ChargeTransaction, RefCodeFree
  <2>2. dbOrder[OrderOf(j)] = "none"
    BY <2>1, Identifiers DEF LifecycleInvariant, OutcomeAgreement, TypeOK, RowState
  <2>3. Shown[OrderOf(j)] = "open"
    BY <2>1, <2>2, Identifiers DEF LedgerOf
  <2>4. Shown' = [Shown EXCEPT ![OrderOf(j)] = "charged"]
    BY <2>1, <2>2, Identifiers DEF LedgerOf, TypeOK
  <2>5. QED BY <2>1, <2>3, <2>4 DEF Ledger!Charge
<1>4. ASSUME NEW j \in Jobs, CommitOrder(j), OrderCodeFree(OrderOf(j))
      PROVE  Ledger!Fulfil(OrderOf(j))
  <2>1. /\ job[j] = "commit" /\ dbOrder[OrderOf(j)] = "none"
        /\ dbOrder' = [dbOrder EXCEPT ![OrderOf(j)] = "COMPLETED"]
        /\ tickets' = [tickets EXCEPT ![OrderOf(j)] = @ + 1]
        /\ UNCHANGED <<transaction, emails>>
    BY <1>4 DEF CommitOrder, OrderCodeFree
  <2>2. transaction[OrderOf(j)] = "COMPLETED"
    BY <2>1 DEF LifecycleInvariant, LockHeld, Fulfilling
  <2>3. Shown[OrderOf(j)] = "charged"
    BY <2>1, <2>2, Identifiers DEF LedgerOf
  <2>4. Shown' = [Shown EXCEPT ![OrderOf(j)] = "fulfilled"]
    BY <2>1, <2>2, Identifiers DEF LedgerOf, TypeOK
  <2>5. QED BY <2>1, <2>3, <2>4 DEF Ledger!Fulfil
<1>5. ASSUME NEW j \in Jobs, NotifyCustomer(j)
      PROVE  Ledger!Confirm(OrderOf(j))
  <2>1. /\ job[j] = "notify"
        /\ emails' = [emails EXCEPT ![OrderOf(j)] = @ + 1]
        /\ UNCHANGED <<transaction, dbOrder, tickets>>
    BY <1>5 DEF NotifyCustomer, Step, database
  <2>2. /\ transaction[OrderOf(j)] = "COMPLETED"
        /\ dbOrder[OrderOf(j)] = "COMPLETED" /\ emails[OrderOf(j)] = 0
    BY <2>1 DEF LifecycleInvariant, LockHeld, StageMatchesRows, Fulfilling
  <2>3. Shown[OrderOf(j)] = "fulfilled"
    BY <2>2, Identifiers DEF LedgerOf
  <2>4. Shown' = Shown
    BY <2>1 DEF LedgerOf
  <2>5. emails' = [emails EXCEPT ![OrderOf(j)] = 1]
    BY <2>1, <2>2, Identifiers DEF TypeOK
  <2>6. QED BY <2>1, <2>2, <2>3, <2>4, <2>5 DEF Ledger!Confirm
<1>6. CASE UNCHANGED vars
  BY <1>6, <1>1 DEF vars, database, Entries
<1>7. QED
  BY <1>1, <1>2, <1>3, <1>4, <1>5, <1>6, EntrySteps, Identifiers DEF Ledger!Next

\* Every execution of the handlers, races, retries, redeliveries, crashes and
\* failing calls included, is one of the ledger: no order is both charged and
\* voided, tickets are issued once and only after the charge, the confirmation
\* is queued once and only after the tickets.
THEOREM HandlersImplementLedger == Spec => ImplementsLedger
<1>1. Init => Ledger!Init
  BY DEF Init, Ledger!Init, LedgerOf
<1>2. QED
  BY <1>1, NextLedger, TypeCorrect, LifecycleInvariantHolds, PTL
     DEF Spec, ImplementsLedger, Ledger!Spec
=============================================================================
