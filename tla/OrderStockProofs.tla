-------------------------- MODULE OrderStockProofs --------------------------
(***************************************************************************)
(* Theorems of OrderStock for any orders, carts and classes.  What is sold *)
(* is what completed orders bought in every execution.  The laws of the    *)
(* availability are about SerialSpec, one handler at a time: a stock that  *)
(* is sufficient when it is read is sufficient when it is taken, and each  *)
(* handler moves its tickets from one account of the stock to another.     *)
(***************************************************************************)
EXTENDS OrderStock, OrderLifecycleProofs, FiniteSetTheorems

-----------------------------------------------------------------------------
(* Counting tickets *)

\* The tickets of one order are as many as it asks for.
LEMMA OrderQuantity ==
  ASSUME TypeOK, NEW o \in Orders, NEW c \in Classes
  PROVE  /\ TicketsOf({o}, c) = {o} \X (1 .. Quantity(o)[c])
         /\ IsFiniteSet(TicketsOf({o}, c))
         /\ QuantityOver({o}, c) = Quantity(o)[c]
<1>1. TicketsOf({o}, c) = {o} \X (1 .. Quantity(o)[c])
  BY DEF TicketsOf
<1>2. Quantity(o)[c] \in Nat
  BY QuantityType
<1>3. /\ IsFiniteSet(1 .. Quantity(o)[c])
      /\ Cardinality(1 .. Quantity(o)[c]) = Quantity(o)[c]
  BY <1>2, FS_Interval
<1>4. IsFiniteSet({o}) /\ Cardinality({o}) = 1
  BY FS_Singleton
<1>5. /\ IsFiniteSet({o} \X (1 .. Quantity(o)[c]))
      /\ Cardinality({o} \X (1 .. Quantity(o)[c]))
           = Cardinality({o}) * Cardinality(1 .. Quantity(o)[c])
  BY <1>3, <1>4, FS_Product
<1>6. Cardinality({o}) * Cardinality(1 .. Quantity(o)[c]) = Quantity(o)[c]
  BY <1>2, <1>3, <1>4
<1> QED  BY <1>1, <1>5, <1>6 DEF QuantityOver

\* No order, no ticket.
LEMMA NoTickets ==
  ASSUME NEW c
  PROVE  TicketsOf({}, c) = {} /\ IsFiniteSet(TicketsOf({}, c))
           /\ QuantityOver({}, c) = 0
<1>1. TicketsOf({}, c) = {}
  BY DEF TicketsOf
<1> QED  BY <1>1, FS_EmptySet DEF QuantityOver

\* Tickets belong to one order each, so the quantities of disjoint sets of
\* orders add up.
LEMMA TicketsAdd ==
  ASSUME TypeOK, NEW c \in Classes, NEW S \in SUBSET Orders,
         NEW T \in SUBSET Orders, S \cap T = {},
         IsFiniteSet(TicketsOf(S, c)), IsFiniteSet(TicketsOf(T, c))
  PROVE  /\ IsFiniteSet(TicketsOf(S \cup T, c))
         /\ QuantityOver(S \cup T, c) = QuantityOver(S, c) + QuantityOver(T, c)
<1>1. TicketsOf(S \cup T, c) = TicketsOf(S, c) \cup TicketsOf(T, c)
  BY DEF TicketsOf
<1>2. TicketsOf(S, c) \cap TicketsOf(T, c) = {}
  <2> SUFFICES ASSUME NEW t \in TicketsOf(S, c), t \in TicketsOf(T, c)
               PROVE  FALSE
      OBVIOUS
  <2>1. t[1] \in S /\ t[1] \in T
    BY DEF TicketsOf
  <2> QED  BY <2>1
<1>3. Cardinality(TicketsOf(S, c) \cap TicketsOf(T, c)) = 0
  BY <1>2, FS_EmptySet
<1>4. /\ IsFiniteSet(TicketsOf(S, c) \cup TicketsOf(T, c))
      /\ Cardinality(TicketsOf(S, c) \cup TicketsOf(T, c))
           = Cardinality(TicketsOf(S, c)) + Cardinality(TicketsOf(T, c))
               - Cardinality(TicketsOf(S, c) \cap TicketsOf(T, c))
  BY FS_Union
<1>5. Cardinality(TicketsOf(S, c)) \in Nat /\ Cardinality(TicketsOf(T, c)) \in Nat
  BY FS_CardinalityType
<1>6. Cardinality(TicketsOf(S, c) \cup TicketsOf(T, c))
        = Cardinality(TicketsOf(S, c)) + Cardinality(TicketsOf(T, c))
  BY <1>3, <1>4, <1>5
<1> QED  BY <1>1, <1>4, <1>6 DEF QuantityOver

\* One order more is its quantity more, and one less is its quantity less.
LEMMA TicketsAddOne ==
  ASSUME TypeOK, NEW c \in Classes, NEW S \in SUBSET Orders,
         NEW o \in Orders, o \notin S, IsFiniteSet(TicketsOf(S, c))
  PROVE  /\ IsFiniteSet(TicketsOf(S \cup {o}, c))
         /\ QuantityOver(S \cup {o}, c) = QuantityOver(S, c) + Quantity(o)[c]
<1>1. IsFiniteSet(TicketsOf({o}, c)) /\ QuantityOver({o}, c) = Quantity(o)[c]
  BY OrderQuantity
<1>2. {o} \in SUBSET Orders /\ S \cap {o} = {}
  OBVIOUS
<1> QED  BY <1>1, <1>2, TicketsAdd

LEMMA TicketsPart ==
  ASSUME NEW c, NEW S, NEW T \in SUBSET S, IsFiniteSet(TicketsOf(S, c))
  PROVE  IsFiniteSet(TicketsOf(T, c))
<1>1. TicketsOf(T, c) \in SUBSET TicketsOf(S, c)
  BY DEF TicketsOf
<1> QED  BY <1>1, FS_Subset

LEMMA TicketsTakeOne ==
  ASSUME TypeOK, NEW c \in Classes, NEW S \in SUBSET Orders,
         NEW o \in S, IsFiniteSet(TicketsOf(S, c))
  PROVE  /\ IsFiniteSet(TicketsOf(S \ {o}, c))
         /\ QuantityOver(S \ {o}, c) = QuantityOver(S, c) - Quantity(o)[c]
<1>1. S \ {o} \in SUBSET S /\ S \ {o} \in SUBSET Orders /\ o \in Orders
  OBVIOUS
<1>2. IsFiniteSet(TicketsOf(S \ {o}, c))
  BY <1>1, TicketsPart
<1>3. QuantityOver((S \ {o}) \cup {o}, c)
        = QuantityOver(S \ {o}, c) + Quantity(o)[c]
  BY <1>1, <1>2, TicketsAddOne
<1>4. QuantityOver(S, c) = QuantityOver(S \ {o}, c) + Quantity(o)[c]
  <2>1. (S \ {o}) \cup {o} = S
    OBVIOUS
  <2> QED  BY <1>3, <2>1
<1>5. QuantityOver(S \ {o}, c) \in Nat /\ Quantity(o)[c] \in Nat
  BY <1>1, <1>2, FS_CardinalityType, QuantityType DEF QuantityOver
<1> QED  BY <1>2, <1>4, <1>5

\* The request of an order does not change, and its tickets with it.
LEMMA RequestKept == [Next]_vars => request' = request
BY DEF Next, GetSaleData, CheckoutStep, StoreOrder, ReserveTickets,
       ScheduleRelease, CreatePaymentLink, TakeReleaseJob, Pay, CheckoutFails,
       RequestCancel, CancelStep, CheckPending, ReleaseTickets, DeleteOrder,
       PersistCancelled, CancelFails, HandleCallback, TestCreatePaymentLink,
       JobStep, ProcessTransaction, ChargeTransaction, VerifyPending,
       MarkCompleted, CommitOrder, NotifyCustomer, CleanUp, JobFails, Crash, vars

LEMMA TicketsKept ==
  ASSUME request' = request, NEW S, NEW c
  PROVE  TicketsOf(S, c)' = TicketsOf(S, c)
           /\ QuantityOver(S, c)' = QuantityOver(S, c)
BY DEF TicketsOf, QuantityOver, Quantity

-----------------------------------------------------------------------------
(* What is sold *)

SoldInvariant ==
  \A c \in Classes :
    /\ IsFiniteSet(TicketsOf(Fulfilled, c))
    /\ soldQuantity[c] = QuantityOver(Fulfilled, c)

\* Only completeOrder's database transaction moves either side, by one order.
LEMMA SoldStep == TypeOK /\ SoldInvariant /\ [Next]_vars => SoldInvariant'
<1> SUFFICES ASSUME TypeOK, SoldInvariant, [Next]_vars PROVE SoldInvariant'
    OBVIOUS
<1>1. request' = request
  BY RequestKept
<1>2. ASSUME soldQuantity' = soldQuantity, Fulfilled' = Fulfilled
      PROVE  SoldInvariant'
  <2>1. \A c \in Classes : /\ TicketsOf(Fulfilled, c)' = TicketsOf(Fulfilled, c)
                           /\ QuantityOver(Fulfilled, c)' = QuantityOver(Fulfilled, c)
    BY <1>1, <1>2 DEF TicketsOf, QuantityOver, Quantity
  <2> QED  BY <1>2, <2>1 DEF SoldInvariant
<1>3. ASSUME NEW j \in Jobs, CommitOrder(j), OrderCodeFree(OrderOf(j))
      PROVE  SoldInvariant'
  <2> DEFINE o == OrderOf(j)
  <2>1. o \in Orders /\ o \notin Fulfilled
    BY <1>3, Identifiers DEF OrderCodeFree, Fulfilled
  <2>2. Fulfilled' = Fulfilled \cup {o} /\ Fulfilled \in SUBSET Orders
    BY <1>3, <2>1 DEF CommitOrder, Fulfilled, TypeOK
  <2> HIDE DEF o
  <2> SUFFICES ASSUME NEW c \in Classes
               PROVE  /\ IsFiniteSet(TicketsOf(Fulfilled, c)')
                      /\ soldQuantity'[c] = QuantityOver(Fulfilled, c)'
      BY DEF SoldInvariant
  <2>3. /\ IsFiniteSet(TicketsOf(Fulfilled \cup {o}, c))
        /\ QuantityOver(Fulfilled \cup {o}, c)
             = QuantityOver(Fulfilled, c) + Quantity(o)[c]
    BY <2>1, <2>2, TicketsAddOne DEF SoldInvariant
  <2>4. soldQuantity'[c] = soldQuantity[c] + Quantity(o)[c]
    BY <1>3 DEF CommitOrder, SellTickets, o
  <2>5. /\ TicketsOf(Fulfilled, c)' = TicketsOf(Fulfilled \cup {o}, c)
        /\ QuantityOver(Fulfilled, c)' = QuantityOver(Fulfilled \cup {o}, c)
    BY <1>1, <2>2 DEF TicketsOf, QuantityOver, Quantity
  <2> QED  BY <2>3, <2>4, <2>5 DEF SoldInvariant
<1>4. ASSUME NEW k \in Callers, PersistCancelled(k) PROVE SoldInvariant'
  <2>1. Fulfilled' = Fulfilled /\ soldQuantity' = soldQuantity
    BY <1>4, Identifiers DEF PersistCancelled, OrderCodeFree, Fulfilled, TypeOK
  <2> QED  BY <1>2, <2>1
<1>5. ASSUME dbOrder' = dbOrder, soldQuantity' = soldQuantity
      PROVE  SoldInvariant'
  BY <1>2, <1>5 DEF Fulfilled
<1>6. \/ dbOrder' = dbOrder /\ soldQuantity' = soldQuantity
      \/ \E j \in Jobs : CommitOrder(j) /\ OrderCodeFree(OrderOf(j))
      \/ \E k \in Callers : PersistCancelled(k)
  BY DEF Next, GetSaleData, CheckoutStep, StoreOrder, ReserveTickets,
         ScheduleRelease, CreatePaymentLink, TakeReleaseJob, Pay, CheckoutFails,
         RequestCancel, CancelStep, CheckPending, ReleaseTickets, DeleteOrder,
         CancelFails, HandleCallback, TestCreatePaymentLink, JobStep,
         ProcessTransaction, ChargeTransaction, VerifyPending, MarkCompleted,
         CommitOrder, NotifyCustomer, CleanUp, JobFails, Crash, database, vars
<1> QED  BY <1>3, <1>4, <1>5, <1>6

LEMMA InitSold == Init => SoldInvariant
<1> SUFFICES ASSUME Init PROVE SoldInvariant
    OBVIOUS
<1>1. Fulfilled = {}
  BY DEF Init, Fulfilled
<1>2. \A c \in Classes : IsFiniteSet(TicketsOf({}, c)) /\ QuantityOver({}, c) = 0
  BY NoTickets
<1> QED  BY <1>1, <1>2 DEF Init, SoldInvariant

THEOREM SoldInvariantHolds == Spec => []SoldInvariant
BY InitSold, SoldStep, TypeCorrect, PTL DEF Spec

\* The sold quantity of every class is what its completed orders bought,
\* whatever is repeated, retried, cancelled, crashes or fails.
THEOREM SoldAlwaysMatchesOrders == Spec => []SoldMatchesOrders
<1>1. SoldInvariant => SoldMatchesOrders
  BY DEF SoldInvariant, SoldMatchesOrders
<1> QED  BY <1>1, SoldInvariantHolds, PTL
-----------------------------------------------------------------------------
(* One handler at a time *)

Counted ==
  /\ IsFiniteSet(RunningCheckouts)
  /\ IsFiniteSet(RunningCancels)
  /\ IsFiniteSet(RunningJobs)

\* A handler between its awaits is the only one.
Alone ==
  /\ \A o, p \in RunningCheckouts : o = p
  /\ \A k, l \in RunningCancels : k = l
  /\ \A i, j \in RunningJobs : i = j
  /\ RunningCheckouts # {} => RunningCancels = {} /\ RunningJobs = {}
  /\ RunningCancels # {} => RunningJobs = {}

\* A handler at its first await joins the running ones; a crash ends them all.
LEMMA CountedStep == TypeOK /\ Counted /\ [Next]_vars => Counted'
<1> SUFFICES ASSUME TypeOK, Counted, [Next]_vars PROVE Counted'
    OBVIOUS
<1>1. IsFiniteSet(RunningCheckouts')
  <2>1. \E x : RunningCheckouts' \subseteq RunningCheckouts \cup {x}
    <3>1. ASSUME NEW o \in Orders, NEW s,
                 checkout' = [checkout EXCEPT ![o] = s]
          PROVE  RunningCheckouts' \subseteq RunningCheckouts \cup {o}
      BY <3>1 DEF RunningCheckouts, TypeOK
    <3>2. checkout' = checkout => RunningCheckouts' = RunningCheckouts
      BY DEF RunningCheckouts
    <3>3. Crash => RunningCheckouts' = {}
      BY DEF Crash, RunningCheckouts, CheckoutRunning
    <3>4. \/ checkout' = checkout \/ Crash
          \/ \E o \in Orders : \E s : checkout' = [checkout EXCEPT ![o] = s]
      BY DEF Next, GetSaleData, CheckoutStep, StoreOrder, ReserveTickets,
         ScheduleRelease, CreatePaymentLink, TakeReleaseJob, Pay, CheckoutFails,
         RequestCancel, CancelStep, CheckPending, ReleaseTickets, DeleteOrder,
         PersistCancelled, CancelFails, HandleCallback, TestCreatePaymentLink,
         JobStep, ProcessTransaction, ChargeTransaction, VerifyPending,
         MarkCompleted, CommitOrder, NotifyCustomer, CleanUp, JobFails, vars
    <3> QED  BY <3>1, <3>2, <3>3, <3>4
  <2>2. PICK x : RunningCheckouts' \in SUBSET (RunningCheckouts \cup {x})
    BY <2>1
  <2>3. IsFiniteSet(RunningCheckouts \cup {x})
    BY FS_AddElement DEF Counted
  <2> QED  BY <2>2, <2>3, FS_Subset
<1>2. IsFiniteSet(RunningCancels')
  <2>1. \E x : RunningCancels' \subseteq RunningCancels \cup {x}
    <3>1. ASSUME NEW k \in Callers, NEW s, cancel' = [cancel EXCEPT ![k] = s]
          PROVE  RunningCancels' \subseteq RunningCancels \cup {k}
      BY <3>1 DEF RunningCancels, TypeOK
    <3>2. cancel' = cancel => RunningCancels' = RunningCancels
      BY DEF RunningCancels
    <3>3. Crash => RunningCancels' = {}
      BY DEF Crash, RunningCancels, CancelRunning, Interrupted
    <3>4. \/ cancel' = cancel \/ Crash
          \/ \E k \in Callers : \E s : cancel' = [cancel EXCEPT ![k] = s]
      BY Identifiers
      DEF Next, GetSaleData, CheckoutStep, StoreOrder, ReserveTickets,
         ScheduleRelease, CreatePaymentLink, TakeReleaseJob, Pay, CheckoutFails,
         RequestCancel, CancelStep, CheckPending, ReleaseTickets, DeleteOrder,
         PersistCancelled, CancelFails, HandleCallback, TestCreatePaymentLink,
         JobStep, ProcessTransaction, ChargeTransaction, VerifyPending,
         MarkCompleted, CommitOrder, NotifyCustomer, CleanUp, JobFails, vars
    <3> QED  BY <3>1, <3>2, <3>3, <3>4
  <2>2. PICK x : RunningCancels' \in SUBSET (RunningCancels \cup {x})
    BY <2>1
  <2>3. IsFiniteSet(RunningCancels \cup {x})
    BY FS_AddElement DEF Counted
  <2> QED  BY <2>2, <2>3, FS_Subset
<1>3. IsFiniteSet(RunningJobs')
  <2>1. \E x : RunningJobs' \subseteq RunningJobs \cup {x}
    <3>1. ASSUME NEW j \in Jobs, NEW s, job' = [job EXCEPT ![j] = s]
          PROVE  RunningJobs' \subseteq RunningJobs \cup {j}
      BY <3>1 DEF RunningJobs, TypeOK
    <3>2. job' = job => RunningJobs' = RunningJobs
      BY DEF RunningJobs
    <3>3. Crash => RunningJobs' = {}
      BY DEF Crash, RunningJobs, JobRunning
    <3>4. \/ job' = job \/ Crash
          \/ \E j \in Jobs : \E s : job' = [job EXCEPT ![j] = s]
      BY DEF Next, GetSaleData, CheckoutStep, StoreOrder, ReserveTickets,
         ScheduleRelease, CreatePaymentLink, TakeReleaseJob, Pay, CheckoutFails,
         RequestCancel, CancelStep, CheckPending, ReleaseTickets, DeleteOrder,
         PersistCancelled, CancelFails, HandleCallback, TestCreatePaymentLink,
         JobStep, ProcessTransaction, ChargeTransaction, VerifyPending,
         MarkCompleted, CommitOrder, NotifyCustomer, CleanUp, JobFails, Step,
         RetryOrFail, AddTransactionToQueue, queue, vars
    <3> QED  BY <3>1, <3>2, <3>3, <3>4
  <2>2. PICK x : RunningJobs' \in SUBSET (RunningJobs \cup {x})
    BY <2>1
  <2>3. IsFiniteSet(RunningJobs \cup {x})
    BY FS_AddElement DEF Counted
  <2> QED  BY <2>2, <2>3, FS_Subset
<1> QED  BY <1>1, <1>2, <1>3 DEF Counted

LEMMA SmallSet ==
  ASSUME NEW S, IsFiniteSet(S), Cardinality(S) <= 1
  PROVE  \A x, y \in S : x = y
<1>1. Cardinality(S) \in Nat
  BY FS_CardinalityType
<1>2. CASE Cardinality(S) = 0
  BY <1>2, FS_EmptySet
<1>3. CASE Cardinality(S) = 1
  <2>1. \E x : S = {x}
    BY <1>3, FS_Singleton
  <2> QED  BY <2>1
<1> QED  BY <1>1, <1>2, <1>3

\* Counting to one is being alone.
LEMMA OneIsAlone == Counted /\ OneHandler => Alone
<1> SUFFICES ASSUME Counted, OneHandler PROVE Alone
    OBVIOUS
<1> DEFINE n == Cardinality(RunningCheckouts)
           m == Cardinality(RunningCancels)
           l == Cardinality(RunningJobs)
<1>1. n \in Nat /\ m \in Nat /\ l \in Nat
  BY FS_CardinalityType DEF Counted
<1>2. n + m + l <= 1
  BY DEF OneHandler
<1>3. /\ RunningCheckouts # {} => n # 0
      /\ RunningCancels # {} => m # 0
      /\ RunningJobs # {} => l # 0
  BY FS_EmptySet DEF Counted
<1> HIDE DEF n, m, l
<1>4. n <= 1 /\ m <= 1 /\ l <= 1
  BY <1>1, <1>2
<1>5. /\ n # 0 => m = 0 /\ l = 0
      /\ m # 0 => l = 0
  BY <1>1, <1>2
<1>6. \A o, p \in RunningCheckouts : o = p
  BY <1>4, SmallSet DEF n, Counted
<1>7. \A k, p \in RunningCancels : k = p
  BY <1>4, SmallSet DEF m, Counted
<1>8. \A i, j \in RunningJobs : i = j
  BY <1>4, SmallSet DEF l, Counted
<1> QED  BY <1>3, <1>5, <1>6, <1>7, <1>8 DEF Alone

LEMMA InitAlone == Init => Counted /\ Alone
<1> SUFFICES ASSUME Init PROVE Counted /\ Alone
    OBVIOUS
<1>1. /\ RunningCheckouts = {}
      /\ RunningCancels = {}
      /\ RunningJobs = {}
  BY DEF Init, RunningCheckouts, RunningCancels, RunningJobs, CheckoutRunning,
         CancelRunning, JobRunning
<1> QED  BY <1>1, FS_EmptySet DEF Counted, Alone

LEMMA AloneStep ==
  TypeOK /\ Counted /\ Alone /\ [SerialNext]_vars => Counted' /\ Alone'
<1> SUFFICES ASSUME TypeOK, Counted, Alone, [SerialNext]_vars
             PROVE  Counted' /\ Alone'
    OBVIOUS
<1>1. CASE SerialNext
  <2>1. Counted' /\ OneHandler'
    BY <1>1, CountedStep DEF SerialNext
  <2>2. Counted' /\ OneHandler' => Alone'
    BY OneIsAlone, PTL
  <2> QED  BY <2>1, <2>2
<1>2. CASE UNCHANGED vars
  BY <1>2 DEF vars, queue, Counted, Alone, RunningCheckouts, RunningCancels,
              RunningJobs
<1> QED  BY <1>1, <1>2

\* The serial executions are executions, with all their invariants.
LEMMA SerialRefinesSpec == SerialSpec => Spec
<1>1. [SerialNext]_vars => [Next]_vars
  BY DEF SerialNext
<1> QED  BY <1>1, PTL DEF SerialSpec, Spec

\* OneHandler is a guard of every step, and the rest of the handlers' state
\* is what it is in every execution.
THEOREM HandlersAreAlone == SerialSpec => [](Counted /\ Alone)
<1>1. SerialSpec => []TypeOK
  BY SerialRefinesSpec, TypeCorrect, PTL
<1> QED  BY <1>1, InitAlone, AloneStep, PTL DEF SerialSpec
-----------------------------------------------------------------------------
(* The availability never drops below zero *)

\* reserveTickets compares line by line, so a cart with two lines of a class
\* takes more than it was compared with.
OneLinePerClass ==
  \A x \in Carts, c \in Classes : CartMaxLine[x][c] = CartQty[x][c]

\* Nothing moves the stock between reading the availability and taking it.
SeenFresh ==
  \A o \in Orders : checkout[o] \in {"store", "reserve"} => seen[o] = available

\* The two commands that move the availability.
LEMMA StockMoves ==
  ASSUME [Next]_vars
  PROVE  \/ available' = available
         \/ \E o \in Orders : ReserveTickets(o) /\ Sufficient(o)
         \/ \E k \in Callers : ReleaseTickets(k)
BY DEF Next, GetSaleData, CheckoutStep, StoreOrder, ReserveTickets,
       ScheduleRelease, CreatePaymentLink, TakeReleaseJob, Pay, CheckoutFails,
       RequestCancel, CancelStep, CheckPending, DeleteOrder, PersistCancelled,
       CancelFails, HandleCallback, TestCreatePaymentLink, JobStep,
       ProcessTransaction, ChargeTransaction, VerifyPending, MarkCompleted,
       CommitOrder, NotifyCustomer, CleanUp, JobFails, Crash, redis, vars

LEMMA SeenFreshStep ==
  TypeOK /\ Alone /\ SeenFresh /\ [Next]_vars => SeenFresh'
<1> SUFFICES ASSUME TypeOK, Alone, SeenFresh, [Next]_vars,
                    NEW o \in Orders, checkout'[o] \in {"store", "reserve"}
             PROVE  seen'[o] = available'
    BY DEF SeenFresh
<1>1. CASE GetSaleData(o)
  BY <1>1 DEF GetSaleData, TypeOK, redis
<1>2. CASE ~GetSaleData(o)
  <2>1. checkout[o] \in {"store", "reserve"} /\ seen'[o] = seen[o]
    <3>1. ASSUME NEW p \in Orders,
                 \/ GetSaleData(p) \/ CheckoutStep(p) \/ TakeReleaseJob(p)
                 \/ Pay(p) \/ CheckoutFails(p)
          PROVE  checkout[o] \in {"store", "reserve"} /\ seen'[o] = seen[o]
      BY <1>2, <3>1 DEF GetSaleData, CheckoutStep, StoreOrder, ReserveTickets,
           ScheduleRelease, CreatePaymentLink, TakeReleaseJob, Pay,
           CheckoutFails, TypeOK
    <3>2. CASE Crash
      BY <3>2 DEF Crash, TypeOK, CheckoutRunning
    <3>3. CASE UNCHANGED <<checkout, seen>>
      BY <3>3
    <3>4. \/ UNCHANGED <<checkout, seen>> \/ Crash
          \/ \E p \in Orders : \/ GetSaleData(p) \/ CheckoutStep(p)
                               \/ TakeReleaseJob(p) \/ Pay(p) \/ CheckoutFails(p)
      BY DEF Next, RequestCancel, CancelStep, CheckPending, ReleaseTickets,
           DeleteOrder, PersistCancelled, CancelFails, HandleCallback,
           TestCreatePaymentLink, JobStep, ProcessTransaction,
           ChargeTransaction, VerifyPending, MarkCompleted, CommitOrder,
           NotifyCustomer, CleanUp, JobFails, vars
    <3> QED  BY <3>1, <3>2, <3>3, <3>4
  <2>2. o \in RunningCheckouts
    BY <2>1 DEF RunningCheckouts, CheckoutRunning
  <2>3. ASSUME NEW p \in Orders, ReserveTickets(p) PROVE FALSE
    <3>1. p \in RunningCheckouts /\ checkout'[p] \in {"schedule", "rejected"}
      BY <2>3 DEF ReserveTickets, RunningCheckouts, CheckoutRunning, TypeOK
    <3> QED  BY <2>2, <3>1 DEF Alone
  <2>4. ASSUME NEW k \in Callers, ReleaseTickets(k) PROVE FALSE
    <3>1. k \in RunningCancels
      BY <2>4 DEF ReleaseTickets, RunningCancels, CancelRunning
    <3> QED  BY <2>2, <3>1 DEF Alone
  <2>5. available' = available
    BY <2>3, <2>4, StockMoves
  <2> QED  BY <2>1, <2>5 DEF SeenFresh
<1> QED  BY <1>1, <1>2

LEMMA NeverOversoldStep ==
  ASSUME OneLinePerClass
  PROVE  TypeOK /\ SeenFresh /\ NeverOversold /\ [Next]_vars => NeverOversold'
<1> SUFFICES ASSUME TypeOK, SeenFresh, NeverOversold, [Next]_vars,
                    NEW c \in Classes
             PROVE  available'[c] >= 0
    BY DEF NeverOversold
<1>1. available[c] \in Int /\ available[c] >= 0
  BY DEF TypeOK, NeverOversold
<1>2. ASSUME NEW o \in Orders, ReserveTickets(o), Sufficient(o)
      PROVE  available'[c] >= 0
  <2>1. available'[c] = available[c] - Quantity(o)[c]
    BY <1>2 DEF ReserveTickets, TakeTickets
  <2>2. available[c] >= LargestLine(o)[c]
    BY <1>2 DEF ReserveTickets, SeenFresh, Sufficient
  <2>3. LargestLine(o)[c] = Quantity(o)[c]
    BY DEF OneLinePerClass, LargestLine, Quantity, TypeOK
  <2>4. Quantity(o)[c] \in Nat
    BY QuantityType
  <2> QED  BY <1>1, <2>1, <2>2, <2>3, <2>4
<1>3. ASSUME NEW k \in Callers, ReleaseTickets(k) PROVE available'[c] >= 0
  <2>1. available'[c] = available[c] + Quantity(OrderOf(k))[c]
    BY <1>3 DEF ReleaseTickets, ReturnTickets
  <2>2. Quantity(OrderOf(k))[c] \in Nat
    BY Identifiers, QuantityType
  <2> QED  BY <1>1, <2>1, <2>2
<1> QED  BY <1>1, <1>2, <1>3, StockMoves

\* With one handler at a time and no cart that asks for a class twice, no class
\* is oversold, whatever is cancelled, crashes or fails.
THEOREM SerialNeverOversells ==
  ASSUME OneLinePerClass
  PROVE  SerialSpec => []NeverOversold
<1>1. SerialSpec => []TypeOK
  BY SerialRefinesSpec, TypeCorrect, PTL
<1>2. Init => SeenFresh /\ NeverOversold
  BY CartsAssumption DEF Init, SeenFresh, NeverOversold
<1>3. TypeOK /\ SeenFresh /\ NeverOversold /\ [Next]_vars => NeverOversold'
  BY NeverOversoldStep
<1>4. [SerialNext]_vars => [Next]_vars
  BY DEF SerialNext
<1> QED  BY <1>1, <1>2, <1>3, <1>4, SeenFreshStep, HandlersAreAlone, PTL
         DEF SerialSpec
-----------------------------------------------------------------------------
(* No ticket is lost between the availability, the holds and the sales *)

\* A crash or a failing call between two steps of a handler loses tickets.
NoFailures == MaxCrashes = 0 /\ MaxFaults = 0

\* Nothing knows an order that has reserved no tickets.
KnownWhenReserved ==
  \A o \in Orders : checkout[o] \notin PastReserve =>
    /\ dbOrder[o] = "none"
    /\ \A k \in Callers : OrderOf(k) = o => cancel[k] = "idle"
    /\ \A j \in Jobs : OrderOf(j) = o => job[j] = "idle"

\* A status that was read as PENDING is PENDING when it is acted on.
StillPending ==
  /\ \A o \in Orders : checkout[o] = "reserve" => orderKey[o] = "PENDING"
  /\ \A k \in Callers :
       cancel[k] \in {"release", "delete"} => orderKey[OrderOf(k)] = "PENDING"
  /\ \A j \in Jobs : job[j] = "mark" => orderKey[OrderOf(j)] = "PENDING"

\* What is missing from the availability is what these orders asked for.
StockTaken ==
  \A c \in Classes :
    /\ IsFiniteSet(TicketsOf(Out, c))
    /\ available[c] + QuantityOver(Out, c) = Total[c]

\* Without failures a process neither dies nor gives up.
LEMMA NothingFails ==
  ASSUME NoFailures, TypeOK
  PROVE  /\ ~Crash
         /\ \A o \in Orders : ~CheckoutFails(o)
         /\ \A k \in Callers : ~CancelFails(k)
         /\ \A j \in Jobs : ~JobFails(j)
BY DEF NoFailures, TypeOK, Crash, CheckoutFails, CancelFails, JobFails, Fault

\* The steps left, by whose stage they move.
CheckoutMove(o) == GetSaleData(o) \/ CheckoutStep(o)
CancelMove(k) ==
  \/ RequestCancel(k) \/ CancelStep(k)
  \/ \E o \in Orders : k = Release(o) /\ TakeReleaseJob(o)
JobMove(j) == HandleCallback(j) \/ TestCreatePaymentLink(j) \/ JobStep(j)

LEMMA Moves ==
  ASSUME NoFailures, TypeOK, [Next]_vars
  PROVE  \/ \E o \in Orders : CheckoutMove(o)
         \/ \E k \in Callers : CancelMove(k)
         \/ \E j \in Jobs : JobMove(j)
         \/ UNCHANGED <<checkout, orderKey, available, cancel, job, dbOrder>>
<1>1. CASE UNCHANGED vars
  BY <1>1 DEF vars, redis, queue, database
<1>2. ASSUME NEW o \in Orders, Pay(o)
      PROVE  UNCHANGED <<checkout, orderKey, available, cancel, job, dbOrder>>
  BY <1>2 DEF Pay, redis, queue, database
<1>3. ASSUME NEW o \in Orders, TakeReleaseJob(o)
      PROVE  \E k \in Callers : CancelMove(k)
  BY <1>3, Identifiers DEF CancelMove
<1>4. CASE Next
  BY <1>2, <1>3, <1>4, NothingFails DEF Next, CheckoutMove, CancelMove, JobMove
<1> QED  BY <1>1, <1>4

LEMMA CheckoutMoveFrame ==
  ASSUME TypeOK, NEW o \in Orders, CheckoutMove(o)
  PROVE  /\ UNCHANGED <<job, dbOrder>>
         /\ \A p \in Orders \ {o} :
              checkout'[p] = checkout[p] /\ orderKey'[p] = orderKey[p]
         /\ checkout[o] \in PastReserve => checkout'[o] \in PastReserve
         /\ \/ cancel' = cancel
            \/ /\ checkout[o] = "schedule" /\ checkout'[o] = "link"
               /\ cancel' = [cancel EXCEPT ![Release(o)] = "delayed"]
BY DEF CheckoutMove, GetSaleData, CheckoutStep, StoreOrder, ReserveTickets,
       ScheduleRelease, CreatePaymentLink, TypeOK, PastReserve, redis, queue,
       database

LEMMA CancelMoveFrame ==
  ASSUME TypeOK, KnownWhenReserved, NEW k \in Callers, CancelMove(k)
  PROVE  /\ UNCHANGED <<checkout, job>>
         /\ checkout[OrderOf(k)] \in PastReserve
         /\ \A l \in Callers \ {k} : cancel'[l] = cancel[l]
         /\ \A p \in Orders \ {OrderOf(k)} :
              dbOrder'[p] = dbOrder[p] /\ orderKey'[p] = orderKey[p]
<1> USE DEF TypeOK, PastReserve, redis, queue, database, CancelMove
<1>1. UNCHANGED <<checkout, job>>
  BY DEF RequestCancel, CancelStep, CheckPending, ReleaseTickets,
         DeleteOrder, PersistCancelled, TakeReleaseJob
<1>2. \A l \in Callers \ {k} : cancel'[l] = cancel[l]
  BY Identifiers DEF RequestCancel, CancelStep, CheckPending, ReleaseTickets,
         DeleteOrder, PersistCancelled, TakeReleaseJob
<1>3. \A p \in Orders \ {OrderOf(k)} :
        dbOrder'[p] = dbOrder[p] /\ orderKey'[p] = orderKey[p]
  BY Identifiers DEF RequestCancel, CancelStep, CheckPending, ReleaseTickets,
         DeleteOrder, PersistCancelled, TakeReleaseJob
<1>4. cancel[k] # "idle" \/ checkout[OrderOf(k)] = "done"
  BY Identifiers DEF RequestCancel, CancelStep, CheckPending, ReleaseTickets,
         DeleteOrder, PersistCancelled, TakeReleaseJob
<1>5. checkout[OrderOf(k)] \in PastReserve
  BY <1>4, Identifiers DEF KnownWhenReserved
<1> QED  BY <1>1, <1>2, <1>3, <1>5

LEMMA JobMoveFrame ==
  ASSUME TypeOK, KnownWhenReserved, LifecycleInvariant, NEW j \in Jobs, JobMove(j)
  PROVE  /\ UNCHANGED <<checkout, cancel, available>>
         /\ checkout[OrderOf(j)] \in PastReserve
         /\ \A i \in Jobs \ {j} : job'[i] = job[i]
         /\ \A p \in Orders \ {OrderOf(j)} :
              dbOrder'[p] = dbOrder[p] /\ orderKey'[p] = orderKey[p]
<1> USE DEF TypeOK, PastReserve, redis, queue, database, JobMove, RetryOrFail,
            Step, AddTransactionToQueue
<1>1. UNCHANGED <<checkout, cancel, available>>
  BY DEF HandleCallback, TestCreatePaymentLink, JobStep, ProcessTransaction,
         ChargeTransaction, VerifyPending, MarkCompleted, CommitOrder,
         NotifyCustomer, CleanUp
<1>2. \A i \in Jobs \ {j} : job'[i] = job[i]
  BY DEF HandleCallback, TestCreatePaymentLink, JobStep, ProcessTransaction,
         ChargeTransaction, VerifyPending, MarkCompleted, CommitOrder,
         NotifyCustomer, CleanUp
<1>3. \A p \in Orders \ {OrderOf(j)} :
        dbOrder'[p] = dbOrder[p] /\ orderKey'[p] = orderKey[p]
  BY Identifiers DEF HandleCallback, TestCreatePaymentLink, JobStep,
         ProcessTransaction, ChargeTransaction, VerifyPending, MarkCompleted,
         CommitOrder, NotifyCustomer, CleanUp
<1>4. \/ job[j] # "idle" \/ paid[OrderOf(j)] \/ checkout[OrderOf(j)] = "done"
  BY DEF HandleCallback, TestCreatePaymentLink, JobStep, ProcessTransaction,
         ChargeTransaction, VerifyPending, MarkCompleted, CommitOrder,
         NotifyCustomer, CleanUp
<1>5. checkout[OrderOf(j)] \in PastReserve
  BY <1>4, Identifiers
     DEF KnownWhenReserved, LifecycleInvariant, UnknownBeforeStored
<1> QED  BY <1>1, <1>2, <1>3, <1>5

LEMMA KnownStep ==
  ASSUME NoFailures, TypeOK, LifecycleInvariant, KnownWhenReserved, [Next]_vars
  PROVE  KnownWhenReserved'
<1>1. ASSUME NEW o \in Orders, CheckoutMove(o) PROVE KnownWhenReserved'
  <2>1. CASE cancel' = cancel
    BY <1>1, <2>1, CheckoutMoveFrame DEF KnownWhenReserved
  <2>2. CASE cancel' # cancel
    <3>1. /\ checkout'[o] \in PastReserve
          /\ cancel' = [cancel EXCEPT ![Release(o)] = "delayed"]
      BY <1>1, <2>2, CheckoutMoveFrame DEF PastReserve
    <3>2. \A k \in Callers : OrderOf(k) # o => cancel'[k] = cancel[k]
      BY <3>1, Identifiers DEF TypeOK
    <3> QED  BY <1>1, <3>1, <3>2, CheckoutMoveFrame DEF KnownWhenReserved
  <2> QED  BY <2>1, <2>2
<1>2. ASSUME NEW k \in Callers, CancelMove(k) PROVE KnownWhenReserved'
  BY <1>2, CancelMoveFrame DEF KnownWhenReserved
<1>3. ASSUME NEW j \in Jobs, JobMove(j) PROVE KnownWhenReserved'
  BY <1>3, JobMoveFrame DEF KnownWhenReserved
<1>4. CASE UNCHANGED <<checkout, orderKey, available, cancel, job, dbOrder>>
  BY <1>4 DEF KnownWhenReserved
<1> QED  BY <1>1, <1>2, <1>3, <1>4, Moves
\* Whoever acts on a status is alone between reading it and writing it.
LEMMA StillPendingStep ==
  ASSUME NoFailures, TypeOK, LifecycleInvariant, KnownWhenReserved, Alone,
         StillPending, [Next]_vars
  PROVE  StillPending'
<1> USE DEF StillPending
<1>1. ASSUME NEW o \in Orders, CheckoutMove(o) PROVE StillPending'
  <2>1. /\ orderKey' = orderKey \/ orderKey' = [orderKey EXCEPT ![o] = "PENDING"]
        /\ checkout'[o] = "reserve" => orderKey'[o] = "PENDING"
    BY <1>1 DEF CheckoutMove, GetSaleData, CheckoutStep, StoreOrder,
           ReserveTickets, ScheduleRelease, CreatePaymentLink, TypeOK, redis
  <2>2. \A p \in Orders : orderKey[p] = "PENDING" => orderKey'[p] = "PENDING"
    BY <2>1 DEF TypeOK
  <2>3. \A k \in Callers : cancel'[k] \in {cancel[k], "delayed"}
    BY <1>1, CheckoutMoveFrame, Identifiers DEF TypeOK
  <2> QED  BY <1>1, <2>1, <2>2, <2>3, CheckoutMoveFrame, Identifiers
<1>2. ASSUME NEW k \in Callers, CancelMove(k) PROVE StillPending'
  <2>1. CASE DeleteOrder(k)
    <3>1. k \in RunningCancels /\ cancel'[k] = "persist"
      BY <2>1 DEF DeleteOrder, RunningCancels, CancelRunning, TypeOK
    <3>2. \A l \in Callers : cancel'[l] \notin {"release", "delete"}
      BY <1>2, <3>1, CancelMoveFrame DEF Alone, RunningCancels, CancelRunning
    <3>3. \A o \in Orders : checkout'[o] # "reserve"
      BY <1>2, <3>1, CancelMoveFrame
         DEF Alone, RunningCheckouts, CheckoutRunning
    <3>4. \A j \in Jobs : job'[j] # "mark"
      BY <1>2, <3>1, CancelMoveFrame DEF Alone, RunningJobs, JobRunning
    <3> QED  BY <3>2, <3>3, <3>4
  <2>2. CASE ~DeleteOrder(k)
    <3>1. /\ orderKey' = orderKey
          /\ cancel'[k] \in {"release", "delete"} =>
               orderKey[OrderOf(k)] = "PENDING"
      BY <1>2, <2>2 DEF CancelMove, RequestCancel, CancelStep, CheckPending,
           ReleaseTickets, PersistCancelled, TakeReleaseJob, Releasable,
           TypeOK, redis
    <3> QED  BY <1>2, <3>1, CancelMoveFrame
  <2> QED  BY <2>1, <2>2
<1>3. ASSUME NEW j \in Jobs, JobMove(j) PROVE StillPending'
  <2>1. CASE MarkCompleted(j) \/ CleanUp(j)
    <3>1. j \in RunningJobs /\ job'[j] \in {"commit", "done"}
      BY <2>1 DEF MarkCompleted, CleanUp, Step, RunningJobs, JobRunning, TypeOK
    <3>2. \A i \in Jobs : job'[i] # "mark"
      BY <1>3, <3>1, JobMoveFrame DEF Alone, RunningJobs, JobRunning
    <3>3. \A o \in Orders : checkout'[o] # "reserve"
      BY <1>3, <3>1, JobMoveFrame DEF Alone, RunningCheckouts, CheckoutRunning
    <3>4. \A k \in Callers : cancel'[k] \notin {"release", "delete"}
      BY <1>3, <3>1, JobMoveFrame DEF Alone, RunningCancels, CancelRunning
    <3> QED  BY <3>2, <3>3, <3>4
  <2>2. CASE ~(MarkCompleted(j) \/ CleanUp(j))
    <3>1. /\ orderKey' = orderKey
          /\ job'[j] = "mark" => orderKey[OrderOf(j)] = "PENDING"
      BY <1>3, <2>2 DEF JobMove, HandleCallback, TestCreatePaymentLink, JobStep,
           ProcessTransaction, ChargeTransaction, VerifyPending, CommitOrder,
           NotifyCustomer, AddTransactionToQueue, RetryOrFail, Step, TypeOK,
           redis, queue
    <3> QED  BY <1>3, <3>1, JobMoveFrame
  <2> QED  BY <2>1, <2>2
<1>4. CASE UNCHANGED <<checkout, orderKey, available, cancel, job, dbOrder>>
  BY <1>4
<1> QED  BY <1>1, <1>2, <1>3, <1>4, Moves

\* The steps that change where tickets are: a reservation, a release and the
\* completion of an order.
LEMMA OutMoves ==
  ASSUME NoFailures, TypeOK, LifecycleInvariant, KnownWhenReserved, Alone,
         StillPending, [Next]_vars
  PROVE  \/ /\ UNCHANGED <<Out, Reserved, available>>
            /\ \/ Fulfilled' = Fulfilled
               \/ \E o \in Out \ Fulfilled : Fulfilled' = Fulfilled \cup {o}
         \/ \E o \in Orders \ Reserved :
              /\ ReserveTickets(o) /\ Sufficient(o)
              /\ Out' = Out \cup {o} /\ Reserved' = Reserved \cup {o}
              /\ Fulfilled' = Fulfilled
         \/ \E o \in Out \ Fulfilled :
              /\ ReturnTickets(o)
              /\ Out' = Out \ {o} /\ UNCHANGED <<Reserved, Fulfilled>>
<1>1. ASSUME NEW o \in Orders, CheckoutMove(o)
      PROVE  /\ Fulfilled' = Fulfilled
             /\ \/ UNCHANGED <<Out, Reserved, available>>
                \/ /\ o \notin Reserved /\ ReserveTickets(o) /\ Sufficient(o)
                   /\ Out' = Out \cup {o} /\ Reserved' = Reserved \cup {o}
  <2> USE DEF Reserved
  <2>0. Fulfilled' = Fulfilled
    BY <1>1, CheckoutMoveFrame DEF Fulfilled
  <2>1. ASSUME NEW p \in Orders \ {o} PROVE TakenOut(p)' <=> TakenOut(p)
    <3>1. /\ UNCHANGED <<job, dbOrder>>
          /\ checkout'[p] = checkout[p] /\ orderKey'[p] = orderKey[p]
      BY <1>1, CheckoutMoveFrame
    <3>2. \A k \in Callers : OrderOf(k) = p => cancel'[k] = cancel[k]
      BY <1>1, CheckoutMoveFrame, Identifiers DEF TypeOK
    <3> QED  BY <3>1, <3>2 DEF TakenOut, Returned, Committing
  <2>2. CASE ReserveTickets(o) /\ Sufficient(o)
    <3>1. /\ checkout[o] = "reserve" /\ checkout'[o] = "schedule"
          /\ orderKey' = orderKey /\ cancel' = cancel /\ TakeTickets(o)
      BY <2>2 DEF ReserveTickets, TypeOK
    <3>2. o \notin Reserved /\ Reserved' = Reserved \cup {o}
      BY <1>1, <3>1, CheckoutMoveFrame DEF PastReserve
    <3>3. ~Returned(o)' /\ orderKey'[o] = "PENDING"
      BY <3>1 DEF KnownWhenReserved, PastReserve, Returned, StillPending
    <3>4. TakenOut(o)'
      BY <3>1, <3>3 DEF TakenOut, PastReserve
    <3>5. Out' = Out \cup {o}
      BY <2>1, <3>4 DEF Out
    <3> QED  BY <2>0, <2>2, <3>2, <3>5
  <2>3. CASE ~(ReserveTickets(o) /\ Sufficient(o))
    <3>1. available' = available
      BY <1>1, <2>3 DEF CheckoutMove, GetSaleData, CheckoutStep, StoreOrder,
           ReserveTickets, ScheduleRelease, CreatePaymentLink, redis
    <3>2. /\ TakenOut(o)' <=> TakenOut(o)
          /\ checkout'[o] \in PastReserve <=> checkout[o] \in PastReserve
      <4>1. CASE checkout[o] \in PastReserve
        <5>1. /\ checkout'[o] \in PastReserve /\ UNCHANGED <<job, dbOrder>>
              /\ orderKey' = orderKey
          BY <1>1, <4>1, CheckoutMoveFrame
             DEF CheckoutMove, GetSaleData, CheckoutStep, StoreOrder,
                 ReserveTickets, ScheduleRelease, CreatePaymentLink, TypeOK,
                 PastReserve, redis
        <5>2. ASSUME NEW k \in Callers
              PROVE  cancel'[k] = "delete" <=> cancel[k] = "delete"
          <6>1. CASE cancel' = cancel
            BY <6>1
          <6>2. CASE /\ checkout[o] = "schedule"
                     /\ cancel' = [cancel EXCEPT ![Release(o)] = "delayed"]
            <7>1. o \in RunningCheckouts
              BY <6>2 DEF RunningCheckouts, CheckoutRunning
            <7>2. cancel[k] # "delete"
              BY <7>1 DEF Alone, RunningCancels, CancelRunning
            <7> QED  BY <6>2, <7>2 DEF TypeOK
          <6> QED  BY <1>1, <6>1, <6>2, CheckoutMoveFrame
        <5> QED  BY <4>1, <5>1, <5>2 DEF TakenOut, Returned, Committing
      <4>2. CASE checkout[o] \notin PastReserve
        <5>1. checkout'[o] \notin PastReserve
          BY <1>1, <2>3, <4>2
             DEF CheckoutMove, GetSaleData, CheckoutStep, StoreOrder,
                 ReserveTickets, ScheduleRelease, CreatePaymentLink, TypeOK,
                 PastReserve
        <5> QED  BY <4>2, <5>1 DEF TakenOut
      <4> QED  BY <4>1, <4>2
    <3>3. Out' = Out /\ Reserved' = Reserved
      BY <1>1, <2>1, <3>2, CheckoutMoveFrame DEF Out
    <3> QED  BY <2>0, <3>1, <3>3
  <2> QED  BY <2>2, <2>3
<1>2. ASSUME NEW k \in Callers, CancelMove(k)
      PROVE  /\ UNCHANGED <<Reserved, Fulfilled>>
             /\ \/ Out' = Out /\ available' = available
                \/ \E o \in Out \ Fulfilled : ReturnTickets(o) /\ Out' = Out \ {o}
  <2> DEFINE o == OrderOf(k)
  <2>0. UNCHANGED <<Reserved, Fulfilled>>
    <3>1. checkout' = checkout
      BY <1>2, CancelMoveFrame
    <3>2. \A p \in Orders : dbOrder'[p] = "COMPLETED" <=> dbOrder[p] = "COMPLETED"
      BY <1>2, Identifiers
         DEF CancelMove, RequestCancel, CancelStep, CheckPending, ReleaseTickets,
             DeleteOrder, PersistCancelled, TakeReleaseJob, OrderCodeFree,
             TypeOK, database
    <3> QED  BY <3>1, <3>2 DEF Reserved, Fulfilled
  <2>1. /\ o \in Orders /\ UNCHANGED <<checkout, job>>
        /\ checkout[o] \in PastReserve
    BY <1>2, CancelMoveFrame, Identifiers
  <2>2. ASSUME NEW p \in Orders \ {o} PROVE TakenOut(p)' <=> TakenOut(p)
    <3>1. dbOrder'[p] = dbOrder[p] /\ orderKey'[p] = orderKey[p]
      BY <1>2, CancelMoveFrame
    <3>2. \A l \in Callers : OrderOf(l) = p => cancel'[l] = cancel[l]
      BY <1>2, CancelMoveFrame
    <3> QED  BY <2>1, <3>1, <3>2 DEF TakenOut, Returned, Committing
  <2>3. ASSUME cancel[k] \in {"release", "delete"}
        PROVE  /\ orderKey[o] = "PENDING" /\ dbOrder[o] = "none"
               /\ ~Committing(o) /\ ~Committing(o)'
               /\ \A l \in Callers : cancel[l] = "delete" => l = k
    <3>1. k \in RunningCancels
      BY <2>3 DEF RunningCancels, CancelRunning
    <3>2. \A j \in Jobs : job[j] # "commit"
      BY <3>1 DEF Alone, RunningJobs, JobRunning
    <3>3. \A l \in Callers : cancel[l] = "delete" => l = k
      BY <3>1 DEF Alone, RunningCancels, CancelRunning
    <3>4. orderKey[o] = "PENDING"
      BY <2>3 DEF StillPending
    <3>5. dbOrder[o] = "none"
      BY <2>1, <3>4 DEF LifecycleInvariant, SettledNotPending
    <3> QED  BY <2>1, <3>2, <3>3, <3>4, <3>5 DEF Committing
  <2>4. CASE ReleaseTickets(k)
    <3>1. /\ cancel[k] = "release" /\ cancel'[k] = "delete" /\ ReturnTickets(o)
          /\ UNCHANGED <<orderKey, dbOrder>>
      BY <2>4 DEF ReleaseTickets, TypeOK, database
    <3>2. ~Returned(o) /\ Returned(o)'
      <4>1. \A l \in Callers : cancel[l] # "delete"
        BY <2>3, <3>1
      <4> QED  BY <3>1, <4>1 DEF Returned
    <3>3. TakenOut(o) /\ ~TakenOut(o)'
      BY <2>1, <2>3, <3>1, <3>2 DEF TakenOut
    <3>4. o \in Out \ Fulfilled /\ Out' = Out \ {o}
      BY <2>1, <2>2, <2>3, <3>1, <3>3 DEF Out, Fulfilled
    <3> QED  BY <2>0, <3>1, <3>4
  <2>5. CASE DeleteOrder(k)
    <3>1. /\ cancel[k] = "delete" /\ orderKey'[o] = "none"
          /\ UNCHANGED <<available, dbOrder>>
      BY <2>1, <2>5 DEF DeleteOrder, TypeOK, database
    <3>2. Returned(o)
      BY <3>1 DEF Returned
    <3>3. ~TakenOut(o) /\ ~TakenOut(o)'
      BY <2>1, <2>3, <3>1, <3>2 DEF TakenOut
    <3> QED  BY <2>0, <2>1, <2>2, <3>1, <3>3 DEF Out
  <2>6. CASE ~ReleaseTickets(k) /\ ~DeleteOrder(k)
    <3>1. /\ UNCHANGED <<available, orderKey>>
          /\ cancel[k] # "delete" /\ cancel'[k] # "delete"
          /\ dbOrder'[o] = "COMPLETED" <=> dbOrder[o] = "COMPLETED"
      BY <1>2, <2>1, <2>6, Identifiers
         DEF CancelMove, RequestCancel, CancelStep, CheckPending,
             PersistCancelled, TakeReleaseJob, OrderCodeFree, TypeOK, redis,
             database
    <3>2. \A l \in Callers : cancel'[l] = "delete" <=> cancel[l] = "delete"
      BY <1>2, <3>1, CancelMoveFrame
    <3>3. TakenOut(o)' <=> TakenOut(o)
      BY <2>1, <3>1, <3>2 DEF TakenOut, Returned, Committing
    <3> QED  BY <2>0, <2>1, <2>2, <3>1, <3>3 DEF Out
  <2> QED  BY <2>4, <2>5, <2>6
<1>3. ASSUME NEW j \in Jobs, JobMove(j)
      PROVE  /\ UNCHANGED <<Out, Reserved, available>>
             /\ \/ Fulfilled' = Fulfilled
                \/ \E p \in Out \ Fulfilled : Fulfilled' = Fulfilled \cup {p}
  <2> DEFINE o == OrderOf(j)
  <2>1. /\ o \in Orders /\ UNCHANGED <<checkout, cancel, available>>
        /\ checkout[o] \in PastReserve
    BY <1>3, JobMoveFrame, Identifiers
  <2>2. ASSUME NEW p \in Orders \ {o} PROVE TakenOut(p)' <=> TakenOut(p)
    <3>1. dbOrder'[p] = dbOrder[p] /\ orderKey'[p] = orderKey[p]
      BY <1>3, JobMoveFrame
    <3>2. \A i \in Jobs : OrderOf(i) = p => job'[i] = job[i]
      BY <1>3, JobMoveFrame
    <3> QED  BY <2>1, <3>1, <3>2 DEF TakenOut, Returned, Committing
  <2>3. TakenOut(o)' <=> TakenOut(o)
    <3>1. CASE MarkCompleted(j)
      <4>1. job[j] = "mark" /\ job'[j] = "commit"
        BY <3>1 DEF MarkCompleted, Step, TypeOK
      <4>2. orderKey[o] = "PENDING" /\ j \in RunningJobs
        BY <4>1 DEF StillPending, RunningJobs, JobRunning
      <4>3. ~Returned(o)
        BY <4>2 DEF Returned, Alone, RunningCancels, CancelRunning
      <4>4. Committing(o)'
        BY <4>1 DEF Committing
      <4> QED  BY <2>1, <4>2, <4>3, <4>4 DEF TakenOut
    <3>2. CASE CommitOrder(j)
      <4>1. job[j] = "commit" /\ dbOrder[o] = "none"
        BY <3>2 DEF CommitOrder, LifecycleInvariant, StageMatchesRows
      <4>2. Committing(o) /\ dbOrder'[o] = "COMPLETED"
        BY <2>1, <3>2, <4>1 DEF CommitOrder, OrderCodeFree, Committing, TypeOK
      <4> QED  BY <2>1, <4>2 DEF TakenOut
    <3>3. CASE CleanUp(j)
      <4>1. job[j] = "cleanup" /\ dbOrder' = dbOrder
        BY <3>3 DEF CleanUp, Step, database
      <4>2. dbOrder[o] = "COMPLETED"
        BY <4>1 DEF LifecycleInvariant, StageMatchesRows
      <4> QED  BY <2>1, <4>1, <4>2 DEF TakenOut
    <3>4. CASE ~MarkCompleted(j) /\ ~CommitOrder(j) /\ ~CleanUp(j)
      <4>1. /\ UNCHANGED <<orderKey, dbOrder>>
            /\ job'[j] = "commit" <=> job[j] = "commit"
        BY <1>3, <3>4
           DEF JobMove, HandleCallback, TestCreatePaymentLink, JobStep,
               ProcessTransaction, ChargeTransaction, VerifyPending,
               NotifyCustomer, AddTransactionToQueue, RetryOrFail, Step, TypeOK,
               redis, queue, database
      <4>2. \A i \in Jobs : job'[i] = "commit" <=> job[i] = "commit"
        BY <1>3, <4>1, JobMoveFrame
      <4> QED  BY <2>1, <4>1, <4>2 DEF TakenOut, Returned, Committing
    <3> QED  BY <3>1, <3>2, <3>3, <3>4
  <2>4. UNCHANGED <<Out, Reserved, available>>
    BY <2>1, <2>2, <2>3 DEF Out, Reserved
  <2>5. CASE CommitOrder(j)
    <3>1. job[j] = "commit" /\ dbOrder[o] = "none"
      BY <2>5 DEF CommitOrder, LifecycleInvariant, StageMatchesRows
    <3>2. dbOrder' = [dbOrder EXCEPT ![o] = "COMPLETED"]
      BY <2>5, <3>1 DEF CommitOrder, OrderCodeFree
    <3>3. o \in Out
      BY <2>1, <3>1 DEF Out, TakenOut, Committing
    <3>4. o \notin Fulfilled /\ Fulfilled' = Fulfilled \cup {o}
      BY <2>1, <3>1, <3>2 DEF Fulfilled, TypeOK
    <3> QED  BY <2>4, <3>3, <3>4
  <2>6. CASE ~CommitOrder(j)
    <3>1. dbOrder' = dbOrder
      BY <1>3, <2>6
         DEF JobMove, HandleCallback, TestCreatePaymentLink, JobStep,
             ProcessTransaction, ChargeTransaction, VerifyPending, MarkCompleted,
             NotifyCustomer, CleanUp, RetryOrFail, Step, database
    <3>2. Fulfilled' = Fulfilled
      BY <3>1 DEF Fulfilled
    <3> QED  BY <2>4, <3>2
  <2> QED  BY <2>5, <2>6
<1>4. CASE UNCHANGED <<checkout, orderKey, available, cancel, job, dbOrder>>
  BY <1>4 DEF Out, TakenOut, Returned, Committing, Reserved, Fulfilled
<1> QED  BY <1>1, <1>2, <1>3, <1>4, Moves
\* A reservation moves its tickets out of the availability, a release back.
LEMMA StockTakenStep ==
  ASSUME NoFailures, TypeOK, LifecycleInvariant, KnownWhenReserved, Alone,
         StillPending, StockTaken, [Next]_vars
  PROVE  StockTaken'
<1> SUFFICES ASSUME NEW c \in Classes
             PROVE  /\ IsFiniteSet(TicketsOf(Out, c)')
                    /\ available'[c] + QuantityOver(Out, c)' = Total[c]
    BY CartsAssumption DEF StockTaken
<1>1. /\ TicketsOf(Out, c)' = TicketsOf(Out', c)
      /\ QuantityOver(Out, c)' = QuantityOver(Out', c)
  BY RequestKept DEF TicketsOf, QuantityOver, Quantity
<1>2. /\ IsFiniteSet(TicketsOf(Out, c)) /\ QuantityOver(Out, c) \in Nat
      /\ available[c] + QuantityOver(Out, c) = Total[c]
  BY FS_CardinalityType DEF StockTaken, QuantityOver
<1>3. available[c] \in Int /\ Out \in SUBSET Orders
  BY DEF TypeOK, Out
<1>4. CASE Out' = Out /\ available' = available
  BY <1>1, <1>2, <1>4
<1>5. ASSUME NEW o \in Orders \ Reserved, ReserveTickets(o), Sufficient(o),
             Out' = Out \cup {o}
      PROVE  /\ IsFiniteSet(TicketsOf(Out', c))
             /\ available'[c] + QuantityOver(Out', c) = Total[c]
  <2>1. /\ IsFiniteSet(TicketsOf(Out \cup {o}, c))
        /\ QuantityOver(Out \cup {o}, c) = QuantityOver(Out, c) + Quantity(o)[c]
    <3>1. o \notin Out
      BY DEF Out, TakenOut, Reserved
    <3> QED  BY <1>2, <1>3, <3>1, TicketsAddOne
  <2>2. available'[c] = available[c] - Quantity(o)[c] /\ Quantity(o)[c] \in Nat
    BY <1>5, QuantityType DEF ReserveTickets, TakeTickets
  <2> QED  BY <1>2, <1>3, <1>5, <2>1, <2>2
<1>6. ASSUME NEW o \in Out, ReturnTickets(o), Out' = Out \ {o}
      PROVE  /\ IsFiniteSet(TicketsOf(Out', c))
             /\ available'[c] + QuantityOver(Out', c) = Total[c]
  <2>1. /\ IsFiniteSet(TicketsOf(Out \ {o}, c))
        /\ QuantityOver(Out \ {o}, c) = QuantityOver(Out, c) - Quantity(o)[c]
    BY <1>2, <1>3, TicketsTakeOne
  <2>2. available'[c] = available[c] + Quantity(o)[c] /\ Quantity(o)[c] \in Nat
    BY <1>3, <1>6, QuantityType DEF ReturnTickets
  <2> QED  BY <1>2, <1>3, <1>6, <2>1, <2>2
<1> QED  BY <1>1, <1>4, <1>5, <1>6, OutMoves

LEMMA InitStockTaken == Init => KnownWhenReserved /\ StillPending /\ StockTaken
<1> SUFFICES ASSUME Init PROVE KnownWhenReserved /\ StillPending /\ StockTaken
    OBVIOUS
<1>1. KnownWhenReserved /\ StillPending
  BY Identifiers DEF Init, KnownWhenReserved, StillPending, PastReserve
<1>2. Out = {}
  BY DEF Init, Out, TakenOut, PastReserve
<1>3. \A c \in Classes : IsFiniteSet(TicketsOf({}, c)) /\ QuantityOver({}, c) = 0
  BY NoTickets
<1>4. \A c \in Classes : available[c] = Total[c] /\ Total[c] \in Nat
  BY CartsAssumption DEF Init
<1> QED  BY <1>1, <1>2, <1>3, <1>4 DEF StockTaken

\* Between handlers what is taken out is held or sold, and nothing is both.
LEMMA TakenIsHeldOrSold ==
  ASSUME TypeOK, LifecycleInvariant, KnownWhenReserved, SoldInvariant, StockTaken
  PROVE  StockAccounted
<1> SUFFICES ASSUME Quiescent, NEW c \in Classes
             PROVE  available[c] + QuantityOver(Holding, c) + soldQuantity[c]
                      = Total[c]
    BY DEF StockAccounted
<1>1. \A o \in Orders : ~Returned(o) /\ ~Committing(o)
  BY DEF Quiescent, Returned, Committing, RunningCancels, RunningJobs,
         CancelRunning, JobRunning
<1>2. Fulfilled \subseteq {o \in Orders : checkout[o] \in PastReserve}
  BY DEF KnownWhenReserved, Fulfilled
<1>3. Out = Holding \cup Fulfilled
  BY <1>1, <1>2 DEF Out, TakenOut, Holding, Fulfilled, PastReserve
<1>4. Holding \cap Fulfilled = {}
  BY DEF Holding, Fulfilled, LifecycleInvariant, SettledNotPending
<1>5. IsFiniteSet(TicketsOf(Holding, c)) /\ IsFiniteSet(TicketsOf(Fulfilled, c))
  BY <1>3, TicketsPart DEF StockTaken
<1>6. QuantityOver(Out, c) = QuantityOver(Holding, c) + QuantityOver(Fulfilled, c)
  BY <1>3, <1>4, <1>5, TicketsAdd DEF Holding, Fulfilled
<1>7. QuantityOver(Holding, c) \in Nat /\ QuantityOver(Fulfilled, c) \in Nat
  BY <1>5, FS_CardinalityType DEF QuantityOver
<1>8. available[c] \in Int
  BY DEF TypeOK
<1>9. soldQuantity[c] = QuantityOver(Fulfilled, c)
  BY DEF SoldInvariant
<1>10. available[c] + QuantityOver(Out, c) = Total[c]
  BY DEF StockTaken
<1> QED  BY <1>6, <1>7, <1>8, <1>9, <1>10

\* While nothing fails, handlers that run one after the other keep every ticket
\* in one account: available, held by a pending order, or sold.
THEOREM SerialStockIsAccounted ==
  ASSUME NoFailures
  PROVE  SerialSpec => []StockAccounted
<1> DEFINE Known == KnownWhenReserved /\ StillPending /\ StockTaken
<1>1. SerialSpec => [](TypeOK /\ LifecycleInvariant /\ SoldInvariant)
  BY SerialRefinesSpec, TypeCorrect, LifecycleInvariantHolds,
     SoldInvariantHolds, PTL
<1>2. [SerialNext]_vars => [Next]_vars
  BY DEF SerialNext
<1>3. TypeOK /\ LifecycleInvariant /\ Alone /\ Known /\ [Next]_vars => Known'
  BY KnownStep, StillPendingStep, StockTakenStep
<1>4. Init => Known
  BY InitStockTaken
<1>5. SerialSpec => []Known
  <2> HIDE DEF Known
  <2> QED  BY <1>1, <1>2, <1>3, <1>4, HandlersAreAlone, PTL DEF SerialSpec
<1>6. TypeOK /\ LifecycleInvariant /\ SoldInvariant /\ Known => StockAccounted
  BY TakenIsHeldOrSold
<1> QED
  <2> HIDE DEF Known
  <2> QED  BY <1>1, <1>5, <1>6, PTL

-----------------------------------------------------------------------------
(* The stock ledger *)

\* Which step of the ledger a step of the handlers is.
LEMMA StockLedgerStep ==
  ASSUME NoFailures, OneLinePerClass, TypeOK, LifecycleInvariant,
         KnownWhenReserved, KnownWhenReserved', Alone, StillPending, SeenFresh,
         [Next]_vars
  PROVE  [Stock!Next]_(Stock!vars)
<1> DEFINE asked == [o \in Orders |-> Quantity(o)]
           place == [o \in Orders |-> PlaceOf(o)]
<1>1. asked' = asked
  BY RequestKept DEF Quantity
<1>2. /\ Fulfilled \subseteq Out /\ Out \subseteq Reserved
      /\ Fulfilled' \subseteq Out' /\ Out' \subseteq Reserved'
  BY DEF KnownWhenReserved, Fulfilled, Out, TakenOut, Reserved
<1>3. Out \subseteq Orders
  BY DEF Out
<1>4. CASE UNCHANGED <<Out, Reserved, available, Fulfilled>>
  <2>1. place' = place
    BY <1>4 DEF PlaceOf
  <2> QED  BY <1>1, <1>4, <2>1 DEF Stock!vars
<1>5. ASSUME UNCHANGED <<Out, Reserved, available>>,
             NEW o \in Out \ Fulfilled, Fulfilled' = Fulfilled \cup {o}
      PROVE  Stock!Sell(o)
  <2>1. o \in Orders /\ place[o] = "held"
    BY <1>5, <1>3 DEF PlaceOf
  <2>2. place' = [place EXCEPT ![o] = "sold"]
    <3>1. \A p \in Orders \ {o} : PlaceOf(p)' = PlaceOf(p)
      BY <1>5 DEF PlaceOf
    <3>2. PlaceOf(o)' = "sold"
      BY <1>5 DEF PlaceOf
    <3> QED  BY <3>1, <3>2
  <2> QED  BY <1>1, <1>5, <2>1, <2>2 DEF Stock!Sell
<1>6. ASSUME NEW o \in Orders \ Reserved, ReserveTickets(o), Sufficient(o),
             Out' = Out \cup {o}, Reserved' = Reserved \cup {o},
             Fulfilled' = Fulfilled
      PROVE  Stock!Hold(o)
  <2>1. place[o] = "stock"
    BY <1>2 DEF PlaceOf
  <2>2. place' = [place EXCEPT ![o] = "held"]
    <3>1. \A p \in Orders \ {o} : PlaceOf(p)' = PlaceOf(p)
      BY <1>6 DEF PlaceOf
    <3>2. PlaceOf(o)' = "held"
      BY <1>2, <1>6 DEF PlaceOf
    <3> QED  BY <3>1, <3>2
  <2>3. \A c \in Classes : asked[o][c] <= available[c]
    <3> SUFFICES ASSUME NEW c \in Classes PROVE Quantity(o)[c] <= available[c]
        OBVIOUS
    <3>1. available[c] >= LargestLine(o)[c]
      BY <1>6 DEF ReserveTickets, SeenFresh, Sufficient
    <3>2. LargestLine(o)[c] = Quantity(o)[c]
      BY DEF OneLinePerClass, LargestLine, Quantity, TypeOK
    <3>3. Quantity(o)[c] \in Nat /\ available[c] \in Int
      BY QuantityType DEF TypeOK
    <3> QED  BY <3>1, <3>2, <3>3
  <2>4. available' = [c \in Classes |-> available[c] - asked[o][c]]
    BY <1>6 DEF ReserveTickets, TakeTickets
  <2> QED  BY <1>1, <2>1, <2>2, <2>3, <2>4 DEF Stock!Hold
<1>7. ASSUME NEW o \in Out \ Fulfilled, ReturnTickets(o),
             Out' = Out \ {o}, UNCHANGED <<Reserved, Fulfilled>>
      PROVE  Stock!Return(o)
  <2>1. o \in Orders /\ place[o] = "held"
    BY <1>7, <1>3 DEF PlaceOf
  <2>2. place' = [place EXCEPT ![o] = "returned"]
    <3>1. \A p \in Orders \ {o} : PlaceOf(p)' = PlaceOf(p)
      BY <1>7 DEF PlaceOf
    <3>2. PlaceOf(o)' = "returned"
      BY <1>2, <1>7 DEF PlaceOf
    <3> QED  BY <3>1, <3>2
  <2>3. available' = [c \in Classes |-> available[c] + asked[o][c]]
    BY <1>7, <2>1 DEF ReturnTickets
  <2> QED  BY <1>1, <2>1, <2>2, <2>3 DEF Stock!Return
<1> QED
  BY <1>4, <1>5, <1>6, <1>7, <1>3, OutMoves DEF Stock!Next

LEMMA InitStockLedger == Init => Stock!Init
<1> SUFFICES ASSUME Init PROVE Stock!Init
    OBVIOUS
<1>1. TypeOK
  BY InitTypeOK
<1>2. \A o \in Orders : Quantity(o) \in [Classes -> Nat]
  BY <1>1, CartsAssumption DEF Quantity, TypeOK
<1>3. Reserved = {} /\ Out = {} /\ Fulfilled = {}
  BY DEF Init, Reserved, Out, TakenOut, Fulfilled, PastReserve
<1>4. \A o \in Orders : PlaceOf(o) = "stock"
  BY <1>3 DEF PlaceOf
<1>5. available = Total
  BY DEF Init
<1> QED  BY <1>2, <1>4, <1>5 DEF Stock!Init

\* One handler after the other, while nothing fails and for carts of one line
\* for a class, is the stock ledger: an order takes its tickets once and only
\* when there are enough, and keeps them or gives them back once.
THEOREM SerialImplementsStock ==
  ASSUME NoFailures, OneLinePerClass
  PROVE  SerialSpec => ImplementsStock
<1> DEFINE Known == KnownWhenReserved /\ StillPending /\ SeenFresh
<1>1. SerialSpec => [](TypeOK /\ LifecycleInvariant)
  BY SerialRefinesSpec, TypeCorrect, LifecycleInvariantHolds, PTL
<1>2. [SerialNext]_vars => [Next]_vars
  BY DEF SerialNext
<1>3. TypeOK /\ LifecycleInvariant /\ Alone /\ Known /\ [Next]_vars => Known'
  BY KnownStep, StillPendingStep, SeenFreshStep
<1>4. Init => Known
  BY InitStockTaken DEF Init, SeenFresh
<1>5. SerialSpec => []Known
  <2> HIDE DEF Known
  <2> QED  BY <1>1, <1>2, <1>3, <1>4, HandlersAreAlone, PTL DEF SerialSpec
<1>6. TypeOK /\ LifecycleInvariant /\ Alone /\ Known /\ Known' /\ [Next]_vars
        => [Stock!Next]_(Stock!vars)
  BY StockLedgerStep
<1> QED
  <2> HIDE DEF Known
  <2> QED  BY <1>1, <1>2, <1>5, <1>6, InitStockLedger, HandlersAreAlone, PTL
           DEF SerialSpec, ImplementsStock, Stock!Spec
=============================================================================
