----------------------------- MODULE OrderStock -----------------------------
(***************************************************************************)
(* The stock of an event over all its orders: what the Redis counters and  *)
(* the sold quantities mean.  Two of the laws hold in every execution, the *)
(* others only when one handler at a time runs to its end, which is what   *)
(* the code was written for: SerialSpec.                                   *)
(***************************************************************************)
EXTENDS OrderLifecycle

\* The tickets of class c that a set of orders asks for, counted per order.
TicketsOf(S, c) == UNION {{o} \X (1 .. Quantity(o)[c]) : o \in S}
QuantityOver(S, c) == Cardinality(TicketsOf(S, c))

\* The orders whose tickets are taken from the stock for good, and those that
\* hold them until they are paid or released.
Fulfilled == {o \in Orders : dbOrder[o] = "COMPLETED"}
PastReserve == {"schedule", "link", "done", "unlinked"}
Holding ==
  {o \in Orders : orderKey[o] = "PENDING" /\ checkout[o] \in PastReserve}

\* The sold quantity of a class is what its completed orders bought, with
\* repeated jobs, retries, cancellations and a crash in between.
SoldMatchesOrders ==
  \A c \in Classes : soldQuantity[c] = QuantityOver(Fulfilled, c)

-----------------------------------------------------------------------------
RunningCheckouts == {o \in Orders : checkout[o] \in CheckoutRunning}
RunningCancels == {k \in Callers : cancel[k] \in CancelRunning}
RunningJobs == {j \in Jobs : job[j] \in JobRunning}

Quiescent == RunningCheckouts \cup RunningCancels \cup RunningJobs = {}

\* No handler starts while another is between its awaits.
OneHandler ==
  Cardinality(RunningCheckouts) + Cardinality(RunningCancels)
    + Cardinality(RunningJobs) <= 1

SerialNext == Next /\ OneHandler'
SerialSpec == Init /\ [][SerialNext]_vars

\* reserveTickets answers "Insufficient tickets for class": the availability
\* of a class never drops below zero.
NeverOversold == \A c \in Classes : available[c] >= 0

\* Between handlers the tickets of a class are available, held by a pending
\* order or sold, and no ticket is two of these.
StockAccounted ==
  Quiescent => \A c \in Classes :
    available[c] + QuantityOver(Holding, c) + soldQuantity[c] = Total[c]
-----------------------------------------------------------------------------
(* The serial handlers as accounts of the stock *)

\* The tickets of an order are out of the availability from its reservation
\* until they are given back: while it is PENDING, while it is being committed
\* and after that for good.
Returned(o) == \E k \in Callers : OrderOf(k) = o /\ cancel[k] = "delete"
Committing(o) == \E j \in Jobs : OrderOf(j) = o /\ job[j] = "commit"
TakenOut(o) ==
  /\ checkout[o] \in PastReserve
  /\ \/ orderKey[o] = "PENDING" /\ ~Returned(o)
     \/ Committing(o)
     \/ dbOrder[o] = "COMPLETED"

\* The orders that have reserved tickets, and those of them that have not given
\* them back.
Reserved == {o \in Orders : checkout[o] \in PastReserve}
Out == {o \in Orders : TakenOut(o)}

PlaceOf(o) ==
  IF o \in Fulfilled THEN "sold"
  ELSE IF o \in Out THEN "held"
  ELSE IF o \in Reserved THEN "returned"
  ELSE "stock"

Stock == INSTANCE StockLedger WITH
           asked <- [o \in Orders |-> Quantity(o)],
           free <- available,
           place <- [o \in Orders |-> PlaceOf(o)]

\* One handler after the other, an order takes its tickets at most once and
\* only when there are enough, and keeps them or gives them back once: no
\* release returns what was sold, none returns it again.
ImplementsStock == Stock!Spec
=============================================================================
