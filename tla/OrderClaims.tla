---------------------------- MODULE OrderClaims -----------------------------
(***************************************************************************)
(* What the guards, comments and documentation of the repository say of an *)
(* order, where the handlers of OrderLifecycle do not live up to it once   *)
(* they interleave, fail or are restarted.  Each claim is checked by a run *)
(* of its own and found violated; PROJECT.json quotes the line it is from. *)
(***************************************************************************)
EXTENDS MCOrder

\* releaseTickets refuses an order that is not PENDING or "already completed":
\* tickets are given back once, and not once they are sold.
SoldNotForSale == \A c \in Classes : available[c] + soldQuantity[c] <= Total[c]

\* Cancellations past the check of releaseTickets and not yet over.
PastCheck(o) ==
  {k \in Callers : OrderOf(k) = o /\ cancel[k] \in {"release", "delete", "persist"}}

\* The transaction queue retries a job: an order whose charge has just been
\* recorded, while its hash is PENDING and no cancellation has passed its
\* check, is completed.
ChargedIsFulfilled ==
  \A o \in Orders :
    /\ \E j \in Jobs : OrderOf(j) = o /\ job[j] = "verify"
    /\ orderKey[o] = "PENDING"
    /\ PastCheck(o) = {}
    ~> dbOrder[o] = "COMPLETED"

\* The notification of a payment of the exact amount of the link is not
\* answered as one of a wrong amount.
PaidAmountAccepted == \A o \in Orders : reply[o] # "invalidAmount"
=============================================================================
