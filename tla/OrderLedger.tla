---------------------------- MODULE OrderLedger ----------------------------
(***************************************************************************)
(* What the order service promises about the money and the tickets of an   *)
(* order, whatever the queues, the caches and the concurrent handlers do:  *)
(* the order's single transaction code is either charged or voided, never  *)
(* both; the tickets of the order are issued once, and only after the      *)
(* charge; the confirmation is queued once, and only after the tickets     *)
(* exist.  OrderLifecycle is shown to implement this specification.        *)
(***************************************************************************)
EXTENDS Naturals

CONSTANT Orders

VARIABLES
  ledger,  \* ledger[o]: how far the order's transaction code has come
  issued,  \* issued[o]: how many times a batch of tickets was issued for o
  mailed   \* mailed[o]: how many confirmations were queued for o

vars == <<ledger, issued, mailed>>

LedgerState == {"open", "charged", "fulfilled", "voided"}

\* Each order has one entry and counts of what was handed out for it.
TypeOK ==
  /\ ledger \in [Orders -> LedgerState]
  /\ issued \in [Orders -> Nat]
  /\ mailed \in [Orders -> Nat]

Init ==
  /\ ledger = [o \in Orders |-> "open"]
  /\ issued = [o \in Orders |-> 0]
  /\ mailed = [o \in Orders |-> 0]

(* The transaction of a paid order is recorded. *)
Charge(o) ==
  /\ ledger[o] = "open"
  /\ ledger' = [ledger EXCEPT ![o] = "charged"]
  /\ UNCHANGED <<issued, mailed>>

(* The order is recorded as completed together with its tickets. *)
Fulfil(o) ==
  /\ ledger[o] = "charged"
  /\ ledger' = [ledger EXCEPT ![o] = "fulfilled"]
  /\ issued' = [issued EXCEPT ![o] = @ + 1]
  /\ UNCHANGED mailed

(* The order is recorded as cancelled, and its transaction with it. *)
Void(o) ==
  /\ ledger[o] = "open"
  /\ ledger' = [ledger EXCEPT ![o] = "voided"]
  /\ UNCHANGED <<issued, mailed>>

(* The confirmation of a completed order goes to the e-mail queue. *)
Confirm(o) ==
  /\ ledger[o] = "fulfilled"
  /\ mailed[o] = 0
  /\ mailed' = [mailed EXCEPT ![o] = 1]
  /\ UNCHANGED <<ledger, issued>>

Next == \E o \in Orders : Charge(o) \/ Fulfil(o) \/ Void(o) \/ Confirm(o)

Spec == Init /\ [][Next]_vars
=============================================================================
