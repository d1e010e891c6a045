----------------------------- MODULE StockLedger -----------------------------
(***************************************************************************)
(* What the stock of an event promises when requests are served one after  *)
(* the other and nothing fails: an order takes its tickets out of the      *)
(* stock at most once, only as many as there are, and keeps them or gives  *)
(* them back once.  The serial handlers of OrderStock are shown to         *)
(* implement this specification.                                           *)
(***************************************************************************)
EXTENDS Integers

CONSTANTS Orders, Classes, Total

VARIABLES
  asked, \* asked[o]: the tickets that o is about, of each class
  free,  \* free[c]: the tickets of c that are for sale
  place  \* place[o]: where the tickets of o are

vars == <<asked, free, place>>

Place == {"stock", "held", "sold", "returned"}

Init ==
  /\ asked \in [Orders -> [Classes -> Nat]]
  /\ free = Total
  /\ place = [o \in Orders |-> "stock"]

(* A checkout reserves the tickets of an order. *)
Hold(o) ==
  /\ place[o] = "stock"
  /\ \A c \in Classes : asked[o][c] <= free[c]
  /\ place' = [place EXCEPT ![o] = "held"]
  /\ free' = [c \in Classes |-> free[c] - asked[o][c]]
  /\ UNCHANGED asked

(* An order that is not paid is cancelled. *)
Return(o) ==
  /\ place[o] = "held"
  /\ place' = [place EXCEPT ![o] = "returned"]
  /\ free' = [c \in Classes |-> free[c] + asked[o][c]]
  /\ UNCHANGED asked

(* An order that is paid is completed. *)
Sell(o) ==
  /\ place[o] = "held"
  /\ place' = [place EXCEPT ![o] = "sold"]
  /\ UNCHANGED <<asked, free>>

Next == \E o \in Orders : Hold(o) \/ Return(o) \/ Sell(o)

Spec == Init /\ [][Next]_vars
=============================================================================
