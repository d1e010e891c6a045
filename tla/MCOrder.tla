------------------------------ MODULE MCOrder -------------------------------
(***************************************************************************)
(* Instances of the order life cycle for TLC: one class or two, carts of   *)
(* one line, of two classes, and of two lines of the same class.           *)
(***************************************************************************)
EXTENDS OrderStock, TLC

\* Carts are numbered by the tickets they ask for of each class.
PairTotal == [c \in Classes |-> 2]
SingleTotal == [c \in Classes |-> 1]
QuadTotal == [c \in Classes |-> 4]
CartNumber == [x \in Carts |-> [c \in Classes |-> x]]

\* The tickets of a class on lines of one ticket each.
OneTicketLines == [x \in Carts |-> [c \in Classes |-> 1]]

Symmetry == Permutations(Orders) \cup Permutations(Classes)
=============================================================================
