------------------------------ MODULE MCDelivery ------------------------------
(***************************************************************************)
(* Every flow is of the one provider with a delivery.                       *)
(***************************************************************************)
EXTENDS Delivery

CONSTANTS f1, f2, gmail

MCOne == [f \in Flows |-> gmail]

=============================================================================
