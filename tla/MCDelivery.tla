------------------------------ MODULE MCDelivery ------------------------------
(* Delivery for TLC: an order and its cancellation to one destination. *)
EXTENDS Delivery

CONSTANT d1

OneRoute == [m \in Messages |-> d1]
=============================================================================
