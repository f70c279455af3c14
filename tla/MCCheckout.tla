----------------------------- MODULE MCCheckout -----------------------------
(* Purchases, with their calls and deliveries against each other. *)
EXTENDS Checkout

SomeOffers == {-1, 1, 2, 3}
=============================================================================
