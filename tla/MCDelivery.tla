----------------------------- MODULE MCDelivery ------------------------------
(* Delivery in a house with one client, over two workers or one.              *)
EXTENDS Delivery, TLC

CONSTANTS w1, w2, ann

MCWorkers == {w1, w2}

=============================================================================
