----------------------------- MODULE MCDelivery -----------------------------
(* A small instance of Delivery: two sockets that may overlap or follow each  *)
(* other, two subscriptions, two frames, and a buffer that one frame fills.   *)
EXTENDS Delivery

Subs == 1..2
=============================================================================
