----------------------------- MODULE MCDelivery -----------------------------
(* Delivery with two rounds of three calls, or three calls of a handler; the   *)
(* server ends at most once.                                                  *)
EXTENDS Delivery

MCId == (0..(Rounds + 1) * Events) \X {1, 2}
=============================================================================
