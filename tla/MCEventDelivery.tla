-------------------------- MODULE MCEventDelivery --------------------------
(* TLC instances of event delivery. *)
EXTENDS EventDelivery
============================================================================
