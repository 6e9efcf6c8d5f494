------------------------------ MODULE MCBroker ------------------------------
(* Instances of Broker for TLC: two grants, so that a collection of all can take *)
(* one and leave one, and a clock long enough for a TTL to be extended once.     *)
EXTENDS Broker
=============================================================================
