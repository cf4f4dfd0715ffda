------------------------------- MODULE MCBroker -------------------------------
(* TLC instances of Broker.                                                *)
EXTENDS Broker

Messages ==
  {[id |-> 1, priority |-> "HIGH", tier |-> 0], [id |-> 2, priority |-> "LOW", tier |-> 0],
   [id |-> 3, priority |-> "LOW", tier |-> 0], [id |-> 4, priority |-> "LOW", tier |-> 1],
   [id |-> 5, priority |-> "LOW", tier |-> 6]}
=============================================================================
