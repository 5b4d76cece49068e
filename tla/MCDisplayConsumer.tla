------------------------- MODULE MCDisplayConsumer -------------------------
(* DisplayConsumer for TLC: the faults its runs explore.                   *)
EXTENDS DisplayConsumer

\* What a producer does to the consumer, and what the system does to the app.
ProducerFaults == {"close", "stall", "desync"}
AllFaults == AnyFault
=============================================================================
