---------------------------- MODULE MCAttExchange ----------------------------
(***************************************************************************)
(* TLC instances of AttExchange: the tables of two servers.                *)
(***************************************************************************)
EXTENDS AttExchange

Counter == [wide |-> FALSE, cccd |-> TRUE]
Sensor == [wide |-> TRUE, cccd |-> TRUE]

\* A service of 16 bits, as peripheral_demo's, then one of 128 bits: the
\* services need two responses, all characteristics three.
NarrowFirst ==
    <<[uuid |-> "counter", wide |-> FALSE, chars |-> <<Counter>>],
      [uuid |-> "sensor", wide |-> TRUE, chars |-> <<Sensor>>]>>

\* The same services the other way round.
WideFirst == <<NarrowFirst[2], NarrowFirst[1]>>
=============================================================================
