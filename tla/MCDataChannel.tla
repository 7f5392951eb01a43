--------------------------- MODULE MCDataChannel ---------------------------
(***************************************************************************)
(* TLC instances of DataChannel.  The sets of faults distinguish the runs. *)
(***************************************************************************)
EXTENDS DataChannelInv

\* Every fault, the opening CRC error and a one-sided disconnection included.
AllFaults == FaultKinds
\* A link whose first packet, once heard, is heard intact.
LinkFaults == {"loss", "crcCentral", "crcPeripheral"}
\* The first packets the peripheral hears may be corrupted, and nothing else.
OpeningFaults == {"crcOpening"}

ProcedureRequests == {"FEATURE_REQ", "PHY_REQ"}
\* Payloads: one of the central, and of the peripheral one more than its
\* queue holds, ...
QueueFills == [n \in Node |-> IF n = Central THEN 1 ELSE L2capQueueDepth + 1]
\* ... or of the peripheral alone.
PeripheralFills == [n \in Node |-> IF n = Central THEN 0 ELSE L2capQueueDepth + 1]
\* One payload each.
OnePayload == [n \in Node |-> 1]
PhyRequest == {"PHY_REQ"}
=============================================================================
