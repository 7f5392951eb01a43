SPECIFICATION FairSpec
CONSTANTS
  Central = Central
  Peripheral = Peripheral
  L2capQueueDepth = 1
  Requests <- PhyRequest
  Faults <- OpeningFaults
  MaxL2cap <- OnePayload
  MaxRequests = 0
PROPERTY L2capDelivered
