SPECIFICATION FairSpec
CONSTANTS
  Central = Central
  Peripheral = Peripheral
  L2capQueueDepth = 1
  Requests <- PhyRequest
  Faults <- LinkFaults
  MaxL2cap <- QueueFills
  MaxRequests = 1
INVARIANT AnswerCarriesCurrentNesn
PROPERTY L2capDelivered
