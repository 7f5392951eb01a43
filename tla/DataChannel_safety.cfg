SPECIFICATION Spec
CONSTANTS
  Central = Central
  Peripheral = Peripheral
  L2capQueueDepth = 2
  Requests <- ProcedureRequests
  Faults <- AllFaults
  MaxL2cap <- PeripheralFills
  MaxRequests = 2
INVARIANTS InOrderExactlyOnce L2capFifo SelectionStillPending ResponseSlotFree IInv
PROPERTY ImplementsReliableLink
CHECK_DEADLOCK FALSE
