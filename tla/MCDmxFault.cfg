CONSTANTS
  c1 = c1
  c2 = c2
  Nil = Nil
  NFilter = 1
  Clients <- TwoClients
  Slots <- OneSlot
  Sources <- TwoSources
  Faults <- StopFault
  CallbackOps <- CbFilterOps
  Careless = FALSE
SPECIFICATION FairSpec
INVARIANTS SyncInv EnabledCanDeliver
PROPERTIES ImplementsContract CloseTerminates SyncTerminates
