CONSTANTS
  c1 = c1
  c2 = c2
  Nil = Nil
  NFilter = 2
  Clients <- TwoClients
  Slots <- OneSlot
  Sources <- OneSource
  Faults <- NoFault
  CallbackOps <- CbFewOps
  Careless = FALSE
SPECIFICATION Spec
SYMMETRY Symmetry
INVARIANTS SyncedSilent NoStrayFilter ReferenceCount
PROPERTY DeliversToAllocator
CHECK_DEADLOCK FALSE
