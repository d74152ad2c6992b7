CONSTANTS
  NFilter = 2
  NChannel = 2
  p1 = p1
  p2 = p2
  Pids <- TwoPids
  Tables <- OneTable
  Kinds <- SecOnly
  MaxSections = 2
  Faults <- NoFault
  ClientOps <- SyncOps
  CallbackOps <- FewOps
  NoPid = NoPid
  Nil = Nil
SPECIFICATION Spec
INVARIANT SyncedSilent
