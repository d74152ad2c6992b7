CONSTANTS
  NFilter = 2
  NChannel = 2
  p1 = p1
  p2 = p2
  Pids <- TwoPids
  Tables <- OneTable
  Kinds <- BothKinds
  MaxSections = 2
  Faults <- NoFault
  ClientOps <- SyncOps
  CallbackOps <- FewOps
  NoPid = NoPid
  Nil = Nil
SPECIFICATION Spec
SYMMETRY Symmetry
INVARIANTS TypeOK ChannelRefs TapsMatch
CHECK_DEADLOCK FALSE
