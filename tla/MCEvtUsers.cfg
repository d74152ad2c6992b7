CONSTANTS
  t1 = t1
  t2 = t2
  Nil = Nil
  Threads <- TwoThreads
  Topics <- TwoTopics
  Data <- OneDatum
  Callbacks <- TwoCallbacks
  Uses <- Owners
  CallbackOps <- SignalOnly
  MaxDepth = 2
  MaxEvents = 4
  DemuxFilters = {0, 1}
  MaxStreams = 2
  NoFid = NoFid
  d1 = d1
  d2 = d2
  DvrUsers <- TwoDvrUsers
  MaxDvrCalls = 3
SYMMETRY DvrSymmetry
SPECIFICATION EvtUsersSpec
INVARIANTS NoDuplicates UnsubscribedSilent UsersKept
PROPERTY SignalReachesAll
