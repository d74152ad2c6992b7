CONSTANTS
  c1 = c1
  c2 = c2
  Nil = Nil
  Clients <- TwoClients
  Data <- OneDatum
  Params <- TwoParams
  Ops <- OneLocker
  CallbackOps <- CbTunes
SPECIFICATION FairSpec
INVARIANTS NoLostWakeup FrameAlive
PROPERTIES LockReturnsStatus LockUndisturbedEnds CallsTerminate
