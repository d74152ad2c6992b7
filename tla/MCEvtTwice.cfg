CONSTANTS
  t1 = t1
  t2 = t2
  Nil = Nil
  Threads <- TwoThreads
  Topics <- OneTopic
  Data <- OneDatum
  Callbacks <- OneCallback
  Uses <- Shared
  CallbackOps <- NoOps
  MaxDepth = 2
  MaxEvents = 3
SPECIFICATION Spec
INVARIANT NoDuplicates
