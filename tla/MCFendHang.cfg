CONSTANTS
  c1 = c1
  c2 = c2
  Nil = Nil
  Clients <- OneClient
  Data <- OneDatum
  Params <- OneParam
  Ops <- LockAction
  CallbackOps <- NoOps
SPECIFICATION FairSpec
PROPERTY LockTerminates
