CONSTANTS
  c1 = c1
  c2 = c2
  Nil = Nil
  Clients <- TwoClients
  Data <- OneDatum
  Params <- TwoParams
  Ops <- TwoLockers
  CallbackOps <- NoOps
SPECIFICATION Spec
PROPERTY LockReturnsStatus
