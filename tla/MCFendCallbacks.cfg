CONSTANTS
  c1 = c1
  c2 = c2
  Nil = Nil
  Clients <- TwoClients
  Data <- TwoData
  Params <- OneParam
  Ops <- SettersOnly
  CallbackOps <- CbAllOps
SPECIFICATION Spec
SYMMETRY Symmetry
INVARIANTS TypeOK ReplacedSilent
