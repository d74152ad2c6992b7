------------------------------ MODULE MCDmxSw ------------------------------
(* Instances of DmxSw for TLC: the constants of the runs.                  *)
EXTENDS DmxSw, TLC

CONSTANTS p1, p2
TwoPids   == {p1, p2}
Symmetry  == Permutations(TwoPids)
OneTable  == {"t1"}
SecOnly   == {"sec"}
BothKinds == {"sec", "pes"}
NoFault   == {}
TapFault  == {"tap"}
SyncOps   == AllOps
NoSyncOps == AllOps \ {"sync"}
NoOps     == {}
FewOps    == {"stop", "start", "free"}
=============================================================================
