------------------------------- MODULE MCDmx -------------------------------
(* Instances of Dmx for TLC: the constants of the runs.                    *)
EXTENDS Dmx, TLC

CONSTANTS c1, c2

OneClient  == {c1}
TwoClients == {c1, c2}
OneSlot    == {1}
TwoSlots   == {1, 2}
OneSource  == {"ts0"}
TwoSources == {"ts0", "ts1"}
NoFault    == {}
StopFault  == {"stop"}
CbFilterOps == {"alloc", "free", "start", "stop", "set", "callback"}
CbFewOps    == {"free", "stop", "start", "source"}
NoOps       == {}

Symmetry == Permutations(TwoClients)
=============================================================================
