----------------------------- MODULE MCEvtUsers -----------------------------
(* Instances of Evt and DmxUsers for TLC: the constants of the run.        *)
EXTENDS EvtUsers, MCEvt

CONSTANTS d1, d2

TwoDvrUsers == {d1, d2}

(* The users of the recorder do the same.                                  *)
DvrSymmetry == Permutations(TwoDvrUsers)
=============================================================================
