------------------------------ MODULE MCFend ------------------------------
(* Instances of Fend for TLC: who calls what in the runs.                  *)
EXTENDS Fend, TLC

CONSTANTS c1, c2

TwoClients == {c1, c2}
OneClient  == {c1}
OneDatum   == {"d1"}
TwoData    == {"d1", "d2"}
OneParam   == {"p1"}
TwoParams  == {"p1", "p2"}

NoOps     == {}
CbAllOps  == {"setcb", "action", "para"}
CbTunes   == {"para"}

(* Callbacks are registered and replaced, nobody locks.                    *)
SettersOnly == [c \in TwoClients |-> AllOps \ {"lock"}]
(* One client locks; the other replaces and disables callbacks.            *)
OneLocker   == [c \in TwoClients |-> IF c = c1 THEN {"lock"} ELSE {"setcb", "action"}]
(* One client that locks, and may disable callbacks.                       *)
LockAction  == [c \in OneClient |-> {"lock", "action"}]
(* Both clients lock.                                                      *)
TwoLockers  == [c \in TwoClients |-> {"lock"}]

Symmetry == Permutations(TwoClients)
=============================================================================
