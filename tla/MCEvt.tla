------------------------------- MODULE MCEvt -------------------------------
(* Instances of Evt for TLC: the constants of the runs.                    *)
EXTENDS Evt, TLC

CONSTANTS t1, t2

TwoThreads   == {t1, t2}
OneTopic     == {"status"}
TwoTopics    == {"status", "ca"}
OneDatum     == {"d1"}
TwoData      == {"d1", "d2"}
OneCallback  == {"f"}
TwoCallbacks == {"f", "g"}
NoOps        == {}
SignalOnly   == {"signal"}

(* Every callback is subscribed by one thread only.                        *)
Owners == [t \in TwoThreads |-> IF t = t1 THEN {"f"} ELSE {"g"}]
(* Both threads subscribe the same callback.                               *)
Shared == [t \in TwoThreads |-> {"f"}]
=============================================================================
