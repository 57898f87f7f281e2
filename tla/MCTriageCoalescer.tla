-------------------------- MODULE MCTriageCoalescer -------------------------
(* Two callers of one target and one of another, calls of at most two       *)
(* titles.  The lone caller has one.                                         *)
EXTENDS TriageCoalescer

CONSTANTS c1, c2, c3, tA, tB

ThreeCallers == {c1, c2, c3}
TwoTargets == {tA, tB}
LastOnB == [r \in ThreeCallers |-> IF r = c3 THEN tB ELSE tA]
OneForLast == [r \in ThreeCallers |-> IF r = c3 THEN 1 ELSE 2]
=============================================================================
