------------------------------ MODULE MCPollLock ----------------------------
(* Two replicas with a scheduler each, and a forced poll on the first.       *)
EXTENDS PollLock

CONSTANTS a, b, tickA, tickB, force, s1, s2

TwoTicks == {tickA, tickB}
OneTick == {tickA}
OneForce == {force}
WhereTwo == [w \in {tickA, tickB, force} |-> IF w = tickB THEN b ELSE a]
TwoSessions == {s1, s2}
=============================================================================
