---------------------------- MODULE MCMemberships ---------------------------
(* Two users with a plan of one active target, an ordinary target and a      *)
(* sponsored one, and two requests or background tasks at a time.            *)
EXTENDS Memberships, TLC

CONSTANTS u1, u2, t1, t2, k1, k2

TwoUsers == {u1, u2}
TwoTargets == {t1, t2}
SecondTarget == {t2}
TwoTasks == {k1, k2}
CapOfOne == [u \in TwoUsers |-> 1]

(* Users differ in nothing, and task names are only names; the targets are   *)
(* told apart by Sponsored.  Only invariants are checked.                    *)
Interchangeable == Permutations(TwoUsers) \union Permutations(TwoTasks)
=============================================================================
