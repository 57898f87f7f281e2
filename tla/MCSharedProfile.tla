--------------------------- MODULE MCSharedProfile ---------------------------
(* Two requests at a time, over two JDs or over a JD and a patch.  Against a *)
(* quorum of one an up-vote is as good as none; two voters cast all three.   *)
EXTENDS SharedProfile, TLC

CONSTANTS r1, r2, j1, j2, p1, u1, u2

TwoRequests == {r1, r2}
TwoJDs == {j1, j2}
OnePatch == {p1}
TwoItems == {{j1, j2}, {j1, p1}, {j2, p1}}
OneJD == {{j1}, {j2}}
OneVoter == {u1}
TwoVoters == {u1, u2}
DownOrNone == {"down", "none"}
AllBallots == {"down", "up", "none"}

Interchangeable == Permutations(TwoRequests) \union Permutations(TwoJDs)
=============================================================================
