--------------------------- MODULE TriageRequests ---------------------------
(* What the Phase-1 coalescer promises its callers: the un-coalesced         *)
(* contract of `triage_titles` (services/relevance/title_triage.py), seen    *)
(* from one caller.  A caller that asks for its titles is answered once,     *)
(* either with verdicts indexed 1..n into ITS OWN titles or with "deferred"  *)
(* (result None); it may also be cancelled while it waits.  Several callers  *)
(* may be answered in one step.                                              *)
EXTENDS Naturals

CONSTANTS Callers,      \* batches of titles the poller submits in one cycle
          MaxTitles     \* the largest batch a caller submits

VARIABLES size,         \* number of titles of each caller (0: not submitted)
          status,       \* "idle", "waiting", "served", "deferred", "gone"
          verdicts      \* caller -> (index -> the title the verdict is about)

vars == <<size, status, verdicts>>

NoVerdicts == [i \in {} |-> <<>>]

Init == /\ size = [r \in Callers |-> 0]
        /\ status = [r \in Callers |-> "idle"]
        /\ verdicts = [r \in Callers |-> NoVerdicts]

Ask(r) == /\ status[r] = "idle"
          /\ \E n \in 1 .. MaxTitles : size' = [size EXCEPT ![r] = n]
          /\ status' = [status EXCEPT ![r] = "waiting"]
          /\ UNCHANGED verdicts

(* One answer resolves a set of waiting callers.  A verdict the model left   *)
(* out is simply missing from that caller's map.                             *)
Answer == \E S \in SUBSET {r \in Callers : status[r] = "waiting"} :
            /\ S # {}
            /\ status' = [r \in Callers |-> IF r \in S THEN "served" ELSE status[r]]
            /\ \E D \in [S -> SUBSET (1 .. MaxTitles)] :
                 /\ \A r \in S : D[r] \subseteq 1 .. size[r]
                 /\ verdicts' = [r \in Callers |->
                                   IF r \in S THEN [i \in D[r] |-> <<r, i>>]
                                              ELSE verdicts[r]]
            /\ UNCHANGED size

GiveUp == \E S \in SUBSET {r \in Callers : status[r] = "waiting"}, o \in {"deferred", "gone"} :
            /\ S # {}
            /\ status' = [r \in Callers |-> IF r \in S THEN o ELSE status[r]]
            /\ UNCHANGED <<size, verdicts>>

Next == (\E r \in Callers : Ask(r)) \/ Answer \/ GiveUp

Spec == Init /\ [][Next]_vars
=============================================================================
