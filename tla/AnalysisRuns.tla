---------------------------- MODULE AnalysisRuns ----------------------------
(* Job analyses of one user (routers/analysis.py): a POST looks for a stored *)
(* analysis, claims its key, passes the daily limit and starts a detached    *)
(* task; the task calls the LLM, stores the record, logs its cost, ranks the *)
(* posting by it and clears the claim.  Each await is a place where another  *)
(* request may come in between.                                              *)
EXTENDS RunRegistry

CONSTANTS
    Requests,       \* POSTs that may be under way at once, with their tasks
    Limit,          \* analysis_daily_limit
    MaxTroubles,    \* bound: how many runs outlive their entry, cost rows fail
                    \* to be written and processes restart, in all
    Nothing         \* the key of a request that is not under way

ASSUME AnalysisAssumption ==
    /\ IsFiniteSet(Requests)
    /\ Limit \in Nat \ {0} /\ MaxTroubles \in Nat
    /\ Nothing \notin Keys

VARIABLES
    at,         \* where each request, and the task it started, is
    key,        \* the key it asks for
    others,     \* other_in_flight, as it was when it claimed its key
    cached,     \* the keys with a row in analyses
    blended,    \* the keys whose ranking reflects that row
    costs,      \* how many rows llm_costs holds for this purpose
    before,     \* history: the runs that claimed before this one and still run
    unranked,   \* history: cached keys not blended, and no run is about to
    unguarded,  \* history: the keys of runs that went on without an entry
    troubles

requests == <<at, key, others, before>>
tables == <<cached, blended, costs, unranked>>
vars == <<runs, stale, requests, tables, unguarded, troubles>>

\* missed: the cache had no record when it was read.
Claimed == {"counting", "checking", "calling", "persisting", "logging", "blending"}
Place == {"idle", "missed"} \union Claimed

Live == {r \in Requests : at[r] \in Claimed}

Init ==
    /\ RegistryInit
    /\ at = [r \in Requests |-> "idle"]
    /\ key = [r \in Requests |-> Nothing]
    /\ others = [r \in Requests |-> 0]
    /\ cached = {}
    /\ blended = {}
    /\ unranked = {}
    /\ costs = 0
    /\ before = [r \in Requests |-> {}]
    /\ unguarded = {}
    /\ troubles = 0

Goes(r, place) == at' = [at EXCEPT ![r] = place]

Trouble == troubles < MaxTroubles /\ troubles' = troubles + 1

\* The runs of ks have left the ranking as it was.
LeftUnranked(ks) == unranked' = (unranked \union ks) \ blended'

\* A run is over; for those that came after it, it no longer counts.
Ends(r) ==
    /\ Goes(r, "idle")
    /\ key' = [key EXCEPT ![r] = Nothing]
    /\ others' = [others EXCEPT ![r] = 0]
    /\ before' = [s \in Requests |-> IF s = r THEN {} ELSE before[s] \ {r}]

-----------------------------------------------------------------------------

(* A POST finds a stored record, and the ranking is brought up to date, if   *)
(* the database lets it.  A GET that finds one returns it and does no more.  *)
View(k) ==
    /\ k \in cached
    /\ blended' \in {blended, blended \union {k}}
    /\ LeftUnranked({})
    /\ UNCHANGED <<runs, stale, requests, cached, costs, unguarded, troubles>>

(* A POST passes the ownership gate and reads the cache in vain.             *)
Post(r, k) ==
    /\ at[r] = "idle"
    /\ k \notin cached
    /\ Goes(r, "missed")
    /\ key' = [key EXCEPT ![r] = k]
    /\ UNCHANGED <<runs, stale, others, tables, before, unguarded, troubles>>

(* The key is already running by then: 202.                                  *)
Join(r) ==
    /\ at[r] = "missed"
    /\ IsRunning(key[r])
    /\ Ends(r)
    /\ UNCHANGED <<runs, stale, tables, unguarded, troubles>>

\* running_count_for_user, less the run that asks.
OtherRuns == Cardinality({k \in Keys : runs'[k] = "running"}) - 1

\* A faulty claim, which does not look.
ClaimUnseen(r) ==
    /\ at[r] = "missed"
    /\ Begin(key[r])
    /\ others' = [others EXCEPT ![r] = IF OtherRuns >= 0 THEN OtherRuns ELSE 0]
    /\ Goes(r, "counting")
    /\ before' = [before EXCEPT ![r] = Live]
    /\ unguarded' = unguarded \union stale \union (IF Full THEN {key[r]} ELSE {})
    /\ UNCHANGED <<key, tables, troubles>>

(* It is not, and is claimed in the same step of the event loop.             *)
Claim(r) ==
    /\ at[r] = "missed"
    /\ ~IsRunning(key[r])
    /\ Begin(key[r])
    /\ others' = [others EXCEPT ![r] = IF OtherRuns >= 0 THEN OtherRuns ELSE 0]
    /\ Goes(r, "counting")
    /\ before' = [before EXCEPT ![r] = Live]
    /\ unguarded' = unguarded \union stale \union (IF Full THEN {key[r]} ELSE {})
    /\ UNCHANGED <<key, tables, troubles>>

(* The rows of the last day are counted, and with the runs in flight they    *)
(* leave room for this one.                                                  *)
Count(r) ==
    /\ at[r] = "counting"
    /\ costs + others[r] < Limit
    /\ Goes(r, "checking")
    /\ others' = [others EXCEPT ![r] = 0]
    /\ UNCHANGED <<runs, stale, key, tables, before, unguarded, troubles>>

(* The target and the posting exist, and the task is detached.               *)
Detach(r) ==
    /\ at[r] = "checking"
    /\ Goes(r, "calling")
    /\ UNCHANGED <<runs, stale, key, others, tables, before, unguarded, troubles>>

\* A faulty refusal, which keeps the claim.
RefuseOnly(r) ==
    /\ at[r] \in {"counting", "checking"}
    /\ Ends(r)
    /\ UNCHANGED <<runs, stale, tables, unguarded, troubles>>

(* They leave no room, or there is no posting, no target or no answer of the *)
(* database: the request raises, and releases its claim.                     *)
Refuse(r) ==
    /\ at[r] \in {"counting", "checking"}
    /\ Finish(key[r])
    /\ Ends(r)
    /\ UNCHANGED <<tables, unguarded, troubles>>

(* The LLM answers.                                                          *)
Answer(r) ==
    /\ at[r] = "calling"
    /\ Goes(r, "persisting")
    /\ UNCHANGED <<runs, stale, key, others, tables, before, unguarded, troubles>>

\* A faulty task, which clears its claim once the record is stored.
PersistAndClear(r) ==
    /\ at[r] = "persisting"
    /\ cached' = cached \union {key[r]}
    /\ unranked' = unranked \ {key[r]}
    /\ Goes(r, "logging")
    /\ Finish(key[r])
    /\ UNCHANGED <<key, others, blended, costs, before, unguarded, troubles>>

(* The record is stored ...                                                  *)
Persist(r) ==
    /\ at[r] = "persisting"
    /\ cached' = cached \union {key[r]}
    /\ unranked' = unranked \ {key[r]}
    /\ Goes(r, "logging")
    /\ UNCHANGED <<runs, stale, key, others, blended, costs, before,
                   unguarded, troubles>>

\* A faulty task, which gives up without a word.
FailsSilently(r, stored) ==
    /\ \/ at[r] = "calling" /\ ~stored
       \/ at[r] = "persisting"
    /\ cached' = IF stored THEN cached \union {key[r]} ELSE cached
    /\ Ends(r)
    /\ UNCHANGED <<runs, stale, blended, costs, unguarded, troubles>>
    /\ LeftUnranked(IF stored THEN {key[r]} ELSE {})

(* ... or the call or the write fails, though the row may be there, and the  *)
(* client will find an error.                                                *)
Fails(r, stored) ==
    /\ \/ at[r] = "calling" /\ ~stored
       \/ at[r] = "persisting"
    /\ cached' = IF stored THEN cached \union {key[r]} ELSE cached
    /\ Fail(key[r])
    /\ Ends(r)
    /\ UNCHANGED <<blended, costs, unguarded, troubles>>
    /\ LeftUnranked(IF stored THEN {key[r]} ELSE {})

\* A faulty task, which a failure to write its cost row ends.
LogOrFail(r) ==
    /\ at[r] = "logging"
    /\ \/ /\ Goes(r, "blending") /\ costs' = costs + 1
          /\ UNCHANGED <<runs, stale, key, others, before, troubles>>
       \/ /\ Trouble /\ Fail(key[r]) /\ Ends(r)
          /\ UNCHANGED costs
    /\ UNCHANGED <<cached, blended, unranked, unguarded>>

(* The cost row is written, or fails to be, and the task goes on.            *)
Log(r) ==
    /\ at[r] = "logging"
    /\ Goes(r, "blending")
    /\ \/ costs' = costs + 1 /\ UNCHANGED troubles
       \/ Trouble /\ UNCHANGED costs
    /\ UNCHANGED <<runs, stale, key, others, cached, blended, unranked, before,
                   unguarded>>

(* The ranking takes the verdict, or fails to, and the claim is cleared.     *)
Done(r) ==
    /\ at[r] = "blending"
    /\ blended' \in {blended, blended \union {key[r]}}
    /\ LeftUnranked({key[r]})
    /\ Finish(key[r])
    /\ Ends(r)
    /\ UNCHANGED <<cached, costs, unguarded, troubles>>

(* A poll that finds no record reads the registry.                           *)
Poll ==
    /\ Sweep
    /\ unguarded' = unguarded \union stale
    /\ UNCHANGED <<requests, tables, troubles>>

(* Time passes: an error has been there for long enough, or a run takes      *)
(* longer than its entry lives, which the timeout of its call allows.        *)
Expire(k) ==
    /\ \/ ErrorFades(k) /\ UNCHANGED troubles
       \/ Outlive(k) /\ Trouble
    /\ UNCHANGED <<requests, tables, unguarded>>

(* The process restarts: requests, tasks and the registry are gone.          *)
Restart ==
    /\ Trouble
    /\ Forget
    /\ at' = [r \in Requests |-> "idle"]
    /\ key' = [r \in Requests |-> Nothing]
    /\ others' = [r \in Requests |-> 0]
    /\ before' = [r \in Requests |-> {}]
    /\ UNCHANGED <<cached, blended, costs, unguarded>>
    /\ LeftUnranked(cached)

Task(r) == Answer(r) \/ Persist(r) \/ Log(r) \/ Done(r)

Next ==
    \/ \E r \in Requests :
         \/ \E k \in Keys : Post(r, k)
         \/ Join(r) \/ Claim(r) \/ Count(r) \/ Detach(r) \/ Refuse(r) \/ Task(r)
         \/ \E stored \in BOOLEAN : Fails(r, stored)
    \/ \E k \in Keys : View(k) \/ Expire(k)
    \/ Poll \/ Restart

Spec == Init /\ [][Next]_vars

\* The event loop runs what is ready, calls end, and the client, which was
\* told that nothing runs or that the run failed, asks again.
FairSpec ==
    /\ Spec
    /\ \A k \in Keys : SF_vars(\E r \in Requests : Post(r, k))
    /\ \A r \in Requests :
         WF_vars(Join(r) \/ Claim(r) \/ Count(r) \/ Detach(r) \/ Refuse(r)
                   \/ Task(r) \/ \E stored \in BOOLEAN : Fails(r, stored))

\* Calls, writes and reads have stopped to fail.
NothingFails ==
    [][\A r \in Requests :
         /\ \A stored \in BOOLEAN : ~Fails(r, stored)
         /\ Refuse(r) => at[r] = "counting" /\ costs + others[r] >= Limit]_vars

-----------------------------------------------------------------------------

\* Types, and that a request that is under way has a key.
TypeOK ==
    /\ RegistryType
    /\ at \in [Requests -> Place]
    /\ key \in [Requests -> Keys \union {Nothing}]
    /\ \A r \in Requests : key[r] = Nothing <=> at[r] = "idle"
    /\ others \in [Requests -> Nat]
    /\ cached \subseteq Keys
    /\ blended \subseteq Keys /\ unranked \subseteq Keys
    /\ costs \in Nat
    /\ before \in [Requests -> SUBSET Requests]
    /\ unguarded \subseteq Keys
    /\ troubles \in 0 .. MaxTroubles

\* No client polls a run that is not there: on every path out of the request
\* and of the task the claim goes or becomes an error, and the entry of a run
\* that was overtaken is not left behind by its successor.
ClaimHasARun == \A k \in Keys : runs[k] = "running" => \E r \in Live : key[r] = k

\* The claim keeps a second run of the same key out, as long as no run has
\* outlived its entry or found the table full.
OneRunPerKey ==
    \A r \in Live : key[r] \notin unguarded =>
        /\ runs[key[r]] = "running"
        /\ \A s \in Live : key[s] = key[r] => s = r

\* Runs whose row in llm_costs is still to come.
Unpaid == {r \in Requests : at[r] \in {"checking", "calling", "persisting", "logging"}}

\* A burst of requests does not get past the daily limit, although a row is
\* only written when a run ends and the gate counts rows and claims at
\* different moments.
DailyLimitHolds == unguarded = {} => costs + Cardinality(Unpaid) <= Limit

\* A key that is asked for again and again gets its analysis or the day's
\* limit is used up: no claim, error or restart shadows the retry.
AnalysisLands ==
    <>NothingFails => \A k \in Keys : <>(k \in cached \/ costs >= Limit)

\* A record that the ranking does not reflect has a run under way that will see
\* to it: nothing after "Persist FIRST" ends the run early or turns it into an
\* error.  The exceptions: the blend failed, the record was stored by a write
\* whose answer was lost, or the process restarted; then only a POST blends it.
RankingIsOwned ==
    \A k \in cached \ blended :
        k \in unranked \/ \E r \in Live : key[r] = k /\ at[r] \in {"logging", "blending"}
=============================================================================
