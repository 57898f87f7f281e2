------------------------- MODULE AnalysisRuns_proofs ------------------------
(* What holds of analyses for any number of requests, any limit and any      *)
(* number of troubles.                                                       *)
EXTENDS AnalysisRuns, FiniteSetTheorems, WellFoundedInduction, TLAPS

USE RegistryAssumption, AnalysisAssumption

-----------------------------------------------------------------------------
(* Types.                                                                    *)

\* What the steps of the registry do to it.
LEMMA RegistrySteps ==
    ASSUME RegistryType, NEW k \in Keys
    PROVE  /\ Begin(k) => RegistryType' /\ stale' = {}
           /\ Finish(k) => RegistryType'
           /\ Fail(k) => RegistryType'
           /\ Sweep => RegistryType'
           /\ ErrorFades(k) => RegistryType'
           /\ Outlive(k) => RegistryType'
           /\ Forget => RegistryType'
BY DEF RegistryType, RunStatus, Begin, Finish, Fail, Sweep, ErrorFades, Outlive,
       Forget, Swept, IsRunning

\* TypeOK in three parts.
RequestsOK ==
    /\ at \in [Requests -> Place]
    /\ key \in [Requests -> Keys \union {Nothing}]
    /\ \A r \in Requests : key[r] = Nothing <=> at[r] = "idle"
    /\ others \in [Requests -> Nat]
    /\ before \in [Requests -> SUBSET Requests]

TablesOK ==
    /\ cached \subseteq Keys
    /\ blended \subseteq Keys /\ unranked \subseteq Keys
    /\ costs \in Nat
    /\ unguarded \subseteq Keys
    /\ troubles \in 0 .. MaxTroubles

\* A run that ends leaves the requests in their types.
LEMMA EndsOK ==
    ASSUME RequestsOK, NEW r \in Requests, Ends(r)
    PROVE  RequestsOK'
BY DEF RequestsOK, Ends, Goes, Place

LEMMA TypeOKInit == Init => TypeOK
BY DEF Init, RegistryInit, TypeOK, RegistryType, RunStatus, Place

LEMMA TypeOKStep == TypeOK /\ [Next]_vars => TypeOK'
<1>. SUFFICES ASSUME RegistryType, RequestsOK, TablesOK, [Next]_vars
              PROVE  RegistryType' /\ RequestsOK' /\ TablesOK'
  BY DEF TypeOK, RequestsOK, TablesOK
<1>0. \A r \in Requests : at[r] # "idle" => key[r] \in Keys
  BY DEF RequestsOK
<1>1. ASSUME NEW r \in Requests, NEW k \in Keys, Post(r, k)
      PROVE  RegistryType' /\ RequestsOK' /\ TablesOK'
  BY <1>1 DEF Post, Goes, RequestsOK, TablesOK, RegistryType, Place, tables
<1>2. ASSUME NEW r \in Requests, Join(r)
      PROVE  RegistryType' /\ RequestsOK' /\ TablesOK'
  BY <1>2, EndsOK DEF Join, TablesOK, RegistryType, tables
<1>3. ASSUME NEW r \in Requests, Claim(r)
      PROVE  RegistryType' /\ RequestsOK' /\ TablesOK'
  <2>1. key[r] \in Keys /\ RegistryType'
    BY <1>0, <1>3, RegistrySteps DEF Claim
  <2>2. {k \in Keys : runs'[k] = "running"} \in SUBSET Keys
    OBVIOUS
  <2>3. (IF OtherRuns >= 0 THEN OtherRuns ELSE 0) \in Nat
    <3>. HIDE DEF OtherRuns
    <3>1. OtherRuns \in Int
      BY <2>2, FS_Subset, FS_CardinalityType DEF OtherRuns
    <3>. QED
      BY <3>1
  <2>4. RequestsOK'
    <3>. HIDE DEF OtherRuns
    <3>. QED
      BY <1>3, <2>1, <2>3 DEF Claim, Goes, RequestsOK, Live, Claimed, Place
  <2>5. TablesOK'
    BY <1>3, <2>1 DEF Claim, TablesOK, tables, RegistryType
  <2>. QED
    BY <2>1, <2>4, <2>5
<1>4. ASSUME NEW r \in Requests, Count(r) \/ Detach(r) \/ Answer(r)
      PROVE  RegistryType' /\ RequestsOK' /\ TablesOK'
  BY <1>4 DEF Count, Detach, Answer, Goes, RequestsOK, TablesOK, RegistryType, Place,
              Claimed, tables
<1>5. ASSUME NEW r \in Requests, Refuse(r)
      PROVE  RegistryType' /\ RequestsOK' /\ TablesOK'
  BY <1>0, <1>5, EndsOK, RegistrySteps DEF Refuse, TablesOK, tables
<1>6. ASSUME NEW r \in Requests, Persist(r)
      PROVE  RegistryType' /\ RequestsOK' /\ TablesOK'
  BY <1>0, <1>6 DEF Persist, Goes, RequestsOK, TablesOK, RegistryType, Place, Claimed
<1>7. ASSUME NEW r \in Requests, Log(r)
      PROVE  RegistryType' /\ RequestsOK' /\ TablesOK'
  BY <1>7 DEF Log, Goes, Trouble, RequestsOK, TablesOK, RegistryType, Place, Claimed
<1>8. ASSUME NEW r \in Requests, Done(r)
      PROVE  RegistryType' /\ RequestsOK' /\ TablesOK'
  <2>1. TablesOK'
    BY <1>0, <1>8 DEF Done, LeftUnranked, TablesOK
  <2>. QED
    BY <1>0, <1>8, <2>1, EndsOK, RegistrySteps DEF Done
<1>9. ASSUME NEW r \in Requests, NEW stored \in BOOLEAN, Fails(r, stored)
      PROVE  RegistryType' /\ RequestsOK' /\ TablesOK'
  <2>1. TablesOK'
    BY <1>0, <1>9 DEF Fails, LeftUnranked, TablesOK
  <2>. QED
    BY <1>0, <1>9, <2>1, EndsOK, RegistrySteps DEF Fails
<1>10. ASSUME NEW k \in Keys, View(k)
       PROVE  RegistryType' /\ RequestsOK' /\ TablesOK'
  BY <1>10 DEF View, LeftUnranked, requests, RequestsOK, TablesOK, RegistryType
<1>11. ASSUME NEW k \in Keys, Expire(k)
       PROVE  RegistryType' /\ RequestsOK' /\ TablesOK'
  BY <1>11, RegistrySteps DEF Expire, Trouble, requests, tables, RequestsOK, TablesOK
<1>12. CASE Poll
  BY <1>12 DEF Poll, Sweep, Swept, RunStatus, requests, tables, RequestsOK, TablesOK,
               RegistryType
<1>13. CASE Restart
  BY <1>13 DEF Restart, Forget, LeftUnranked, RunStatus, Trouble, RequestsOK, TablesOK,
               RegistryType, Place
<1>14. CASE UNCHANGED vars
  BY <1>14 DEF vars, requests, tables, RequestsOK, TablesOK, RegistryType
<1>. QED
  BY <1>1, <1>2, <1>3, <1>4, <1>5, <1>6, <1>7, <1>8, <1>9, <1>10, <1>11, <1>12, <1>13,
     <1>14 DEF Next, Task

\* TypeOK of the analyses is an invariant.
THEOREM AnalysisTypes == Spec => []TypeOK
BY TypeOKInit, TypeOKStep, PTL DEF Spec

-----------------------------------------------------------------------------
(* Claims.                                                                   *)

\* A run that ends is not live any more, and the others are as they were.
LEMMA EndsLive ==
    ASSUME TypeOK, NEW r \in Requests, Ends(r)
    PROVE  /\ Live' = Live \ {r}
           /\ \A s \in Requests \ {r} : key'[s] = key[s] /\ at'[s] = at[s]
BY DEF TypeOK, Ends, Goes, Live, Claimed

LEMMA ClaimStep ==
    ASSUME TypeOK, NEW r \in Requests, Claim(r)
    PROVE  /\ key[r] \in Keys /\ r \notin Live
           /\ Live' = Live \union {r} /\ key' = key
           /\ \A k \in Keys \ {key[r]} : runs'[k] = IF k \in stale THEN "none" ELSE runs[k]
           /\ Full => key[r] \in unguarded'
           /\ ~Full => runs'[key[r]] = "running"
           /\ unguarded' \subseteq Keys
           /\ unguarded \subseteq unguarded' /\ stale \subseteq unguarded'
<1>1. key[r] \in Keys /\ r \notin Live
  BY DEF Claim, TypeOK, Live, Claimed
<1>2. Live' = Live \union {r} /\ key' = key
  BY DEF Claim, Goes, TypeOK, Live, Claimed
<1>3. runs \in [Keys -> RunStatus] /\ Swept \in [Keys -> RunStatus]
  BY DEF TypeOK, RegistryType, Swept, RunStatus
<1>. QED
  BY <1>1, <1>2, <1>3 DEF Claim, Begin, Swept, TypeOK, RegistryType

\* Steps that leave registry, requests in flight and their keys alone.
Onward(r) == Count(r) \/ Detach(r) \/ Answer(r) \/ Persist(r) \/ Log(r)

LEMMA OnwardStep ==
    ASSUME TypeOK, NEW r \in Requests, Onward(r)
    PROVE  /\ r \in Live /\ Live' = Live /\ key' = key /\ before' = before
           /\ runs' = runs /\ stale' = stale /\ unguarded' = unguarded
           /\ \A s \in Requests \ {r} : at'[s] = at[s]
BY DEF Onward, Count, Detach, Answer, Persist, Log, Goes, TypeOK, Live, Claimed, tables

\* The ways in which a run ends.
Ending(r) == Refuse(r) \/ Done(r) \/ \E stored \in BOOLEAN : Fails(r, stored)

LEMMA EndingStep ==
    ASSUME TypeOK, NEW r \in Requests, Ending(r)
    PROVE  /\ Ends(r) /\ r \in Live /\ key[r] \in Keys
           /\ unguarded' = unguarded /\ costs' = costs
           /\ runs'[key[r]] \in {"none", "error"}
           /\ \A k \in Keys \ {key[r]} : runs'[k] = runs[k]
BY DEF Ending, Refuse, Done, Fails, Finish, Fail, TypeOK, RegistryType, Live, Claimed,
       tables

\* ClaimHasARun and OneRunPerKey.
Claims == ClaimHasARun /\ OneRunPerKey

LEMMA ClaimsStep == TypeOK /\ Claims /\ [Next]_vars => Claims'
<1>. SUFFICES ASSUME TypeOK, Claims, [Next]_vars
              PROVE  Claims'
  OBVIOUS
<1>1. ASSUME NEW r \in Requests, NEW k \in Keys, Post(r, k)
      PROVE  Claims'
  <2>1. Live' = Live /\ runs' = runs /\ unguarded' = unguarded
        /\ \A s \in Live : key'[s] = key[s]
    BY <1>1 DEF Post, Goes, TypeOK, Live, Claimed
  <2>. QED
    BY <2>1 DEF Claims, ClaimHasARun, OneRunPerKey
<1>2. ASSUME NEW r \in Requests, Join(r)
      PROVE  Claims'
  <2>1. Live' = Live \ {r} /\ r \notin Live /\ runs' = runs /\ unguarded' = unguarded
        /\ \A s \in Requests \ {r} : key'[s] = key[s]
    BY <1>2, EndsLive DEF Join, Live, Claimed
  <2>. QED
    BY <2>1 DEF Claims, ClaimHasARun, OneRunPerKey, Live
<1>3. ASSUME NEW r \in Requests, Claim(r)
      PROVE  Claims'
  <2>1. ClaimHasARun'
    BY <1>3, ClaimStep DEF Claims, ClaimHasARun
  <2>2. ASSUME NEW s \in Live, key[s] \notin unguarded'
        PROVE  key[s] # key[r] /\ runs'[key[s]] = "running"
    <3>1. s \in Requests /\ key[s] \in Keys /\ key[s] \notin stale
      BY <1>3, <2>2, ClaimStep DEF Live, TypeOK, Claimed
    <3>2. runs[key[s]] = "running"
      BY <1>3, <2>2, ClaimStep DEF Claims, OneRunPerKey
    <3>3. key[s] # key[r]
      BY <1>3, <3>2 DEF Claim, IsRunning
    <3>. QED
      BY <1>3, <3>1, <3>2, <3>3, ClaimStep
  <2>3. OneRunPerKey'
    BY <1>3, <2>2, ClaimStep DEF Claims, OneRunPerKey
  <2>. QED
    BY <2>1, <2>3 DEF Claims
<1>4. ASSUME NEW r \in Requests, Onward(r)
      PROVE  Claims'
  BY <1>4, OnwardStep DEF Claims, ClaimHasARun, OneRunPerKey
<1>5. ASSUME NEW r \in Requests, Ending(r)
      PROVE  Claims'
  <2>1. ClaimHasARun'
    BY <1>5, EndingStep, EndsLive DEF Claims, ClaimHasARun, Live
  <2>2. ASSUME NEW s \in Live \ {r}, key[s] \notin unguarded
        PROVE  key[s] # key[r] /\ key[s] \in Keys
    BY <1>5, <2>2, EndingStep DEF Claims, OneRunPerKey, Live, TypeOK, Claimed
  <2>3. OneRunPerKey'
    BY <1>5, <2>2, EndingStep, EndsLive DEF Claims, OneRunPerKey, Live
  <2>. QED
    BY <2>1, <2>3 DEF Claims
<1>6. ASSUME NEW k \in Keys, View(k) \/ Expire(k)
      PROVE  Claims'
  <2>1. Live' = Live /\ key' = key /\ unguarded' = unguarded
    BY <1>6 DEF View, Expire, requests, Live
  <2>2. \A l \in Keys : runs'[l] = "running" <=> runs[l] = "running"
    BY <1>6 DEF View, Expire, ErrorFades, Outlive, TypeOK, RegistryType
  <2>3. \A s \in Live : key[s] \in Keys
    BY DEF TypeOK, Live, Claimed
  <2>. QED
    BY <2>1, <2>2, <2>3 DEF Claims, ClaimHasARun, OneRunPerKey
<1>7. CASE Poll
  <2>1. Live' = Live /\ key' = key /\ unguarded' = unguarded \union stale
    BY <1>7 DEF Poll, requests, Live
  <2>2. \A l \in Keys : runs'[l] = IF l \in stale THEN "none" ELSE runs[l]
    BY <1>7 DEF Poll, Sweep, Swept
  <2>3. \A s \in Live : key[s] \in Keys
    BY DEF TypeOK, Live, Claimed
  <2>. QED
    BY <2>1, <2>2, <2>3 DEF Claims, ClaimHasARun, OneRunPerKey
<1>8. CASE Restart
  <2>1. Live' = {} /\ \A k \in Keys : runs'[k] = "none"
    BY <1>8 DEF Restart, Forget, Live, Claimed
  <2>. QED
    BY <2>1 DEF Claims, ClaimHasARun, OneRunPerKey
<1>9. CASE UNCHANGED vars
  BY <1>9 DEF vars, requests, Claims, ClaimHasARun, OneRunPerKey, Live
<1>. QED
  BY <1>1, <1>2, <1>3, <1>4, <1>5, <1>6, <1>7, <1>8, <1>9 DEF Next, Task, Onward, Ending

LEMMA ClaimsInit == Init => Claims
BY DEF Init, RegistryInit, Claims, ClaimHasARun, OneRunPerKey, Live, Claimed

LEMMA ClaimsInvariant == Spec => [](TypeOK /\ Claims)
<1>1. Init => TypeOK /\ Claims
  BY TypeOKInit, ClaimsInit
<1>2. TypeOK /\ Claims /\ [Next]_vars => (TypeOK /\ Claims)'
  BY TypeOKStep, ClaimsStep
<1>. QED
  BY <1>1, <1>2, PTL DEF Spec

\* ClaimHasARun: whatever a poll is told to wait for is really running.
THEOREM NoPhantomRuns == Spec => []ClaimHasARun
<1>1. Claims => ClaimHasARun
  BY DEF Claims
<1>. QED
  BY <1>1, ClaimsInvariant, PTL

\* OneRunPerKey: a key runs once at a time, and its claim is there, unless a
\* run outlived its entry or found no room for one.
THEOREM NoDoubleRuns == Spec => []OneRunPerKey
<1>1. Claims => OneRunPerKey
  BY DEF Claims
<1>. QED
  BY <1>1, ClaimsInvariant, PTL

-----------------------------------------------------------------------------
(* The daily limit.                                                          *)

\* Runs that have no row in llm_costs yet, those before the gate among them.
Waiting == {r \in Requests : at[r] = "counting"} \union Unpaid

Ahead(r) == before[r] \intersect Waiting

\* Live runs claimed their keys one after the other.
Ordered ==
    /\ \A r \in Live : before[r] \subseteq Live \ {r}
    /\ \A r, s \in Live : r = s \/ r \in before[s] \/ s \in before[r]
    /\ \A r \in Live : \A s \in before[r] : before[s] \subseteq before[r]

\* A run that is past the gate has a place for itself behind the rows and the
\* runs ahead of it; one that is not knows how many are ahead.
Seats ==
    /\ costs <= Limit
    /\ \A r \in Requests : at[r] = "counting" => Cardinality(before[r]) <= others[r]
    /\ \A r \in Unpaid : costs + Cardinality(Ahead(r)) < Limit

Queue == unguarded = {} => Ordered /\ Seats

LEMMA FewRequests ==
    ASSUME NEW T \in SUBSET Requests, NEW S \in SUBSET T
    PROVE  /\ Cardinality(S) \in Nat /\ Cardinality(T) \in Nat
           /\ Cardinality(S) <= Cardinality(T)
           /\ S # T => Cardinality(S) < Cardinality(T)
<1>1. IsFiniteSet(T)
  BY FS_Subset
<1>2. IsFiniteSet(S) /\ Cardinality(S) <= Cardinality(T)
      /\ (Cardinality(T) = Cardinality(S) => S = T)
  BY <1>1, FS_Subset
<1>3. Cardinality(S) \in Nat /\ Cardinality(T) \in Nat
  BY <1>1, <1>2, FS_CardinalityType
<1>. QED
  BY <1>2, <1>3

LEMMA QueueInit == Init => Queue
BY DEF Init, Queue, Ordered, Seats, Live, Claimed, Unpaid

\* A claim sees all the runs that are live.
LEMMA ClaimSeesAll ==
    ASSUME TypeOK, Claims, NEW r \in Requests, Claim(r), unguarded' = {}
    PROVE  Cardinality(Live) <= others'[r]
<1> DEFINE R == {k \in Keys : runs'[k] = "running"}
           f == [s \in Live |-> key[s]]
<1>1. key[r] \in Keys /\ stale = {} /\ unguarded = {} /\ ~Full
      /\ runs'[key[r]] = "running" /\ r \notin Live
  BY ClaimStep
<1>2. \A k \in Keys \ {key[r]} : runs'[k] = runs[k]
  BY <1>1, ClaimStep
<1>3. f \in Injection(Live, R \ {key[r]})
  <2>1. ASSUME NEW s \in Live
        PROVE  key[s] \in R \ {key[r]}
    <3>1. key[s] \in Keys /\ runs[key[s]] = "running"
      BY <1>1 DEF Claims, OneRunPerKey, TypeOK, Live, Claimed
    <3>2. runs[key[r]] # "running"
      BY DEF Claim, IsRunning
    <3>. QED
      BY <1>2, <3>1, <3>2
  <2>2. \A s, t \in Live : key[s] = key[t] => s = t
    BY <1>1 DEF Claims, OneRunPerKey
  <2>. HIDE DEF R
  <2>. QED
    BY <2>1, <2>2 DEF Injection, IsInjective
<1>4. IsFiniteSet(R) /\ key[r] \in R
  <2>1. R \in SUBSET Keys
    OBVIOUS
  <2>. QED
    BY <1>1, <2>1, FS_Subset
<1>. HIDE DEF R
<1>5. IsFiniteSet(R \ {key[r]}) /\ Cardinality(R \ {key[r]}) = Cardinality(R) - 1
  BY <1>4, FS_RemoveElement
<1>6. Cardinality(Live) <= Cardinality(R) - 1
  <2>. HIDE DEF f
  <2>. QED
    BY <1>3, <1>5, FS_Injection
<1>7. Cardinality(Live) \in Nat /\ Cardinality(R) \in Nat
  BY <1>4, FS_CardinalityType, FewRequests DEF Live
<1>8. OtherRuns = Cardinality(R) - 1
  BY DEF OtherRuns, R
<1>9. others'[r] = IF OtherRuns >= 0 THEN OtherRuns ELSE 0
  <2>. HIDE DEF OtherRuns
  <2>. QED
    BY DEF Claim, TypeOK
<1>. QED
  BY <1>6, <1>7, <1>8, <1>9

LEMMA QueueClaim ==
    ASSUME TypeOK, Claims, Queue, NEW r \in Requests, Claim(r)
    PROVE  Queue'
<1>. SUFFICES ASSUME unguarded' = {}
              PROVE  Ordered' /\ Seats'
  BY DEF Queue
<1>1. Ordered /\ Seats
  BY ClaimStep DEF Queue
<1>2. /\ r \notin Live /\ Live' = Live \union {r}
      /\ before' = [before EXCEPT ![r] = Live] /\ before \in [Requests -> SUBSET Requests]
      /\ costs' = costs /\ at' = [at EXCEPT ![r] = "counting"]
      /\ at \in [Requests -> Place] /\ at[r] = "missed"
      /\ \A s \in Requests \ {r} : others'[s] = others[s]
  BY ClaimStep DEF Claim, Goes, tables, TypeOK
<1>3. before'[r] = Live /\ \A s \in Requests \ {r} : before'[s] = before[s]
  BY <1>2
<1>4. Live \subseteq Requests /\ r \in Requests
  BY DEF Live
<1>5. Ordered'
  <2>1. \A s \in Live' : before'[s] \subseteq Live' \ {s}
    BY <1>1, <1>2, <1>3, <1>4 DEF Ordered
  <2>2. \A s, t \in Live' : s = t \/ s \in before'[t] \/ t \in before'[s]
    BY <1>1, <1>2, <1>3, <1>4 DEF Ordered
  <2>3. \A s \in Live' : \A t \in before'[s] : before'[t] \subseteq before'[s]
    BY <1>1, <1>2, <1>3, <1>4 DEF Ordered
  <2>. QED
    BY <2>1, <2>2, <2>3 DEF Ordered
<1>6. Unpaid' = Unpaid /\ r \notin Unpaid /\ Waiting' = Waiting \union {r}
  BY <1>2 DEF Unpaid, Waiting
<1>7. \A s \in Unpaid : Ahead(s)' = Ahead(s)
  <2>1. Unpaid \subseteq Live
    BY DEF Unpaid, Live, Claimed
  <2>. QED
    BY <1>1, <1>2, <1>3, <1>4, <1>6, <2>1 DEF Ahead, Ordered
<1>8. Seats'
  <2>1. \A s \in Requests : at'[s] = "counting" => Cardinality(before'[s]) <= others'[s]
    BY <1>1, <1>2, <1>3, ClaimSeesAll DEF Seats
  <2>2. \A s \in Unpaid' : costs' + Cardinality(Ahead(s)') < Limit
    BY <1>1, <1>2, <1>6, <1>7 DEF Seats
  <2>. QED
    BY <1>1, <1>2, <2>1, <2>2 DEF Seats
<1>. QED
  BY <1>5, <1>8

\* A run that ends leaves its place.
LEMMA QueueEnding ==
    ASSUME TypeOK, Queue, NEW r \in Requests, Ends(r), r \in Live,
           unguarded' = unguarded, costs' = costs
    PROVE  Queue'
<1>. SUFFICES ASSUME unguarded = {}
              PROVE  Ordered' /\ Seats'
  BY DEF Queue
<1>1. Ordered /\ Seats
  BY DEF Queue
<1>2. /\ Live' = Live \ {r}
      /\ \A s \in Requests \ {r} : before'[s] = before[s] \ {r} /\ others'[s] = others[s]
                                   /\ at'[s] = at[s]
      /\ at'[r] = "idle"
  BY EndsLive DEF Ends, Goes, TypeOK
<1>3. Live \subseteq Requests
  BY DEF Live
<1>4. Ordered'
  <2>1. \A s \in Live' : before'[s] \subseteq Live' \ {s}
    BY <1>1, <1>2, <1>3 DEF Ordered
  <2>2. \A s, t \in Live' : s = t \/ s \in before'[t] \/ t \in before'[s]
    BY <1>1, <1>2, <1>3 DEF Ordered
  <2>3. \A s \in Live' : \A t \in before'[s] : before'[t] \subseteq before'[s]
    BY <1>1, <1>2, <1>3, <2>1 DEF Ordered
  <2>. QED
    BY <2>1, <2>2, <2>3 DEF Ordered
<1>5. Unpaid' = Unpaid \ {r} /\ Waiting' = Waiting \ {r}
  BY <1>2 DEF Unpaid, Waiting
<1>6. Seats'
  <2>0. \A s \in Requests : before[s] \in SUBSET Requests /\ others[s] \in Nat
    BY DEF TypeOK
  <2>1. ASSUME NEW s \in Requests, at'[s] = "counting"
        PROVE  Cardinality(before'[s]) <= others'[s]
    <3>1. s # r /\ before'[s] = before[s] \ {r} /\ others'[s] = others[s]
          /\ at[s] = "counting"
      BY <1>2, <2>1
    <3>2. before'[s] \in SUBSET before[s] /\ before[s] \in SUBSET Requests
      BY <2>0, <3>1
    <3>3. /\ Cardinality(before'[s]) \in Nat /\ Cardinality(before[s]) \in Nat
          /\ Cardinality(before'[s]) <= Cardinality(before[s])
      BY <3>2, FewRequests
    <3>4. Cardinality(before[s]) <= others[s] /\ others[s] \in Nat
      BY <1>1, <2>0, <3>1 DEF Seats
    <3>. QED
      BY <3>1, <3>3, <3>4
  <2>2. ASSUME NEW s \in Unpaid'
        PROVE  costs' + Cardinality(Ahead(s)') < Limit
    <3>1. s \in Unpaid /\ s \in Requests /\ s # r
      BY <1>5, <2>2 DEF Unpaid
    <3>2. Ahead(s)' \in SUBSET Ahead(s) /\ Ahead(s) \in SUBSET Requests
      BY <1>2, <1>5, <2>0, <3>1 DEF Ahead
    <3>3. /\ Cardinality(Ahead(s)') \in Nat /\ Cardinality(Ahead(s)) \in Nat
          /\ Cardinality(Ahead(s)') <= Cardinality(Ahead(s))
      BY <3>2, FewRequests
    <3>4. costs + Cardinality(Ahead(s)) < Limit /\ costs \in Nat
      BY <1>1, <3>1 DEF Seats, TypeOK
    <3>. QED
      BY <3>3, <3>4
  <2>. QED
    BY <1>1, <2>1, <2>2 DEF Seats
<1>. QED
  BY <1>4, <1>6

LEMMA QueueCount ==
    ASSUME TypeOK, Queue, NEW r \in Requests, Count(r)
    PROVE  Queue'
<1>. SUFFICES ASSUME unguarded = {}
              PROVE  Ordered' /\ Seats'
  BY OnwardStep DEF Queue, Onward
<1>1. Ordered /\ Seats
  BY DEF Queue
<1>2. /\ Live' = Live /\ before' = before /\ costs' = costs
      /\ at' = [at EXCEPT ![r] = "checking"] /\ at \in [Requests -> Place]
      /\ at[r] = "counting"
      /\ \A s \in Requests \ {r} : others'[s] = others[s]
  BY OnwardStep DEF Onward, Count, Goes, tables, TypeOK
<1>3. Ordered'
  BY <1>1, <1>2 DEF Ordered
<1>4. Unpaid' = Unpaid \union {r} /\ Waiting' = Waiting
  BY <1>2 DEF Unpaid, Waiting
<1>5. costs + Cardinality(Ahead(r)) < Limit
  <2>1. before[r] \in SUBSET Requests /\ others[r] \in Nat /\ costs \in Nat
    BY DEF TypeOK
  <2>2. Ahead(r) \in SUBSET before[r]
    BY DEF Ahead
  <2>3. /\ Cardinality(Ahead(r)) \in Nat /\ Cardinality(before[r]) \in Nat
        /\ Cardinality(Ahead(r)) <= Cardinality(before[r])
    BY <2>1, <2>2, FewRequests
  <2>4. Cardinality(before[r]) <= others[r] /\ costs + others[r] < Limit
    BY <1>1, <1>2 DEF Seats, Count
  <2>. QED
    BY <2>1, <2>3, <2>4
<1>6. \A s \in Unpaid' : costs' + Cardinality(Ahead(s)') < Limit
  BY <1>1, <1>2, <1>4, <1>5 DEF Seats, Ahead
<1>7. \A s \in Requests : at'[s] = "counting" => Cardinality(before'[s]) <= others'[s]
  BY <1>1, <1>2 DEF Seats
<1>. QED
  BY <1>1, <1>2, <1>3, <1>6, <1>7 DEF Seats

LEMMA QueueOnward ==
    ASSUME TypeOK, Queue, NEW r \in Requests, Detach(r) \/ Answer(r) \/ Persist(r)
    PROVE  Queue'
<1>1. Onward(r)
  BY DEF Onward
<1>2. /\ Live' = Live /\ before' = before /\ costs' = costs /\ unguarded' = unguarded
      /\ others' = others /\ at \in [Requests -> Place]
      /\ at[r] \in {"checking", "calling", "persisting"}
      /\ \/ at' = [at EXCEPT ![r] = "calling"]
         \/ at' = [at EXCEPT ![r] = "persisting"]
         \/ at' = [at EXCEPT ![r] = "logging"]
  BY <1>1, OnwardStep DEF Detach, Answer, Persist, Goes, tables, TypeOK
<1>3. Unpaid' = Unpaid /\ Waiting' = Waiting
      /\ \A s \in Requests : at'[s] = "counting" <=> at[s] = "counting"
  BY <1>2 DEF Unpaid, Waiting
<1>. QED
  BY <1>2, <1>3 DEF Queue, Ordered, Seats, Ahead

\* A run that leaves the queue with its row makes room ahead of every other.
LEMMA QueueLog ==
    ASSUME TypeOK, Queue, NEW r \in Requests, Log(r)
    PROVE  Queue'
<1>. SUFFICES ASSUME unguarded = {}
              PROVE  Ordered' /\ Seats'
  BY OnwardStep DEF Queue, Onward
<1>1. Ordered /\ Seats
  BY DEF Queue
<1>2. /\ Live' = Live /\ before' = before /\ others' = others
      /\ at' = [at EXCEPT ![r] = "blending"] /\ at \in [Requests -> Place]
      /\ at[r] = "logging" /\ r \in Live
      /\ costs \in Nat /\ costs' \in {costs, costs + 1}
  BY OnwardStep DEF Onward, Log, Goes, TypeOK
<1>3. Ordered'
  BY <1>1, <1>2 DEF Ordered
<1>4. r \in Unpaid /\ Unpaid' = Unpaid \ {r} /\ Waiting' = Waiting \ {r}
      /\ Unpaid \subseteq Live /\ Unpaid \subseteq Waiting
      /\ Unpaid \subseteq Requests
      /\ \A s \in Requests : at'[s] = "counting" <=> at[s] = "counting"
  BY <1>2 DEF Unpaid, Waiting, Live, Claimed
<1>5. \A s \in Requests : Ahead(s) \in SUBSET Requests /\ before[s] \in SUBSET Requests
  BY DEF Ahead, TypeOK
<1>6. \A s \in Requests : Cardinality(Ahead(s)) \in Nat
  BY <1>5, FewRequests
<1>7. costs' <= Limit
  BY <1>1, <1>2, <1>4, <1>6 DEF Seats
<1>8. ASSUME NEW s \in Unpaid'
      PROVE  costs' + Cardinality(Ahead(s)') < Limit
  <2>1. s \in Unpaid /\ s # r /\ s \in Requests /\ r \in Requests
    BY <1>4, <1>8
  <2>2. Ahead(s)' = Ahead(s) \ {r}
    BY <1>2, <1>4 DEF Ahead
  <2>3. /\ Cardinality(Ahead(s)') \in Nat
        /\ Cardinality(Ahead(s)') <= Cardinality(Ahead(s))
        /\ r \in Ahead(s) => Cardinality(Ahead(s)') < Cardinality(Ahead(s))
    BY <1>5, <2>1, <2>2, FewRequests
  <2>4. costs + Cardinality(Ahead(s)) < Limit /\ costs + Cardinality(Ahead(r)) < Limit
    BY <1>1, <1>4, <2>1 DEF Seats
  <2>5. CASE r \in before[s]
    <3>1. r \in Ahead(s)
      BY <1>4, <2>5 DEF Ahead
    <3>. QED
      BY <1>2, <1>6, <2>1, <2>3, <2>4, <3>1
  <2>6. CASE r \notin before[s]
    <3>1. s \in before[r] /\ before[s] \subseteq before[r] /\ s \notin before[s]
      BY <1>1, <1>4, <2>1, <2>6 DEF Ordered
    <3>2. Ahead(s) \in SUBSET Ahead(r) /\ s \in Ahead(r) /\ s \notin Ahead(s)
      BY <1>4, <2>1, <3>1 DEF Ahead
    <3>3. Cardinality(Ahead(s)) < Cardinality(Ahead(r))
      BY <1>5, <2>1, <3>2, FewRequests
    <3>. QED
      BY <1>2, <1>6, <2>1, <2>3, <2>4, <3>3
  <2>. QED
    BY <2>5, <2>6
<1>. QED
  BY <1>1, <1>2, <1>3, <1>4, <1>7, <1>8 DEF Seats

LEMMA QueueStep == TypeOK /\ Claims /\ Queue /\ [Next]_vars => Queue'
<1>. SUFFICES ASSUME TypeOK, Claims, Queue, [Next]_vars
              PROVE  Queue'
  OBVIOUS
<1>1. ASSUME NEW r \in Requests, NEW k \in Keys, Post(r, k)
      PROVE  Queue'
  <2>1. /\ Live' = Live /\ unguarded' = unguarded /\ before' = before /\ costs' = costs
        /\ others' = others
        /\ Unpaid' = Unpaid
        /\ \A s \in Requests : at'[s] = "counting" <=> at[s] = "counting"
    BY <1>1 DEF Post, Goes, TypeOK, Live, Claimed, tables, Unpaid
  <2>2. Waiting' = Waiting
    BY <2>1 DEF Waiting
  <2>. QED
    BY <2>1, <2>2 DEF Queue, Ordered, Seats, Ahead
<1>2. ASSUME NEW r \in Requests, Join(r)
      PROVE  Queue'
  <2>1. Ends(r) /\ r \notin Live /\ unguarded' = unguarded /\ costs' = costs
    BY <1>2 DEF Join, Live, Claimed, tables
  <2>. SUFFICES ASSUME unguarded = {}
                PROVE  Ordered' /\ Seats'
    BY <2>1 DEF Queue
  <2>2. Ordered /\ Seats
    BY DEF Queue
  <2>3. /\ Live' = Live
        /\ \A s \in Requests \ {r} : before'[s] = before[s] \ {r} /\ others'[s] = others[s]
                                     /\ at'[s] = at[s]
        /\ at'[r] = "idle" /\ at[r] = "missed"
    <3>1. Live' = Live \ {r}
      BY <2>1, EndsLive
    <3>2. /\ \A s \in Requests \ {r} : before'[s] = before[s] \ {r} /\ others'[s] = others[s]
                                       /\ at'[s] = at[s]
          /\ at'[r] = "idle"
      BY <2>1 DEF Ends, Goes, TypeOK
    <3>3. at[r] = "missed"
      BY <1>2 DEF Join
    <3>. QED
      BY <2>1, <3>1, <3>2, <3>3
  <2>4. \A s \in Live : s \in Requests /\ before[s] \subseteq Live /\ before'[s] = before[s]
    <3>1. Live \subseteq Requests
      BY DEF Live
    <3>2. ASSUME NEW s \in Live
          PROVE  before[s] \subseteq Live /\ r \notin before[s] /\ s # r
      BY <2>1, <2>2 DEF Ordered
    <3>. QED
      BY <2>3, <3>1, <3>2
  <2>5. Ordered'
    BY <2>2, <2>3, <2>4 DEF Ordered
  <2>6. /\ Unpaid' = Unpaid /\ Unpaid \subseteq Live
        /\ \A s \in Requests : at'[s] = "counting" <=> at[s] = "counting"
        /\ \A s \in Requests : at[s] = "counting" => s \in Live
    BY <2>3 DEF Unpaid, Live, Claimed
  <2>7. Waiting' = Waiting
    BY <2>6 DEF Waiting
  <2>8. \A s \in Unpaid : Ahead(s)' = Ahead(s)
    BY <2>4, <2>6, <2>7 DEF Ahead
  <2>9. Seats'
    BY <2>1, <2>2, <2>3, <2>4, <2>6, <2>8 DEF Seats
  <2>. QED
    BY <2>5, <2>9
<1>3. ASSUME NEW r \in Requests, Claim(r)
      PROVE  Queue'
  BY <1>3, QueueClaim
<1>4. ASSUME NEW r \in Requests, Onward(r)
      PROVE  Queue'
  BY <1>4, QueueCount, QueueOnward, QueueLog DEF Onward
<1>5. ASSUME NEW r \in Requests, Ending(r)
      PROVE  Queue'
  BY <1>5, EndingStep, QueueEnding
<1>6. ASSUME NEW k \in Keys, View(k) \/ Expire(k)
      PROVE  Queue'
  BY <1>6 DEF View, Expire, requests, tables, Queue, Ordered, Seats, Ahead, Waiting, Unpaid,
              Live
<1>7. CASE Poll
  BY <1>7 DEF Poll, requests, tables, Queue, Ordered, Seats, Ahead, Waiting, Unpaid, Live
<1>8. CASE Restart
  <2>1. Live' = {} /\ Unpaid' = {} /\ unguarded' = unguarded /\ costs' = costs
        /\ \A s \in Requests : at'[s] # "counting"
    BY <1>8 DEF Restart, Live, Claimed, Unpaid, tables
  <2>. QED
    BY <2>1 DEF Queue, Ordered, Seats
<1>9. CASE UNCHANGED vars
  BY <1>9 DEF vars, requests, tables, Queue, Ordered, Seats, Ahead, Waiting, Unpaid, Live
<1>. QED
  BY <1>1, <1>2, <1>3, <1>4, <1>5, <1>6, <1>7, <1>8, <1>9 DEF Next, Task, Onward, Ending

\* The last of the unpaid runs has all the others ahead of it.
LEMMA LastInLine ==
    ASSUME TypeOK, Ordered, Unpaid # {}
    PROVE  \E r \in Unpaid : Unpaid \subseteq Ahead(r) \union {r}
<1> DEFINE Behind(r) == Requests \ before[r]
           B == {Behind(r) : r \in Unpaid}
<1>1. B \subseteq FiniteSubsetsOf(Requests) /\ B # {}
  <2>1. FiniteSubsetsOf(Requests) = SUBSET Requests
    BY FS_FiniteSubsetsOfFinite
  <2>2. B \subseteq SUBSET Requests /\ B # {}
    OBVIOUS
  <2>. QED
    BY <2>1, <2>2
<1>2. IsWellFoundedOn(StrictSubsetOrdering(Requests), FiniteSubsetsOf(Requests))
  BY FS_StrictSubsetOrderingWellFounded
<1>3. \E b \in B : \A c \in B : <<c, b>> \notin StrictSubsetOrdering(Requests)
  <2>. HIDE DEF B
  <2>. QED
    BY <1>1, <1>2, WFMin, Zenon
<1>4. PICK r \in Unpaid : \A s \in Unpaid :
        <<Behind(s), Behind(r)>> \notin StrictSubsetOrdering(Requests)
  BY <1>3
<1>5. Unpaid \subseteq Live /\ Unpaid \subseteq Waiting /\ Unpaid \subseteq Requests
  BY DEF Unpaid, Live, Claimed, Waiting
<1>6. ASSUME NEW s \in Unpaid, s # r
      PROVE  s \in Ahead(r)
  <2>1. ASSUME s \notin before[r]
        PROVE  FALSE
    <3>1. r \in before[s] /\ before[r] \subseteq before[s] /\ r \notin before[r]
      BY <1>5, <1>6, <2>1 DEF Ordered
    <3>2. Behind(s) \subseteq Behind(r) /\ r \in Behind(r) /\ r \notin Behind(s)
      BY <1>5, <3>1
    <3>. QED
      BY <1>4, <3>2 DEF StrictSubsetOrdering
  <2>. QED
    BY <1>5, <2>1 DEF Ahead
<1>. QED
  BY <1>6

LEMMA QueueFits == TypeOK /\ Queue => DailyLimitHolds
<1>. SUFFICES ASSUME TypeOK, Queue, unguarded = {}
              PROVE  costs + Cardinality(Unpaid) <= Limit
  BY DEF DailyLimitHolds
<1>1. Ordered /\ Seats /\ costs \in Nat
  BY DEF Queue, TypeOK
<1>2. CASE Unpaid = {}
  BY <1>1, <1>2, FS_EmptySet DEF Seats
<1>3. CASE Unpaid # {}
  <2>1. PICK r \in Unpaid : Unpaid \subseteq Ahead(r) \union {r}
    BY <1>1, <1>3, LastInLine
  <2>2. Ahead(r) \in SUBSET Requests /\ Unpaid \in SUBSET Requests /\ r \in Requests
    BY DEF Ahead, TypeOK, Unpaid
  <2>3. IsFiniteSet(Ahead(r) \ {r}) /\ IsFiniteSet(Ahead(r))
        /\ Cardinality(Ahead(r) \ {r}) <= Cardinality(Ahead(r))
    BY <2>2, FS_Subset
  <2>4. Cardinality((Ahead(r) \ {r}) \union {r}) = Cardinality(Ahead(r) \ {r}) + 1
    BY <2>3, FS_AddElement
  <2>5. (Ahead(r) \ {r}) \union {r} \in SUBSET Requests
        /\ Unpaid \in SUBSET ((Ahead(r) \ {r}) \union {r})
    BY <2>1, <2>2
  <2>6. Cardinality(Unpaid) <= Cardinality((Ahead(r) \ {r}) \union {r})
        /\ Cardinality(Unpaid) \in Nat
    BY <2>5, FewRequests
  <2>7. Cardinality(Ahead(r) \ {r}) \in Nat /\ Cardinality(Ahead(r)) \in Nat
    BY <2>3, FS_CardinalityType
  <2>8. costs + Cardinality(Ahead(r)) < Limit
    BY <1>1 DEF Seats
  <2>. QED
    BY <1>1, <2>3, <2>4, <2>6, <2>7, <2>8
<1>. QED
  BY <1>2, <1>3

\* DailyLimitHolds: no interleaving of claims, counts and rows lets a user past
\* the limit, unless a run outlived its entry or found no room for one.
THEOREM LimitNotPassed == Spec => []DailyLimitHolds
<1>1. Init => Queue
  BY QueueInit
<1>2. (TypeOK /\ Claims) /\ Queue /\ [Next]_vars => Queue'
  BY QueueStep
<1>3. (TypeOK /\ Claims) /\ Queue => DailyLimitHolds
  BY QueueFits
<1>. QED
  BY <1>1, <1>2, <1>3, ClaimsInvariant, PTL DEF Spec

-----------------------------------------------------------------------------
(* The ranking.                                                              *)

LEMMA RankingInit == Init => RankingIsOwned
BY DEF Init, RankingIsOwned

\* Runs that have stored their record and not blended it yet.
Blending == {r \in Requests : at[r] \in {"logging", "blending"}}

LEMMA RankingByRuns ==
    RankingIsOwned <=>
        \A k \in cached \ blended : k \in unranked \/ \E r \in Blending : key[r] = k
BY DEF RankingIsOwned, Blending, Live, Claimed

LEMMA RankingStep == TypeOK /\ RankingIsOwned /\ [Next]_vars => RankingIsOwned'
<1>. SUFFICES ASSUME TypeOK, [Next]_vars,
                     \A k \in cached \ blended :
                         k \in unranked \/ \E r \in Blending : key[r] = k
              PROVE  \A k \in cached' \ blended' :
                         k \in unranked' \/ \E r \in Blending' : key'[r] = k
  BY RankingByRuns DEF RankingIsOwned, Blending, Live, Claimed
<1>1. ASSUME UNCHANGED tables, \A r \in Blending : r \in Blending' /\ key'[r] = key[r]
      PROVE  \A k \in cached' \ blended' :
                 k \in unranked' \/ \E r \in Blending' : key'[r] = k
  BY <1>1 DEF tables
<1>2. ASSUME NEW r \in Requests,
             \/ \E k \in Keys : Post(r, k)
             \/ Join(r) \/ Claim(r) \/ Count(r) \/ Detach(r) \/ Refuse(r) \/ Answer(r)
      PROVE  UNCHANGED tables /\ \A q \in Blending : q \in Blending' /\ key'[q] = key[q]
  <2>1. UNCHANGED tables /\ r \notin Blending
    BY <1>2 DEF Post, Join, Claim, Count, Detach, Refuse, Answer, Blending
  <2>2. \A q \in Requests \ {r} : at'[q] = at[q] /\ key'[q] = key[q]
    BY <1>2 DEF Post, Join, Claim, Count, Detach, Refuse, Answer, Ends, Goes, TypeOK
  <2>. QED
    BY <2>1, <2>2 DEF Blending
<1>3. ASSUME NEW r \in Requests, Persist(r) \/ Log(r)
      PROVE  \A k \in cached' \ blended' :
                 k \in unranked' \/ \E q \in Blending' : key'[q] = k
  <2>1. key' = key /\ Blending' = Blending \union {r} /\ blended' = blended
    BY <1>3 DEF Persist, Log, Goes, Blending, TypeOK
  <2>2. \/ cached' = cached /\ unranked' = unranked
        \/ cached' = cached \union {key[r]} /\ unranked' = unranked \ {key[r]}
    BY <1>3 DEF Persist, Log
  <2>. QED
    BY <2>1, <2>2
<1>4. ASSUME NEW r \in Requests, Done(r) \/ \E stored \in BOOLEAN : Fails(r, stored)
      PROVE  \A k \in cached' \ blended' :
                 k \in unranked' \/ \E q \in Blending' : key'[q] = k
  <2>1. /\ Blending' = Blending \ {r}
        /\ \A q \in Requests \ {r} : key'[q] = key[q]
    BY <1>4 DEF Done, Fails, Ends, Goes, Blending, TypeOK
  <2>2. blended \subseteq blended' /\ unranked \ blended' \subseteq unranked'
    BY <1>4 DEF Done, Fails, LeftUnranked
  <2>3. \A k \in cached' \ blended' : k = key[r] =>
            k \in unranked' \/ (k \in cached /\ r \notin Blending)
    BY <1>4 DEF Done, Fails, LeftUnranked, Blending
  <2>4. \A k \in cached' : k \in cached \/ k = key[r]
    BY <1>4 DEF Done, Fails
  <2>. QED
    BY <2>1, <2>2, <2>3, <2>4 DEF Blending
<1>5. ASSUME NEW k \in Keys, View(k)
      PROVE  \A l \in cached' \ blended' :
                 l \in unranked' \/ \E r \in Blending' : key'[r] = l
  BY <1>5 DEF View, LeftUnranked, requests, Blending
<1>6. ASSUME NEW k \in Keys, Expire(k)
      PROVE  UNCHANGED tables /\ \A r \in Blending : r \in Blending' /\ key'[r] = key[r]
  BY <1>6 DEF Expire, requests, Blending
<1>7. CASE Restart
  BY <1>7 DEF Restart, LeftUnranked
<1>8. CASE Poll \/ UNCHANGED vars
  <2>1. UNCHANGED tables /\ \A r \in Blending : r \in Blending' /\ key'[r] = key[r]
    BY <1>8 DEF Poll, vars, requests, Blending
  <2>. QED
    BY <1>1, <2>1
<1>. QED
  BY <1>1, <1>2, <1>3, <1>4, <1>5, <1>6, <1>7, <1>8 DEF Next, Task

\* RankingIsOwned: a stored record whose verdict is not in the ranking has a
\* run under way that takes it there, unless the blend failed, the answer of
\* the write was lost or the process restarted.
THEOREM RankingFollows == Spec => []RankingIsOwned
<1>1. TypeOK /\ RankingIsOwned /\ [Next]_vars => RankingIsOwned'
  BY RankingStep
<1>. QED
  BY <1>1, RankingInit, ClaimsInvariant, PTL DEF Spec
=============================================================================
