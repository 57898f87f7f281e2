-------------------------- MODULE PollCycle_proofs --------------------------
(* The two sides of the poll cycle.  The lock around it: the accounting of   *)
(* the holds, for any replicas, forced polls, sessions and failures.  Who is *)
(* polled in it: nobody is overtaken twice, for any sources, cap and         *)
(* concurrency.                                                              *)
EXTENDS PollLock, PollQueue, FiniteSetTheorems, TLAPS

-----------------------------------------------------------------------------
(* The lock.                                                                 *)

IInv == TypeOK /\ HoldsAreAccountedFor

USE DEF Places, Workers

(* Sets of workers are finite, so the owners can be counted.                 *)
LEMMA WorkersCount ==
  \A S \in SUBSET Workers : IsFiniteSet(S) /\ Cardinality(S) \in Nat
BY WorkersAssumption, FS_Subset, FS_CardinalityType

(* The owners are workers, before and after a step.                          *)
LEMMA OwnersFinite ==
  /\ IsFiniteSet(Owners) /\ Cardinality(Owners) \in Nat
  /\ IsFiniteSet(Owners') /\ Cardinality(Owners') \in Nat
<1>1. Owners \subseteq Workers /\ Owners' \subseteq Workers
      BY DEF Owners
<1>2. QED BY <1>1, WorkersCount

(* A worker that becomes an owner adds one to them.                          *)
LEMMA OneMore ==
  ASSUME NEW w \in Workers, w \notin Owners, Owners' = Owners \union {w}
  PROVE  Cardinality(Owners') = Cardinality(Owners) + 1
BY OwnersFinite, FS_AddElement

(* A worker that stops being one takes one off.                              *)
LEMMA OneLess ==
  ASSUME NEW w \in Owners, Owners' = Owners \ {w}
  PROVE  Cardinality(Owners') = Cardinality(Owners) - 1
BY OwnersFinite, FS_RemoveElement

(* The owners after w moves to a place.                                      *)
LEMMA GotoOwners ==
  ASSUME TypeOK, NEW w \in Workers, NEW p \in Places, Goto(w, p)
  PROVE  /\ pc' \in [Workers -> Places]
         /\ IF p \in {"polling", "releasing", "unwinding"} \/ (w \in Forces /\ p = "checking")
            THEN Owners' = Owners \union {w}
            ELSE Owners' = Owners \ {w}
<1>1. pc' = [pc EXCEPT ![w] = p] /\ pc \in [Workers -> Places]
      BY DEF Goto, TypeOK
<1>2. QED BY <1>1 DEF Owners

(* Nothing was held, or lost: the owners do not matter to the accounts.      *)
LEMMA SameHolds ==
  ASSUME IInv, UNCHANGED holds, failures' \in Nat,
         Cardinality(Owners) + failures <= Cardinality(Owners') + failures'
  PROVE  HoldsAreAccountedFor'
<1>1. Cardinality(Owners') \in Nat
      BY OwnersFinite
<1>2. \A s \in Sessions : holds[s] \in Nat
      BY DEF IInv, TypeOK
<1>3. failures \in Nat
      BY BoundAssumption DEF IInv, TypeOK
<1>4. QED BY <1>1, <1>2, <1>3, OwnersFinite DEF IInv, HoldsAreAccountedFor

(* A step that keeps the holds and moves one worker, none or more failures   *)
(* making up for an owner that is lost.                                      *)
LEMMA MoveInv ==
  ASSUME IInv, NEW w \in Workers, NEW p \in Places, Goto(w, p),
         UNCHANGED holds, fresh' \in BOOLEAN, alarm' \in BOOLEAN,
         failures' \in failures .. MaxFailures,
         \/ failures' > failures
         \/ w \notin Owners
         \/ p \in {"polling", "releasing", "unwinding"} \/ (w \in Forces /\ p = "checking")
  PROVE  IInv'
<1>1. failures \in Nat /\ failures' \in Nat /\ failures' \in 0 .. MaxFailures /\ failures' >= failures
      BY BoundAssumption DEF IInv, TypeOK
<1>2. /\ pc' \in [Workers -> Places]
      /\ Owners' = Owners \union {w} \/ Owners' = Owners \ {w}
      BY GotoOwners DEF IInv
<1>3. TypeOK'
      BY <1>1, <1>2 DEF IInv, TypeOK
<1>4. Cardinality(Owners) + failures <= Cardinality(Owners') + failures'
      <2>1. CASE w \notin Owners
            <3>1. Owners' = Owners \/ Cardinality(Owners') = Cardinality(Owners) + 1
                  BY <1>2, <2>1, OneMore
            <3>2. QED BY <1>1, <3>1, OwnersFinite
      <2>2. CASE w \in Owners /\ failures' > failures
            <3>1. Owners' = Owners \/ Cardinality(Owners') = Cardinality(Owners) - 1
                  BY <1>2, <2>2, OneLess
            <3>2. QED BY <1>1, <2>2, <3>1, OwnersFinite
      <2>3. CASE w \in Owners /\ ~(failures' > failures)
            <3>1. Owners' = Owners
                  BY <2>3, GotoOwners DEF IInv
            <3>2. QED BY <1>1, <3>1, OwnersFinite
      <2>4. QED BY <2>1, <2>2, <2>3
<1>5. HoldsAreAccountedFor'
      BY <1>1, <1>4, SameHolds
<1>6. QED BY <1>3, <1>5 DEF IInv

(* A granted request adds one hold to the one session that may have any,     *)
(* and one owner, or one failure when the answer is lost.                    *)
LEMMA GrantInv ==
  ASSUME IInv, NEW w \in Workers, NEW s \in Sessions, pc[w] = "idle", Grants(s),
         holds' = [holds EXCEPT ![s] = @ + 1], UNCHANGED <<fresh, alarm>>,
         \/ Goto(w, "polling") /\ UNCHANGED failures
         \/ Skips(w) /\ Lose(1)
  PROVE  IInv'
<1>1. /\ failures \in 0 .. MaxFailures /\ MaxFailures \in Nat
      /\ holds \in [Sessions -> Nat] /\ w \notin Owners
      BY BoundAssumption DEF IInv, TypeOK, Owners
<1>2. /\ failures' \in 0 .. MaxFailures /\ pc' \in [Workers -> Places]
      /\ Cardinality(Owners') + failures' = Cardinality(Owners) + failures + 1
      <2>1. CASE Goto(w, "polling") /\ UNCHANGED failures
            <3>1. pc' \in [Workers -> Places] /\ Owners' = Owners \union {w}
                  BY <2>1, GotoOwners DEF IInv
            <3>2. Cardinality(Owners') = Cardinality(Owners) + 1
                  BY <1>1, <3>1, OneMore
            <3>3. QED BY <1>1, <2>1, <3>1, <3>2, OwnersFinite
      <2>2. CASE Skips(w) /\ Lose(1)
            <3>1. pc' \in [Workers -> Places] /\ Owners' = Owners \ {w}
                  <4>1. CASE w \in Ticks
                        <5>1. Goto(w, "checking") /\ w \notin Forces
                              BY <2>2, <4>1, WorkersAssumption DEF Skips
                        <5>2. QED BY <5>1, GotoOwners DEF IInv
                  <4>2. CASE w \notin Ticks
                        <5>1. Goto(w, "idle")
                              BY <2>2, <4>2 DEF Skips
                        <5>2. QED BY <5>1, GotoOwners DEF IInv
                  <4>3. QED BY <4>1, <4>2
            <3>2. Owners' = Owners
                  BY <1>1, <3>1
            <3>3. failures' = failures + 1 /\ failures + 1 <= MaxFailures
                  BY <2>2 DEF Lose
            <3>4. failures \in Nat /\ failures' \in 0 .. MaxFailures
                  BY <1>1, <3>3
            <3>5. Cardinality(Owners') = Cardinality(Owners) /\ Cardinality(Owners) \in Nat
                  BY <3>2, OwnersFinite
            <3>6. Cardinality(Owners') + failures' = Cardinality(Owners) + failures + 1
                  BY <3>3, <3>4, <3>5
            <3>7. QED BY <3>1, <3>4, <3>6
      <2>3. QED BY <2>1, <2>2
<1>3. \A o \in Sessions : holds'[o] = IF o = s THEN holds[o] + 1 ELSE 0
      BY <1>1 DEF Grants
<1>4. TypeOK'
      BY <1>1, <1>2 DEF IInv, TypeOK
<1>5. HoldsAreAccountedFor'
      <2>1. holds[s] <= Cardinality(Owners) + failures /\ holds[s] \in Nat
            BY <1>1 DEF IInv, HoldsAreAccountedFor
      <2>2. holds'[s] <= Cardinality(Owners') + failures'
            BY <1>1, <1>2, <1>3, <2>1, OwnersFinite
      <2>3. \A o \in Sessions : holds'[o] <= Cardinality(Owners') + failures'
            BY <1>2, <1>3, <2>2, OwnersFinite
      <2>4. \A o \in Sessions : holds'[o] > 0 => o = s
            BY <1>3
      <2>5. QED BY <2>3, <2>4 DEF HoldsAreAccountedFor
<1>6. QED BY <1>4, <1>5 DEF IInv

(* A release takes a hold off with its owner, or misses and counts as a      *)
(* failure, or finds the lock free.                                          *)
LEMMA ReleaseInv ==
  ASSUME IInv, NEW w \in Workers, NEW s \in Sessions, Release(w, s)
  PROVE  IInv'
<1>1. /\ failures \in Nat /\ MaxFailures \in Nat /\ holds \in [Sessions -> Nat] /\ w \in Owners
      /\ fresh' = fresh /\ alarm' = alarm /\ fresh \in BOOLEAN /\ alarm \in BOOLEAN
      BY BoundAssumption DEF IInv, TypeOK, Owners, Release, Releasing
<1>2. PICK p \in Places : /\ Goto(w, p)
                          /\ p = "idle" \/ (p = "checking" /\ pc[w] = "releasing")
      BY DEF Release, AfterRelease
<1>3. pc' \in [Workers -> Places]
      BY <1>2, GotoOwners DEF IInv
<1>4. Owners' = Owners \union {w} \/ Owners' = Owners \ {w}
      BY <1>2, GotoOwners DEF IInv
<1>5. Cardinality(Owners') >= Cardinality(Owners) - 1
      <2>1. Owners' = Owners \/ Cardinality(Owners') = Cardinality(Owners) - 1
            BY <1>1, <1>4, OneLess
      <2>2. QED BY <2>1, OwnersFinite
<1>6. CASE holds[s] > 0
      <2>1. holds' = [holds EXCEPT ![s] = @ - 1] /\ failures' = failures
            BY <1>6 DEF Release
      <2>2. \A o \in Sessions : holds'[o] = IF o = s THEN holds[s] - 1 ELSE 0
            BY <1>1, <1>6, <2>1 DEF IInv, HoldsAreAccountedFor
      <2>3. TypeOK'
            BY <1>1, <1>3, <1>6, <2>1 DEF IInv, TypeOK
      <2>4. holds[s] <= Cardinality(Owners) + failures /\ holds[s] \in Nat
            BY <1>1 DEF IInv, HoldsAreAccountedFor
      <2>5. holds'[s] <= Cardinality(Owners') + failures'
            BY <1>1, <1>5, <2>1, <2>2, <2>4, OwnersFinite
      <2>6. \A o \in Sessions : holds'[o] <= Cardinality(Owners') + failures'
            BY <1>1, <2>1, <2>2, <2>5, OwnersFinite
      <2>7. QED BY <2>2, <2>3, <2>6 DEF IInv, HoldsAreAccountedFor
<1>7. CASE ~(holds[s] > 0) /\ Held
      <2>1. holds' = holds /\ failures' = failures + 1 /\ failures + 1 <= MaxFailures
            BY <1>7 DEF Release, Lose
      <2>2. QED BY <1>1, <1>2, <2>1, MoveInv
<1>8. CASE ~(holds[s] > 0) /\ ~Held
      <2>1. holds' = holds /\ failures' = failures
            BY <1>8 DEF Release
      <2>2. \A o \in Sessions : holds'[o] = 0
            BY <1>1, <1>8, <2>1 DEF Held
      <2>3. TypeOK'
            BY <1>1, <1>3, <2>1 DEF IInv, TypeOK
      <2>4. QED BY <1>1, <2>1, <2>2, <2>3, OwnersFinite DEF IInv, HoldsAreAccountedFor
<1>9. QED BY <1>6, <1>7, <1>8

(* A crash costs the owners of its replica, one failure each.                *)
LEMMA CrashInv ==
  ASSUME IInv, NEW r, Crash(r)
  PROVE  IInv'
<1> DEFINE dying == {w \in Workers : Replica[w] = r /\ pc[w] # "down"}
           lost == dying \intersect Owners
<1>1. /\ failures \in Nat /\ MaxFailures \in Nat /\ Lose(Cardinality(lost))
      /\ pc' = [w \in Workers |-> IF w \in dying THEN "down" ELSE pc[w]]
      /\ UNCHANGED <<holds, fresh, alarm>>
      BY BoundAssumption DEF IInv, TypeOK, Crash
<1>2. Owners' = Owners \ lost
      BY <1>1 DEF Owners
<1> HIDE DEF dying
<1>3. IsFiniteSet(lost) /\ Cardinality(lost) \in Nat
      BY OwnersFinite, FS_Intersection, FS_CardinalityType
<1>4. Cardinality(Owners) = Cardinality(Owners') + Cardinality(lost)
      <2>1. Owners = Owners' \union lost /\ Owners' \intersect lost = {}
            BY <1>2
      <2>2. Cardinality(Owners) =
              Cardinality(Owners') + Cardinality(lost) - Cardinality(Owners' \intersect lost)
            BY <1>3, <2>1, OwnersFinite, FS_Union
      <2>3. Cardinality(Owners' \intersect lost) = 0
            BY <2>1, FS_EmptySet
      <2>4. QED BY <1>3, <2>2, <2>3, OwnersFinite
<1> HIDE DEF lost
<1>5. failures' = failures + Cardinality(lost) /\ failures' \in 0 .. MaxFailures
      BY <1>1, <1>3 DEF Lose
<1>6. TypeOK'
      BY <1>1, <1>5 DEF IInv, TypeOK
<1>7. HoldsAreAccountedFor'
      BY <1>1, <1>3, <1>4, <1>5, OwnersFinite, SameHolds
<1>8. QED BY <1>6, <1>7 DEF IInv

(* What leaves pc's owners alone, or the database to itself.                 *)
LEMMA EnvironmentInv ==
  ASSUME IInv, (\E r : Boot(r)) \/ StampsWithoutLock \/ StampsAge \/ (\E s \in Sessions : SessionEnds(s))
               \/ UNCHANGED vars
  PROVE  IInv'
<1>1. failures \in Nat /\ holds \in [Sessions -> Nat]
      BY BoundAssumption DEF IInv, TypeOK
<1>2. ASSUME NEW r, Boot(r) PROVE IInv'
      <2>1. TypeOK' /\ UNCHANGED <<holds, failures>>
            BY <1>2 DEF IInv, TypeOK, Boot
      <2>2. Owners' = Owners
            BY <1>2 DEF Owners, Boot
      <2>3. QED BY <1>1, <2>1, <2>2, OwnersFinite, SameHolds DEF IInv
<1>3. CASE StampsWithoutLock \/ StampsAge \/ UNCHANGED vars
      <2>1. /\ pc' = pc /\ holds' = holds /\ failures' = failures /\ alarm' = alarm
            /\ fresh' \in BOOLEAN
            BY <1>3 DEF IInv, TypeOK, StampsWithoutLock, StampsAge, vars
      <2>2. TypeOK'
            BY <2>1 DEF IInv, TypeOK
      <2>3. Owners' = Owners
            BY <2>1 DEF Owners
      <2>4. QED BY <1>1, <2>1, <2>2, <2>3, OwnersFinite, SameHolds DEF IInv
<1>4. ASSUME NEW s \in Sessions, SessionEnds(s) PROVE IInv'
      <2>1. TypeOK' /\ failures' = failures
            BY <1>4 DEF IInv, TypeOK, SessionEnds
      <2>2. \A o \in Sessions : holds'[o] = 0
            BY <1>1, <1>4 DEF IInv, HoldsAreAccountedFor, SessionEnds
      <2>3. QED BY <1>1, <2>1, <2>2, OwnersFinite DEF IInv, HoldsAreAccountedFor
<1>5. QED BY <1>2, <1>3, <1>4

(* Nobody polls at first, and the lock is free.                              *)
LEMMA InitInv == Init => IInv
<1> SUFFICES ASSUME Init PROVE IInv
    OBVIOUS
<1>1. Owners = {}
      BY DEF Init, Owners
<1>2. TypeOK
      <2>1. pc \in [Workers -> Places] /\ holds \in [Sessions -> Nat] /\ failures \in 0 .. MaxFailures
            BY BoundAssumption, SMT DEF Init
      <2>2. fresh \in BOOLEAN /\ alarm \in BOOLEAN
            BY Zenon DEF Init
      <2>3. QED BY <2>1, <2>2, Zenon DEF TypeOK
<1>3. Cardinality(Owners) = 0
      BY <1>1, FS_EmptySet
<1>4. QED BY <1>2, <1>3 DEF Init, IInv, HoldsAreAccountedFor

(* Every step keeps the inductive invariant.                                 *)
LEMMA NextInv == IInv /\ [Next]_vars => IInv'
<1> SUFFICES ASSUME IInv, [Next]_vars PROVE IInv'
    OBVIOUS
<1>1. failures \in Nat /\ MaxFailures \in Nat /\ failures <= MaxFailures
      /\ fresh \in BOOLEAN /\ alarm \in BOOLEAN
      BY BoundAssumption DEF IInv, TypeOK
<1>2. ASSUME NEW w \in Workers, Starts(w) PROVE IInv'
      <2>1. CASE \E s \in Sessions : Acquire(w, s) \/ AcquireAnswerLost(w, s)
            BY <2>1, GrantInv DEF Acquire, AcquireAnswerLost
      <2>2. CASE AcquireFails(w) \/ \E s \in Sessions : AcquireRefused(w, s)
            <3>1. /\ pc[w] = "idle" /\ Skips(w) /\ UNCHANGED <<holds, fresh, alarm, failures>>
                  BY <2>2 DEF AcquireFails, AcquireRefused
            <3>2. PICK p \in Places : Goto(w, p)
                  BY <3>1 DEF Skips
            <3>3. w \notin Owners
                  BY <3>1 DEF Owners
            <3>4. QED BY <1>1, <3>1, <3>2, <3>3, MoveInv
      <2>3. QED BY <1>2, <2>1, <2>2 DEF Starts
<1>3. ASSUME NEW w \in Workers, PollStamps(w) PROVE IInv'
      BY <1>3 DEF IInv, TypeOK, HoldsAreAccountedFor, Owners, PollStamps
<1>4. ASSUME NEW w \in Workers, Ends(w) PROVE IInv'
      <2>1. ASSUME AfterPoll(w) PROVE IInv'
            <3>1. PICK p \in Places : /\ Goto(w, p)
                                      /\ p = "releasing" \/ (w \in Forces /\ p = "checking")
                  BY <2>1 DEF AfterPoll
            <3>2. UNCHANGED <<holds, fresh, alarm, failures>>
                  BY <2>1 DEF AfterPoll
            <3>3. QED BY <1>1, <3>1, <3>2, MoveInv
      <2>2. ASSUME PollRaises(w) PROVE IInv'
            BY <1>1, <2>2, MoveInv DEF PollRaises
      <2>3. ASSUME ReleaseFails(w) PROVE IInv'
            <3>1. PICK p \in Places : Goto(w, p)
                  BY <2>3 DEF ReleaseFails, AfterRelease
            <3>2. /\ UNCHANGED <<holds, fresh, alarm>> /\ failures' > failures
                  /\ failures' \in failures .. MaxFailures
                  BY <1>1, <2>3 DEF ReleaseFails, Lose
            <3>3. QED BY <1>1, <3>1, <3>2, MoveInv
      <2>4. ASSUME HealthCheck(w) \/ HealthCheckFails(w) PROVE IInv'
            <3>1. PICK p \in Places : Goto(w, p) /\ p = IF w \in Ticks THEN "idle" ELSE "unwinding"
                  BY <2>4 DEF HealthCheck, HealthCheckFails
            <3>2. UNCHANGED <<holds, fresh, failures>> /\ alarm' \in BOOLEAN /\ pc[w] = "checking"
                  BY <1>1, <2>4 DEF HealthCheck, HealthCheckFails
            <3>3. w \notin Owners \/ p = "unwinding"
                  BY <3>1, <3>2, WorkersAssumption DEF Owners
            <3>4. QED BY <1>1, <3>1, <3>2, <3>3, MoveInv
      <2>5. QED BY <1>4, <2>1, <2>2, <2>3, <2>4, ReleaseInv DEF Ends, PollReturns, WatchdogFires
<1>5. QED BY <1>2, <1>3, <1>4, CrashInv, EnvironmentInv DEF Next

(* The lock's counts and the workers' places stay in their domains.          *)
THEOREM PollLockTypeOK == Spec => []TypeOK
BY InitInv, NextInv, PTL DEF Spec, IInv

(* Every hold but the ones that failures leaked has a worker that will       *)
(* release it: no exit of a poll, by any of the workers, forgets to.         *)
THEOREM HoldsAlwaysAccountedFor == Spec => []HoldsAreAccountedFor
BY InitInv, NextInv, PTL DEF Spec, IInv

HIDE DEF Places, Workers

-----------------------------------------------------------------------------
(* The queue.                                                                *)

USE QueueAssumption

\* Who was polled since a source began to wait has the later stamp.
PassedIsYounger ==
    \A s, t \in Sources : t \in passed[s] => s \in older[t] /\ Waits(s)

\* In a batch that was cut, those that were passed come before who passed them.
InTurn ==
    capped => \A j \in DOMAIN batch, s \in Sources :
                 batch[j] \in passed[s] => \E i \in 1 .. j - 1 : batch[i] = s

QueueInv == QueueTypeOK /\ PassedIsYounger /\ InTurn

-----------------------------------------------------------------------------
(* Orders and batches.                                                       *)

\* An order lists every row once.
LEMMA OrderIsOnto ==
    ASSUME NEW S, IsFiniteSet(S), NEW o \in Orders(S)
    PROVE  /\ o \in Seq(S) /\ Len(o) = Cardinality(S)
           /\ \A i, j \in DOMAIN o : i # j => o[i] # o[j]
           /\ \A x \in S : \E i \in DOMAIN o : o[i] = x
<1> DEFINE n == Cardinality(S)
<1>1. n \in Nat
    BY FS_CardinalityType
<1>2. /\ o \in [1 .. n -> S]
      /\ \A i, j \in 1 .. n : i # j => o[i] # o[j]
    BY DEF Orders, SetToSeqs
<1>3. o \in Injection(1 .. n, S)
    BY <1>2 DEF Injection, IsInjective
<1>4. Cardinality(1 .. n) = n /\ IsFiniteSet(1 .. n)
    BY <1>1, FS_Interval
<1>5. o \in Surjection(1 .. n, S)
    BY <1>3, <1>4, FS_Injection
<1>6. \A x \in S : \E i \in 1 .. n : o[i] = x
    BY <1>5 DEF Surjection
<1> HIDE DEF n
<1>7. o \in Seq(S) /\ Len(o) = n /\ DOMAIN o = 1 .. n
    BY <1>1, <1>2
<1>8. QED
    BY <1>2, <1>6, <1>7 DEF n

\* A batch cut at n has distinct rows, and before each of them all older ones.
LEMMA CutBatch ==
    ASSUME QueueTypeOK, NEW S \in SUBSET Sources, NEW n \in Nat, n < Cardinality(S),
           NEW q \in MostOverdue(S, n)
    PROVE  /\ q \in Seq(Sources)
           /\ \A i, j \in DOMAIN q : i # j => q[i] # q[j]
           /\ \A j \in DOMAIN q, s \in S :
                s \in older[q[j]] => \E i \in 1 .. j - 1 : q[i] = s
<1>1. IsFiniteSet(S)
    BY FS_Subset
<1>2. PICK o \in Orders(S) : /\ q = SubSeq(o, 1, n)
                             /\ \A i, j \in DOMAIN o : i < j => o[j] \notin older[o[i]]
    BY DEF MostOverdue
<1>3. /\ o \in Seq(S) /\ Len(o) = Cardinality(S)
      /\ \A i, j \in DOMAIN o : i # j => o[i] # o[j]
      /\ \A x \in S : \E i \in DOMAIN o : o[i] = x
    BY <1>1, OrderIsOnto
<1>4. Cardinality(S) \in Nat
    BY <1>1, FS_CardinalityType
<1>5. DOMAIN o = 1 .. Len(o) /\ \A i \in 1 .. Len(o) : o[i] \in S
    BY <1>3
<1>6. q = [i \in 1 .. n |-> o[i]]
    BY <1>2
<1>7. DOMAIN q = 1 .. n /\ \A i \in 1 .. n : q[i] = o[i] /\ i \in DOMAIN o
    BY <1>3, <1>4, <1>5, <1>6
<1>8. q \in Seq(Sources)
    BY <1>5, <1>6, <1>7
<1>9. ASSUME NEW j \in 1 .. n, NEW s \in S, s \in older[q[j]]
      PROVE  \E i \in 1 .. j - 1 : q[i] = s
    <2>1. PICK i \in DOMAIN o : o[i] = s
        BY <1>3
    <2>2. o[j] \in Sources /\ s \in Sources /\ s \in older[o[j]]
        BY <1>5, <1>7, <1>9
    <2>3. s # o[j]
        BY <2>2 DEF QueueTypeOK
    <2>4. ~ (j < i)
        BY <1>2, <1>7, <2>1, <2>2
    <2>5. i \in 1 .. j - 1 /\ i \in 1 .. n
        BY <1>3, <1>4, <1>5, <2>1, <2>3, <2>4
    <2>6. QED
        BY <1>7, <2>1, <2>5
<1>10. QED
    BY <1>3, <1>7, <1>8, <1>9

\* One more slot taken, or one less.
LEMMA Slots ==
    ASSUME NEW P \in SUBSET Sources, NEW s
    PROVE  /\ Cardinality(P) \in Nat /\ Cardinality(P \union {s}) \in Nat
           /\ Cardinality(P \ {s}) \in Nat
           /\ Cardinality(P \union {s}) <= Cardinality(P) + 1
           /\ Cardinality(P \ {s}) <= Cardinality(P)
<1>1. IsFiniteSet(P)
    BY FS_Subset
<1>2. Cardinality(P) \in Nat
    BY <1>1, FS_CardinalityType
<1>3. Cardinality(P \union {s}) = IF s \in P THEN Cardinality(P) ELSE Cardinality(P) + 1
    BY <1>1, FS_AddElement
<1>4. IsFiniteSet(P \ {s})
      /\ Cardinality(P \ {s}) = IF s \in P THEN Cardinality(P) - 1 ELSE Cardinality(P)
    BY <1>1, FS_RemoveElement
<1>5. Cardinality(P \ {s}) \in Nat
    BY <1>4, FS_CardinalityType
<1>6. QED
    BY <1>2, <1>3, <1>4, <1>5

-----------------------------------------------------------------------------

LEMMA QueueInitInv == QueueInit => QueueInv
<1> SUFFICES ASSUME QueueInit PROVE QueueInv
    OBVIOUS
<1>1. Cardinality({}) = 0
    BY FS_EmptySet
<1>2. batch \in Seq(Sources) /\ DOMAIN batch = {}
    BY DEF QueueInit
<1>3. Cardinality(polling) <= Concurrency
    BY <1>1 DEF QueueInit
<1>4. QueueTypeOK
    BY <1>2, <1>3 DEF QueueInit, QueueTypeOK
<1>5. PassedIsYounger /\ InTurn
    BY DEF QueueInit, PassedIsYounger, InTurn
<1>6. QED
    BY <1>4, <1>5 DEF QueueInv

\* A stamp keeps the order strict.
LEMMA StampKeeps ==
    ASSUME QueueTypeOK, NEW s \in Sources, Stamp(s)
    PROVE  /\ older' \in [Sources -> SUBSET Sources] /\ resting' \subseteq Sources
           /\ \A t, u \in Sources : t \in older'[u] => u \notin older'[t]
BY DEF QueueTypeOK, Stamp

\* Those that stop waiting forget; the others keep what they had.
LEMMA ForgetKeeps ==
    ASSUME QueueTypeOK, Forget
    PROVE  /\ passed' \in [Sources -> SUBSET Sources]
           /\ \A s \in Sources : passed'[s] \subseteq passed[s]
           /\ \A s, t \in Sources : t \in passed'[s] => Waits(s)'
BY DEF QueueTypeOK, Forget

LEMMA QueueNextInv == QueueInv /\ [QueueNext]_queueVars => QueueInv'
<1> SUFFICES ASSUME QueueInv, [QueueNext]_queueVars PROVE QueueInv'
    OBVIOUS
<1> USE DEF QueueInv
<1>1. CASE Read
    <2> DEFINE due == {s \in enabled' \ resting : wanted \/ s \notin Paid}
    <2>1. /\ enabled' \subseteq Sources /\ due \subseteq Sources
          /\ capped' = (Cap > 0 /\ Cardinality(due) > Cap)
          /\ batch' \in IF capped' THEN MostOverdue(due, Cap) ELSE Orders(due)
          /\ first' = FirstWave(batch')
          /\ UNCHANGED <<older, resting, wanted, polling>>
          /\ polling = {}
          /\ Forget
        BY <1>1 DEF Read, Idle, QueueTypeOK
    <2> HIDE DEF due
    <2>2. /\ batch' \in Seq(Sources)
          /\ \A i, j \in DOMAIN batch' : i # j => batch'[i] # batch'[j]
        <3>1. CASE capped'
            <4>1. Cap \in Nat /\ Cap < Cardinality(due) /\ due \in SUBSET Sources
                BY <2>1, <3>1
            <4>2. batch' \in MostOverdue(due, Cap)
                BY <2>1, <3>1
            <4>3. QED
                BY <4>1, <4>2, CutBatch
        <3>2. CASE ~capped'
            <4>1. IsFiniteSet(due)
                BY <2>1, FS_Subset
            <4>2. batch' \in Seq(due)
                BY <2>1, <3>2, <4>1, OrderIsOnto
            <4>3. batch' \in Seq(Sources)
                BY <2>1, <4>2
            <4>4. QED
                BY <2>1, <3>2, <4>1, <4>3, OrderIsOnto
        <3>3. QED
            BY <3>1, <3>2
    <2>3. first' \subseteq Sources
        <3>1. \A i \in DOMAIN batch' : batch'[i] \in Sources
            BY <2>2
        <3>2. QED
            BY <2>1, <3>1, Zenon DEF FirstWave
    <2>4. QueueTypeOK'
        <3>1. capped' \in BOOLEAN
            BY <2>1
        <3>2. passed' \in [Sources -> SUBSET Sources]
            BY <2>1, ForgetKeeps
        <3>3. \A i \in DOMAIN batch' : batch'[i] \notin polling'
            BY <2>1
        <3>4. QED
            BY <2>1, <2>2, <2>3, <3>1, <3>2, <3>3 DEF QueueTypeOK
    <2>5. PassedIsYounger'
        BY <2>1, ForgetKeeps DEF PassedIsYounger
    <2>6. InTurn'
        <3> SUFFICES ASSUME capped', NEW j \in DOMAIN batch', NEW s \in Sources,
                            batch'[j] \in passed'[s]
                     PROVE  \E i \in 1 .. j - 1 : batch'[i] = s
            BY DEF InTurn
        <3>1. batch'[j] \in Sources
            BY <2>2
        <3>2. s \in older[batch'[j]] /\ Waits(s)'
            BY <2>1, <2>5, <3>1 DEF PassedIsYounger
        <3>3. s \in due
            BY <2>1, <3>2 DEF Waits, due
        <3>4. Cap \in Nat /\ Cap < Cardinality(due) /\ due \in SUBSET Sources
            BY <2>1
        <3>5. batch' \in MostOverdue(due, Cap)
            BY <2>1
        <3>6. QED
            BY <3>2, <3>3, <3>4, <3>5, CutBatch
    <2>7. QED
        BY <2>4, <2>5, <2>6
<1>2. ASSUME NEW s \in Sources, Start(s)
      PROVE  QueueInv'
    <2>1. /\ batch # <<>> /\ s = Head(batch)
          /\ batch' = Tail(batch)
          /\ polling' = polling \union {s}
          /\ passed' = [passed EXCEPT ![s] = {}]
          /\ Cardinality(polling) < Concurrency
          /\ UNCHANGED <<rows, wanted, first, capped>>
        BY <1>2 DEF Start
    <2>2. /\ batch' \in Seq(Sources)
          /\ s = batch[1] /\ 1 \in DOMAIN batch
          /\ \A i \in DOMAIN batch' :
               i + 1 \in DOMAIN batch /\ batch'[i] = batch[i + 1] /\ i \in Nat \ {0}
        <3>1. batch \in Seq(Sources) /\ batch # <<>> /\ batch' = Tail(batch)
            BY <2>1 DEF QueueTypeOK
        <3>2. s = batch[1] /\ 1 \in DOMAIN batch
            BY <2>1, <3>1
        <3>3. batch' \in Seq(Sources)
            BY <3>1
        <3>4. \A i \in DOMAIN batch' :
                i + 1 \in DOMAIN batch /\ batch'[i] = batch[i + 1] /\ i \in Nat \ {0}
            BY <3>1
        <3>5. QED
            BY <3>2, <3>3, <3>4
    <2>3. \A i, j \in DOMAIN batch' : i # j => batch'[i] # batch'[j]
        BY <2>2 DEF QueueTypeOK
    <2>4. \A i \in DOMAIN batch' : batch'[i] \notin polling'
        BY <2>1, <2>2 DEF QueueTypeOK
    <2>5. Cardinality(polling') <= Concurrency
        <3>1. polling \in SUBSET Sources /\ Cardinality(polling) <= Concurrency
            BY DEF QueueTypeOK
        <3>2. /\ Cardinality(polling) \in Nat /\ Cardinality(polling \union {s}) \in Nat
              /\ Cardinality(polling \union {s}) <= Cardinality(polling) + 1
            BY <3>1, Slots
        <3>3. polling' = polling \union {s}
            BY <2>1
        <3>4. QED
            BY <2>1, <3>1, <3>2, <3>3
    <2>6. QueueTypeOK'
        BY <2>1, <2>2, <2>3, <2>4, <2>5 DEF QueueTypeOK, rows
    <2>7. PassedIsYounger'
        BY <2>1 DEF PassedIsYounger, QueueTypeOK, rows, Waits
    <2>8. InTurn'
        <3> SUFFICES ASSUME capped', NEW j \in DOMAIN batch', NEW t \in Sources,
                            batch'[j] \in passed'[t]
                     PROVE  \E i \in 1 .. j - 1 : batch'[i] = t
            BY DEF InTurn
        <3>1. t # s /\ batch[j + 1] \in passed[t]
            BY <2>1, <2>2 DEF QueueTypeOK
        <3>2. PICK i \in 1 .. j : batch[i] = t
            BY <2>1, <2>2, <3>1 DEF InTurn
        <3>3. i # 1
            BY <2>2, <3>1, <3>2
        <3>4. i - 1 \in 1 .. j - 1 /\ i - 1 \in DOMAIN batch' /\ (i - 1) + 1 = i
            BY <2>2, <3>2, <3>3
        <3>5. QED
            BY <2>2, <3>2, <3>4
    <2>9. QED
        BY <2>6, <2>7, <2>8
<1>3. ASSUME NEW s \in Sources, Polled(s)
      PROVE  QueueInv'
    <2>1. /\ s \in polling /\ polling' = polling \ {s} /\ first' = first \ {s}
          /\ UNCHANGED <<batch, capped, wanted>>
          /\ Stamp(s) /\ enabled' \in {enabled, enabled \ {s}}
          /\ Remember(s)
        BY <1>3 DEF Polled, Leaves
    <2>2. ~Waits(s)'
        BY <2>1 DEF Stamp, Waits
    <2>3. Cardinality(polling') <= Concurrency
        <3>1. polling \in SUBSET Sources /\ Cardinality(polling) <= Concurrency
            BY DEF QueueTypeOK
        <3>2. /\ Cardinality(polling) \in Nat /\ Cardinality(polling \ {s}) \in Nat
              /\ Cardinality(polling \ {s}) <= Cardinality(polling)
            BY <3>1, Slots
        <3>3. polling' = polling \ {s}
            BY <2>1
        <3>4. QED
            BY <3>1, <3>2, <3>3
    <2>4. passed' \in [Sources -> SUBSET Sources]
        BY <2>1 DEF Remember, QueueTypeOK
    <2>5. QueueTypeOK'
        <3>1. enabled' \subseteq Sources
            BY <2>1 DEF QueueTypeOK
        <3>2. QED
            BY <2>1, <2>3, <2>4, <3>1, StampKeeps DEF QueueTypeOK
    <2>6. ASSUME NEW t \in Sources, NEW u \in Sources, u \in passed'[t]
          PROVE  Waits(t)' /\ t # s /\ (u = s \/ u \in passed[t])
        <3>1. Waits(t)' /\ t # s
            BY <2>1, <2>2, <2>6 DEF Remember
        <3>2. QED
            BY <2>1, <2>6, <3>1 DEF Remember
    <2>7. PassedIsYounger'
        BY <2>1, <2>6 DEF PassedIsYounger, Stamp, QueueTypeOK
    <2>8. InTurn'
        <3> SUFFICES ASSUME capped', NEW j \in DOMAIN batch', NEW t \in Sources,
                            batch'[j] \in passed'[t]
                     PROVE  \E i \in 1 .. j - 1 : batch'[i] = t
            BY DEF InTurn
        <3>1. batch[j] \in Sources /\ batch[j] # s
            BY <2>1 DEF QueueTypeOK
        <3>2. batch[j] \in passed[t]
            BY <2>1, <2>6, <3>1
        <3>3. QED
            BY <2>1, <3>2 DEF InTurn
    <2>9. QED
        BY <2>5, <2>7, <2>8
<1>4. ASSUME NEW s \in Sources, Unstamped(s)
      PROVE  QueueInv'
    <2>1. /\ s \in polling /\ polling' = polling \ {s} /\ first' = first \ {s}
          /\ UNCHANGED <<batch, capped, rows, wanted, passed>>
        BY <1>4 DEF Unstamped, Leaves
    <2>2. Cardinality(polling') <= Concurrency
        <3>1. polling \in SUBSET Sources /\ Cardinality(polling) <= Concurrency
            BY DEF QueueTypeOK
        <3>2. /\ Cardinality(polling) \in Nat /\ Cardinality(polling \ {s}) \in Nat
              /\ Cardinality(polling \ {s}) <= Cardinality(polling)
            BY <3>1, Slots
        <3>3. polling' = polling \ {s}
            BY <2>1
        <3>4. QED
            BY <3>1, <3>2, <3>3
    <2>3. QueueTypeOK'
        BY <2>1, <2>2 DEF QueueTypeOK, rows
    <2>4. PassedIsYounger' /\ InTurn'
        BY <2>1 DEF PassedIsYounger, InTurn, Waits, rows
    <2>5. QED
        BY <2>3, <2>4
\* The cycle ends without what was left.
<1>5. CASE Watchdog \/ Restart
    <2>1. /\ batch' = <<>> /\ polling' = {} /\ first' \in {first, {}}
          /\ UNCHANGED <<rows, wanted, capped, passed>>
        BY <1>5 DEF Watchdog, Restart
    <2>2. Cardinality(polling') <= Concurrency
        BY <2>1, FS_EmptySet
    <2>3. QueueTypeOK'
        BY <2>1, <2>2 DEF QueueTypeOK, rows
    <2>4. PassedIsYounger' /\ InTurn'
        BY <2>1 DEF PassedIsYounger, InTurn, Waits, rows
    <2>5. QED
        BY <2>3, <2>4
<1>6. ASSUME NEW s \in Sources, PollForTarget(s)
      PROVE  QueueInv'
    <2>1. /\ Stamp(s) /\ Forget /\ UNCHANGED <<enabled, wanted, cycle>>
        BY <1>6 DEF PollForTarget
    <2>2. QueueTypeOK'
        BY <2>1, StampKeeps, ForgetKeeps DEF QueueTypeOK, cycle
    <2>3. ~Waits(s)'
        BY <2>1 DEF Stamp, Waits
    <2>4. PassedIsYounger'
        <3> SUFFICES ASSUME NEW t \in Sources, NEW u \in Sources, u \in passed'[t]
                     PROVE  t \in older'[u] /\ Waits(t)'
            BY DEF PassedIsYounger
        <3>1. Waits(t)' /\ u \in passed[t]
            BY <2>1, ForgetKeeps
        <3>2. t # s /\ t \in older[u]
            BY <2>3, <3>1 DEF PassedIsYounger
        <3>3. QED
            BY <2>1, <3>1, <3>2 DEF Stamp, QueueTypeOK
    <2>5. InTurn'
        BY <2>1, ForgetKeeps DEF InTurn, cycle
    <2>6. QED
        BY <2>2, <2>4, <2>5
\* A row or the targets change, and the stamps stay.
<1>7. ASSUME \/ \E s \in Sources : Elapse(s) \/ Toggle(s)
             \/ TargetsChange
      PROVE  QueueInv'
    <2>1. /\ Forget /\ UNCHANGED <<older, cycle>>
          /\ enabled' \subseteq Sources /\ resting' \subseteq Sources /\ wanted' \in BOOLEAN
        BY <1>7 DEF Elapse, Toggle, TargetsChange, QueueTypeOK, rows
    <2>2. QueueTypeOK'
        BY <2>1, ForgetKeeps DEF QueueTypeOK, cycle
    <2>3. PassedIsYounger'
        BY <2>1, ForgetKeeps DEF PassedIsYounger
    <2>4. InTurn'
        BY <2>1, ForgetKeeps DEF InTurn, cycle
    <2>5. QED
        BY <2>2, <2>3, <2>4
<1>8. CASE UNCHANGED queueVars
    <2>1. QueueTypeOK'
        BY <1>8 DEF queueVars, rows, cycle, QueueTypeOK
    <2>2. PassedIsYounger' /\ InTurn'
        BY <1>8 DEF queueVars, rows, cycle, PassedIsYounger, InTurn, Waits
    <2>3. QED
        BY <2>1, <2>2
<1>9. QED
    BY <1>1, <1>2, <1>3, <1>4, <1>5, <1>6, <1>7, <1>8 DEF QueueNext

-----------------------------------------------------------------------------

\* QueueTypeOK: the queue keeps its types, a batch holds a source once, and the
\* semaphore its count, for any sources, cap and concurrency.
THEOREM QueueTypes == QueueSpec => []QueueTypeOK
<1>1. QueueInv => QueueTypeOK
    BY DEF QueueInv
<1>2. QED
    BY QueueInitInv, QueueNextInv, <1>1, PTL DEF QueueSpec

\* NoOvertaking: a cycle that has to choose gives no slot to a source that was
\* polled since another one began to wait, for any sources, cap and concurrency.
THEOREM NobodyOvertakenTwice == QueueSpec => NoOvertaking
<1>1. ASSUME QueueInv, NEW s \in Sources, NEW t \in Sources, Start(t), capped
      PROVE  t \notin passed[s]
    <2>1. 1 \in DOMAIN batch /\ batch[1] = t
        BY <1>1 DEF QueueInv, QueueTypeOK, Start
    <2>2. QED
        BY <1>1, <2>1 DEF QueueInv, InTurn
<1>2. QueueInv /\ [QueueNext]_queueVars
        => [\A s, t \in Sources : Start(t) /\ capped => t \notin passed[s]]_queueVars
    BY <1>1
<1>3. QED
    BY QueueInitInv, QueueNextInv, <1>2, PTL DEF QueueSpec, NoOvertaking
=============================================================================
