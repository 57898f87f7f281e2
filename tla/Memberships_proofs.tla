-------------------------- MODULE Memberships_proofs ------------------------
(* Safety of the memberships, for any users, targets, caps and tasks.        *)
EXTENDS Memberships, FiniteSetTheorems, TLAPS

(* Some task of T is about to reap t.                                        *)
Pending(T, t) == \E x \in T : Reaping(x) /\ x.target = t

(* A task of T that holds a row id and is live acts on a row in E, and a     *)
(* reap that is past its snapshot is of a row that is not sponsored.         *)
HasRow(T, E) == \A x \in T : /\ x.stage \notin ByLabel /\ x.live => x.target \in E
                             /\ x.stage = "reaping" => x.target \notin Sponsored

(* Who follows a row that a reap is past its snapshot of came after it.      *)
LateOnly == \A o \in Targets : Doomed(o) => \A v \in Users : o \in links[v] => o \in raced[v]

IInv == /\ TypeOK /\ ActiveCap /\ NothingResurrected /\ NothingSwitchedOff
        /\ SponsoredStay /\ OrphansAreReaped /\ HasRow(tasks, exists) /\ LateOnly

USE DEF ByLabel, Stages

(* The shapes of the state that the steps rely on.                           *)
LEMMA Typed ==
  ASSUME TypeOK
  PROVE  /\ exists \subseteq Targets /\ strays \subseteq Targets
         /\ links \in [Users -> SUBSET exists] /\ links \in [Users -> SUBSET Targets]
         /\ active \in [Users -> SUBSET Targets] /\ scored \in [Users -> SUBSET Targets]
         /\ chosen \in [Users -> SUBSET Targets] /\ chosenActive \in [Users -> SUBSET Targets]
         /\ raced \in [Users -> SUBSET Targets]
         /\ \A u \in Users : active[u] \subseteq links[u] /\ scored[u] \subseteq links[u]
         /\ tasks \subseteq Task
BY DEF TypeOK

(* Starting, moving and ending a task.                                       *)
LEMMA StartInv ==
  ASSUME TypeOK, NEW k \in Tasks, NEW s \in Stages, NEW u \in Users, NEW t \in Targets,
         NEW E, HasRow(tasks, E), s \in ByLabel \/ t \in E, s # "reaping",
         Start(k, s, u, t)
  PROVE  /\ tasks' \in SUBSET Task /\ HasRow(tasks', E)
         /\ \A o : Pending(tasks, o) => Pending(tasks', o)
         /\ \A o : Doomed(o)' => Doomed(o)
         /\ s = "unlinked" => Pending(tasks', t)
<1> DEFINE y == [id |-> k, stage |-> s, user |-> u, target |-> t, live |-> TRUE]
<1>1. y \in Task
      BY Zenon DEF Task
<1>2. tasks' = tasks \union {y}
      BY DEF Start
<1>3. y.stage = s /\ y.target = t /\ y.live
      OBVIOUS
<1> HIDE DEF y
<1>4. tasks' \in SUBSET Task
      BY <1>1, <1>2, Typed
<1>5. HasRow(tasks', E)
      BY <1>2, <1>3 DEF HasRow
<1>6. \A o : Pending(tasks, o) => Pending(tasks', o)
      BY <1>2 DEF Pending
<1>7. s = "unlinked" => Pending(tasks', t)
      BY <1>2, <1>3 DEF Pending, Reaping
<1>8. \A o : Doomed(o)' => Doomed(o)
      BY <1>2, <1>3 DEF Doomed
<1>9. QED BY <1>4, <1>5, <1>6, <1>7, <1>8

(* A task that moves on stays typed and on its row, and pending reaps stay.  *)
LEMMA GoInv ==
  ASSUME TypeOK, NEW x \in tasks, NEW s \in Stages \ ByLabel,
         NEW E, HasRow(tasks, E), x.target \in E, Go(x, s),
         s = "reaping" => x.target \notin Sponsored
  PROVE  /\ tasks' \in SUBSET Task /\ HasRow(tasks', E)
         /\ x.stage \in {"attach", "create"} \/ s = "reaping" =>
              \A o : Pending(tasks, o) => Pending(tasks', o)
         /\ \A o : Doomed(o)' => Doomed(o) \/ (s = "reaping" /\ o = x.target)
<1> DEFINE y == [x EXCEPT !.stage = s]
<1>1. x \in Task
      BY Typed
<1>2. y \in Task /\ y.stage = s /\ y.target = x.target /\ y.live = x.live
      BY <1>1, SMT DEF Task
<1>3. tasks' = (tasks \ {x}) \union {y}
      BY DEF Go
<1> HIDE DEF y
<1>4. tasks' \in SUBSET Task
      BY <1>2, <1>3, Typed
<1>5. HasRow(tasks', E)
      BY <1>2, <1>3 DEF HasRow
<1>6. ASSUME x.stage \in {"attach", "create"} \/ s = "reaping", NEW o, Pending(tasks, o)
      PROVE  Pending(tasks', o)
      BY <1>2, <1>3, <1>6 DEF Pending, Reaping
<1>7. \A o : Doomed(o)' => Doomed(o) \/ (s = "reaping" /\ o = x.target)
      BY <1>2, <1>3 DEF Doomed
<1>8. QED BY <1>4, <1>5, <1>6, <1>7

(* A task that ends takes away no reap but its own.                          *)
LEMMA EndInv ==
  ASSUME TypeOK, NEW x \in tasks, NEW E, HasRow(tasks, E), End(x)
  PROVE  /\ tasks' \in SUBSET Task /\ HasRow(tasks', E)
         /\ \A o : Pending(tasks, o) /\ (~Reaping(x) \/ o # x.target) => Pending(tasks', o)
         /\ \A o : Doomed(o)' => Doomed(o)
BY DEF TypeOK, HasRow, End, Pending, Reaping, Doomed

(* An orphan is accounted for if it was before and nothing took that away.   *)
LEMMA OrphansInv ==
  ASSUME OrphansAreReaped,
         \A t \in Orphans' : \/ t \in strays' \/ Pending(tasks', t)
                             \/ /\ t \in Orphans
                                /\ t \in strays => t \in strays'
                                /\ Pending(tasks, t) => Pending(tasks', t)
  PROVE  OrphansAreReaped'
BY DEF OrphansAreReaped, Pending, Reaping

(* A user's active targets are finitely many, and adding one where the cap   *)
(* leaves room keeps to the cap.                                             *)
LEMMA RoomMeansRoom ==
  ASSUME TypeOK, NEW u \in Users, NEW t \in Targets, NEW S, Room(u, t, S)
  PROVE  Cardinality((active[u] \ S) \union {t}) <= Cap[u]
<1> DEFINE A == (active[u] \ S) \ {t}
<1>1. IsFiniteSet(A)
      <2>1. A \subseteq Targets
            BY Typed
      <2>2. QED BY <2>1, TargetsAssumption, FS_Subset
<1>2. (active[u] \ S) \union {t} = A \union {t}
      OBVIOUS
<1>3. Cardinality(A \union {t}) = Cardinality(A) + 1
      BY <1>1, FS_AddElement
<1>4. Cardinality(A) \in Nat /\ Cap[u] \in Nat /\ Cardinality(A) < Cap[u]
      BY <1>1, FS_CardinalityType, CapAssumption DEF Room
<1>5. QED BY <1>2, <1>3, <1>4

(* Taking targets away keeps to it too.                                      *)
LEMMA LessIsLess ==
  ASSUME TypeOK, ActiveCap, NEW u \in Users, NEW S \in SUBSET active[u]
  PROVE  Cardinality(S) <= Cap[u]
<1>1. IsFiniteSet(active[u])
      <2>1. active[u] \subseteq Targets
            BY Typed
      <2>2. QED BY <2>1, TargetsAssumption, FS_Subset
<1>2. IsFiniteSet(S) /\ Cardinality(S) <= Cardinality(active[u])
      BY <1>1, FS_Subset
<1>3. Cardinality(S) \in Nat /\ Cardinality(active[u]) \in Nat /\ Cap[u] \in Nat
      BY <1>1, <1>2, FS_CardinalityType, CapAssumption
<1>4. Cardinality(active[u]) <= Cap[u]
      BY DEF ActiveCap
<1>5. QED BY <1>2, <1>3, <1>4

(* At first there are the sponsored rows only.                               *)
LEMMA InitInv == Init => IInv
<1> SUFFICES ASSUME Init PROVE IInv
    OBVIOUS
<1>1. TypeOK
      BY TargetsAssumption DEF Init, TypeOK
<1>2. ActiveCap
      BY FS_EmptySet, CapAssumption DEF Init, ActiveCap
<1>3. OrphansAreReaped
      BY DEF Init, OrphansAreReaped, Orphans
<1>4. QED BY <1>1, <1>2, <1>3
          DEF IInv, Init, NothingResurrected, NothingSwitchedOff, Lost, SponsoredStay, HasRow,
              LateOnly, Doomed

(* A request that only reads.                                                *)
LEMMA ReadInv ==
  ASSUME IInv, UNCHANGED <<exists, membership, strays>>, tasks' \in SUBSET Task,
         HasRow(tasks', exists), \A o \in Orphans : Pending(tasks, o) => Pending(tasks', o),
         \A o : Doomed(o)' => Doomed(o) \/ o \in Orphans
  PROVE  IInv'
<1>1. TypeOK'
      BY DEF IInv, TypeOK, membership
<1>2. OrphansAreReaped'
      BY OrphansInv DEF IInv, Orphans, Followers, membership
<1>3. ActiveCap'
      BY DEF IInv, ActiveCap, membership
<1>4. LateOnly'
      BY DEF IInv, LateOnly, Orphans, Followers, membership
<1>5. NothingResurrected' /\ NothingSwitchedOff'
      BY DEF IInv, NothingResurrected, NothingSwitchedOff, Lost, membership
<1>6. QED BY <1>1, <1>2, <1>3, <1>4, <1>5 DEF IInv, SponsoredStay, membership

(* A transaction that makes u follow t, and perhaps creates t or activates   *)
(* it: everything but the cap, which depends on A, u's new active targets.   *)
(* C is what history says of them.                                           *)
LEMMA FollowInv ==
  ASSUME IInv, NEW u \in Users, NEW t \in Targets, NEW A \in SUBSET Targets,
         NEW C \in SUBSET Targets,
         exists' = exists \union {t}, Join(u, t),
         A \subseteq links[u] \union {t}, Cardinality(A) <= Cap[u],
         active' = [active EXCEPT ![u] = A],
         chosenActive' = [chosenActive EXCEPT ![u] = C],
         A \ {t} = (C \ Lost(u)) \ {t}, t \in A <=> t \in C,
         scored' = scored \/ scored' = [scored EXCEPT ![u] = @ \union {t}],
         tasks' \in SUBSET Task, HasRow(tasks', exists'),
         \A o \in Orphans : Pending(tasks, o) => Pending(tasks', o),
         \A o : Doomed(o)' => Doomed(o)
  PROVE  IInv'
<1>. DEFINE R == IF t \in links[u] THEN raced[u]
                 ELSE IF Doomed(t) THEN raced[u] \union {t} ELSE raced[u] \ {t}
<1>j. /\ links' = [links EXCEPT ![u] = @ \union {t}]
      /\ chosen' = [chosen EXCEPT ![u] = @ \union {t}]
      /\ raced' = [raced EXCEPT ![u] = R]
      /\ strays' = strays \ {t}
      BY DEF Join
<1>r. R \ {t} = raced[u] \ {t} /\ (t \notin links[u] /\ Doomed(t) => t \in R)
      /\ (t \in links[u] => R = raced[u])
      OBVIOUS
<1>. HIDE DEF R
<1>0. TypeOK
      BY DEF IInv
<1>1. exists' \in SUBSET Targets /\ strays' \in SUBSET Targets
      BY <1>0, <1>j, Typed
<1>2. links' \in [Users -> SUBSET exists'] /\ chosen' \in [Users -> SUBSET Targets]
      BY <1>0, <1>j, Typed
<1>3. active' \in [Users -> SUBSET Targets] /\ chosenActive' \in [Users -> SUBSET Targets]
      BY <1>0, Typed
<1>4. scored' \in [Users -> SUBSET Targets]
      BY <1>0, Typed
<1>5. \A v \in Users : active'[v] \subseteq links'[v] /\ scored'[v] \subseteq links'[v]
      <2> TAKE v \in Users
      <2>1. CASE v = u
            BY <1>0, <1>j, <2>1, Typed
      <2>2. CASE v # u
            BY <1>0, <1>j, <2>2, Typed
      <2>3. QED BY <2>1, <2>2
<1>6. TypeOK'
      <2>1. R \in SUBSET Targets
            BY <1>0, Typed DEF R
      <2>2. raced' \in [Users -> SUBSET Targets]
            BY <1>0, <1>j, <2>1, Typed
      <2>3. QED BY <1>1, <1>2, <1>3, <1>4, <1>5, <2>2 DEF TypeOK
<1>7. ActiveCap'
      <2> SUFFICES ASSUME NEW v \in Users PROVE Cardinality(active'[v]) <= Cap[v]
          BY DEF ActiveCap
      <2>1. CASE v = u
            BY <1>0, <2>1, Typed
      <2>2. CASE v # u
            BY <1>0, <2>2, Typed DEF IInv, ActiveCap
      <2>3. QED BY <2>1, <2>2
<1>8. NothingResurrected' /\ NothingSwitchedOff'
      <2> SUFFICES ASSUME NEW v \in Users
                   PROVE  /\ links'[v] = chosen'[v] \ (raced'[v] \ links'[v])
                          /\ active'[v] = chosenActive'[v] \ (raced'[v] \ links'[v])
          BY DEF NothingResurrected, NothingSwitchedOff, Lost
      <2>1. /\ links[v] = chosen[v] \ (raced[v] \ links[v])
            /\ active[v] = chosenActive[v] \ (raced[v] \ links[v])
            BY DEF IInv, NothingResurrected, NothingSwitchedOff, Lost
      <2>2. CASE v # u
            <3>1. /\ links'[v] = links[v] /\ chosen'[v] = chosen[v] /\ raced'[v] = raced[v]
                  /\ active'[v] = active[v] /\ chosenActive'[v] = chosenActive[v]
                  BY <1>0, <1>j, <2>2, Typed
            <3>2. QED BY <2>1, <3>1
      <2>3. CASE v = u
            <3>1. /\ links'[u] = links[u] \union {t} /\ chosen'[u] = chosen[u] \union {t}
                  /\ raced'[u] = R /\ active'[u] = A /\ chosenActive'[u] = C
                  BY <1>0, <1>j, Typed
            <3>2. R \ (links[u] \union {t}) = (raced[u] \ links[u]) \ {t}
                  BY <1>r
            <3>3. A = C \ ((raced[u] \ links[u]) \ {t})
                  BY DEF Lost
            <3>4. links[u] \union {t} = (chosen[u] \union {t}) \ ((raced[u] \ links[u]) \ {t})
                  BY <2>1, <2>3
            <3>5. QED BY <2>3, <3>1, <3>2, <3>3, <3>4
      <2>4. QED BY <2>2, <2>3
<1>9. OrphansAreReaped'
      <2>1. ASSUME NEW o \in Orphans' PROVE o # t /\ o \in Orphans
            BY <1>0, <1>j, <2>1, Typed DEF Orphans, Followers
      <2>2. QED BY <1>j, <2>1, OrphansInv DEF IInv
<1>10. LateOnly'
      <2> SUFFICES ASSUME NEW o \in Targets, Doomed(o), NEW v \in Users, o \in links'[v]
                   PROVE  o \in raced'[v]
          BY DEF LateOnly
      <2>1. o \in links[v] => o \in raced[v]
            BY DEF IInv, LateOnly
      <2>2. CASE v # u \/ o # t
            <3>1. o \in links[v] /\ (raced'[v] = raced[v] \/ (v = u /\ raced'[v] = R /\ o # t))
                  BY <1>0, <1>j, <2>2, Typed
            <3>2. QED BY <1>r, <2>1, <3>1
      <2>3. CASE v = u /\ o = t
            <3>1. raced'[v] = R
                  BY <1>0, <1>j, <2>3, Typed
            <3>2. QED BY <1>r, <2>1, <2>3, <3>1
      <2>4. QED BY <2>2, <2>3
<1>11. SponsoredStay'
      BY DEF IInv, SponsoredStay
<1>12. QED BY <1>6, <1>7, <1>8, <1>9, <1>10, <1>11 DEF IInv

(* The two activation functions: the cap holds because they count under the  *)
(* user's lock, and a fit score only adds.                                   *)
LEMMA EnableInv ==
  ASSUME IInv, NEW u \in Users, NEW t \in Targets, NEW S, NEW fit \in BOOLEAN,
         Enable(u, t, S, fit), UNCHANGED exists,
         tasks' \in SUBSET Task, HasRow(tasks', exists),
         \A o \in Orphans : Pending(tasks, o) => Pending(tasks', o),
         \A o : Doomed(o)' => Doomed(o)
  PROVE  IInv'
<1> DEFINE A == (active[u] \ S) \union {t}
           C == (chosenActive[u] \ S) \union {t}
<1>1. TypeOK
      BY DEF IInv
<1>2. A \in SUBSET Targets /\ C \in SUBSET Targets /\ A \subseteq links[u] \union {t}
      BY <1>1, Typed
<1>3. Cardinality(A) <= Cap[u]
      BY <1>1, RoomMeansRoom DEF Enable
<1>4. exists' = exists \union {t} /\ Join(u, t)
      BY DEF Enable
<1>5. active' = [active EXCEPT ![u] = A] /\ chosenActive' = [chosenActive EXCEPT ![u] = C]
      BY <1>1, Typed DEF Enable
<1>6. A \ {t} = (C \ Lost(u)) \ {t} /\ (t \in A <=> t \in C)
      BY DEF IInv, NothingSwitchedOff
<1>7. scored' = scored \/ scored' = [scored EXCEPT ![u] = @ \union {t}]
      <2>1. CASE fit
            BY <2>1 DEF Enable
      <2>2. CASE ~fit
            <3>1. scored' = [scored EXCEPT ![u] = @]
                  BY <2>2 DEF Enable
            <3>2. QED BY <1>1, <3>1, Typed
      <2>3. QED BY <2>1, <2>2
<1> HIDE DEF A, C
<1>8. QED BY <1>2, <1>3, <1>4, <1>5, <1>6, <1>7, FollowInv

(* A request that starts; the delete also drops its membership.              *)
LEMMA RequestInv ==
  ASSUME IInv, NEW k \in Tasks, NEW u \in Users, NEW t \in Targets, Request(k, u, t)
  PROVE  IInv'
<1>1. TypeOK /\ HasRow(tasks, exists)
      BY DEF IInv
<1>2. ASSUME UNCHANGED <<exists, membership, strays>>,
             NEW s \in Stages, s \in ByLabel \/ t \in exists, s # "reaping",
             Start(k, s, u, t)
      PROVE  IInv'
      BY <1>1, <1>2, StartInv, ReadInv
<1>3. CASE RequestFollow(k, u, t)
      <2>1. CASE t \in exists
            BY <1>2, <1>3, <2>1 DEF RequestFollow
      <2>2. CASE t \notin exists
            BY <1>2, <1>3, <2>2 DEF RequestFollow
      <2>3. QED BY <2>1, <2>2
<1>4. CASE RequestPosting(k, u, t)
      <2>1. CASE t \in exists
            BY <1>2, <1>4, <2>1 DEF RequestPosting
      <2>2. CASE t \notin exists
            BY <1>2, <1>4, <2>2 DEF RequestPosting
      <2>3. QED BY <2>1, <2>2
<1>5. CASE RequestLink(k, u, t)
      BY <1>2, <1>5 DEF RequestLink
<1>6. CASE DeleteTarget(k, u, t)
      <2>1. t \in exists /\ Start(k, "unlinked", u, t)
            BY <1>1, <1>6, Typed DEF DeleteTarget
      <2>2. /\ tasks' \in SUBSET Task /\ HasRow(tasks', exists) /\ Pending(tasks', t)
            /\ \A o : Pending(tasks, o) => Pending(tasks', o)
            /\ \A o : Doomed(o)' => Doomed(o)
            BY <1>1, <2>1, StartInv
      <2>3. TypeOK'
            <3>1. links' \in [Users -> SUBSET exists'] /\ chosen' \in [Users -> SUBSET Targets]
                  BY <1>1, <1>6, Typed DEF DeleteTarget
            <3>2. /\ active' \in [Users -> SUBSET Targets] /\ scored' \in [Users -> SUBSET Targets]
                  /\ chosenActive' \in [Users -> SUBSET Targets] /\ raced' \in [Users -> SUBSET Targets]
                  BY <1>1, <1>6, Typed DEF DeleteTarget
            <3>3. ASSUME NEW v \in Users
                  PROVE  active'[v] \subseteq links'[v] /\ scored'[v] \subseteq links'[v]
                  <4>1. CASE v = u
                        BY <1>1, <1>6, <4>1, Typed DEF DeleteTarget
                  <4>2. CASE v # u
                        BY <1>1, <1>6, <4>2, Typed DEF DeleteTarget
                  <4>3. QED BY <4>1, <4>2
            <3>4. exists' = exists /\ strays' = strays
                  BY <1>6 DEF DeleteTarget
            <3>5. QED BY <1>1, <2>2, <3>1, <3>2, <3>3, <3>4, Typed DEF TypeOK
      <2>4. ActiveCap'
            <3> SUFFICES ASSUME NEW v \in Users PROVE Cardinality(active'[v]) <= Cap[v]
                BY DEF ActiveCap
            <3>1. active'[v] \subseteq active[v]
                  BY <1>1, <1>6, Typed DEF DeleteTarget
            <3>2. QED BY <1>1, <3>1, LessIsLess DEF IInv
      <2>5. NothingResurrected' /\ NothingSwitchedOff'
            BY <1>1, <1>6, Typed DEF DeleteTarget, IInv, NothingResurrected, NothingSwitchedOff, Lost
      <2>6. OrphansAreReaped'
            <3>1. ASSUME NEW o \in Orphans', o # t PROVE o \in Orphans /\ strays' = strays
                  BY <1>1, <1>6, <3>1, Typed DEF DeleteTarget, Orphans, Followers
            <3>2. QED BY <2>2, <3>1, OrphansInv DEF IInv
      <2>7. LateOnly'
            BY <1>1, <1>6, <2>2, Typed DEF DeleteTarget, IInv, LateOnly
      <2>8. QED BY <2>2, <2>3, <2>4, <2>5, <2>6, <2>7, <1>6 DEF IInv, DeleteTarget, SponsoredStay
<1>7. QED BY <1>3, <1>4, <1>5, <1>6 DEF Request


(* A follow that leaves the user's active targets and scores alone.          *)
LEMMA PlainFollowInv ==
  ASSUME IInv, NEW u \in Users, NEW t \in Targets, Follow(u, t), exists' = exists \union {t},
         tasks' \in SUBSET Task, HasRow(tasks', exists'),
         \A o \in Orphans : Pending(tasks, o) => Pending(tasks', o),
         \A o : Doomed(o)' => Doomed(o)
  PROVE  IInv'
<1> DEFINE C == IF t \in links[u] THEN chosenActive[u] ELSE chosenActive[u] \ {t}
<1>1. TypeOK
      BY DEF IInv
<1>2. /\ active[u] \in SUBSET Targets /\ active[u] \subseteq links[u] \union {t}
      /\ C \in SUBSET Targets
      BY <1>1, Typed
<1>3. Cardinality(active[u]) <= Cap[u]
      BY DEF IInv, ActiveCap
<1>4. /\ active' = [active EXCEPT ![u] = active[u]]
      /\ chosenActive' = [chosenActive EXCEPT ![u] = C]
      BY <1>1, Typed DEF Follow, JoinsInactive
<1>5. active[u] \ {t} = (C \ Lost(u)) \ {t} /\ (t \in active[u] <=> t \in C)
      <2>1. active[u] = chosenActive[u] \ Lost(u)
            BY DEF IInv, NothingSwitchedOff
      <2>2. active[u] \subseteq links[u]
            BY <1>1, Typed
      <2>3. QED BY <2>1, <2>2 DEF Lost
<1>6. Join(u, t) /\ scored' = scored
      BY DEF Follow
<1> HIDE DEF C
<1>7. QED BY <1>2, <1>3, <1>4, <1>5, <1>6, FollowInv

(* The reap itself: the row goes with every membership and every task's hold *)
(* on it.  The row is not sponsored: the snapshot checked that.              *)
LEMMA ReapDeleteInv ==
  ASSUME IInv, NEW x \in tasks, ReapDelete(x)
  PROVE  IInv'
<1> DEFINE t == x.target
<1>1. TypeOK /\ HasRow(tasks, exists) /\ x \in Task /\ t \in Targets
      BY Typed DEF IInv, Task
<1>2. /\ x.stage = "reaping" /\ x.live /\ exists' = exists \ {t} /\ strays' = strays \ {t}
      /\ links' = [u \in Users |-> links[u] \ {t}]
      /\ active' = [u \in Users |-> active[u] \ {t}]
      /\ scored' = [u \in Users |-> scored[u] \ {t}]
      /\ UNCHANGED <<chosen, chosenActive, raced>>
      /\ tasks' = {[y EXCEPT !.live = y.live /\ (y.stage \in ByLabel \/ y.target # t)] :
                      y \in tasks \ {x}}
      BY DEF ReapDelete
<1> HIDE DEF t
<1>3. ASSUME NEW z \in tasks'
      PROVE  /\ z \in Task
             /\ z.stage \notin ByLabel /\ z.live => z.target \in exists'
             /\ z.stage = "reaping" => z.target \notin Sponsored
      <2>1. PICK y \in tasks \ {x} :
              z = [y EXCEPT !.live = y.live /\ (y.stage \in ByLabel \/ y.target # t)]
            BY <1>2, <1>3
      <2>2. y \in Task
            BY <1>1, Typed
      <2> DEFINE l == y.live /\ (y.stage \in ByLabel \/ y.target # t)
      <2>3. l \in BOOLEAN
            OBVIOUS
      <2>4. z = [y EXCEPT !.live = l]
            BY <2>1
      <2>5. z.stage = y.stage /\ z.target = y.target /\ (z.live <=> l) /\ z \in Task
            <3> HIDE DEF l
            <3>1. QED BY <2>2, <2>3, <2>4, SMT DEF Task
      <2>6. z.stage \notin ByLabel /\ z.live => y.target # t /\ y.target \in exists
            BY <1>1, <2>5 DEF HasRow
      <2>7. QED BY <1>1, <1>2, <2>5, <2>6 DEF HasRow
<1>4. tasks' \in SUBSET Task /\ HasRow(tasks', exists')
      BY <1>3 DEF HasRow
<1>5. TypeOK'
      <2>1. /\ links' \in [Users -> SUBSET exists'] /\ chosen' \in [Users -> SUBSET Targets]
            /\ active' \in [Users -> SUBSET Targets] /\ scored' \in [Users -> SUBSET Targets]
            /\ chosenActive' \in [Users -> SUBSET Targets] /\ raced' \in [Users -> SUBSET Targets]
            BY <1>1, <1>2, Typed
      <2>2. \A u \in Users : active'[u] \subseteq links'[u] /\ scored'[u] \subseteq links'[u]
            BY <1>1, <1>2, Typed
      <2>3. QED BY <1>1, <1>2, <1>4, <2>1, <2>2, Typed DEF TypeOK
<1>6. ActiveCap'
      <2> SUFFICES ASSUME NEW v \in Users PROVE Cardinality(active'[v]) <= Cap[v]
          BY DEF ActiveCap
      <2>1. active'[v] \in SUBSET active[v]
            BY <1>2
      <2>2. QED BY <1>1, <2>1, LessIsLess DEF IInv
<1>7. NothingResurrected' /\ NothingSwitchedOff'
      <2>1. \A u \in Users : t \in links[u] => t \in raced[u]
            BY <1>1, <1>2 DEF IInv, LateOnly, Doomed, t
      <2>2. \A u \in Users : active[u] \subseteq links[u]
            BY <1>1, Typed
      <2>3. QED BY <1>2, <2>1, <2>2 DEF IInv, NothingResurrected, NothingSwitchedOff, Lost
<1>8. SponsoredStay'
      BY <1>1, <1>2 DEF IInv, SponsoredStay, HasRow, t
<1>9. OrphansAreReaped'
      <2>1. ASSUME NEW o \in Orphans' PROVE o \in Orphans /\ o # t
            BY <1>1, <1>2, <2>1, Typed DEF Orphans, Followers
      <2>2. ASSUME NEW o, o # t, Pending(tasks, o) PROVE Pending(tasks', o)
            <3>1. PICK y \in tasks : Reaping(y) /\ y.target = o
                  BY <2>2 DEF Pending
            <3>2. y # x /\ y \in Task
                  BY <1>1, <2>2, <3>1, Typed DEF t
            <3> DEFINE l == y.live /\ (y.stage \in ByLabel \/ y.target # t)
                       z == [y EXCEPT !.live = l]
            <3>3. z \in tasks'
                  BY <1>2, <3>2
            <3>4. l = TRUE
                  BY <2>2, <3>1, <3>2 DEF Reaping, Task
            <3>5. z.stage = y.stage /\ z.target = y.target /\ z.live
                  <4> HIDE DEF l
                  <4>1. QED BY <3>2, <3>4, SMT DEF Task
            <3> HIDE DEF z
            <3>6. QED BY <3>1, <3>3, <3>5 DEF Pending, Reaping
      <2>3. QED BY <1>2, <2>1, <2>2, OrphansInv DEF IInv
<1>10. LateOnly'
      <2>1. ASSUME NEW o, Doomed(o)'
            PROVE  Doomed(o)
            <3>1. PICK z \in tasks' : z.live /\ z.stage = "reaping" /\ z.target = o
                  BY <2>1 DEF Doomed
            <3>2. PICK y \in tasks \ {x} :
                    z = [y EXCEPT !.live = y.live /\ (y.stage \in ByLabel \/ y.target # t)]
                  BY <1>2
            <3> DEFINE l == y.live /\ (y.stage \in ByLabel \/ y.target # t)
            <3>3. y \in Task /\ l \in BOOLEAN /\ z = [y EXCEPT !.live = l]
                  BY <1>1, <3>2, Typed
            <3>4. z.stage = y.stage /\ z.target = y.target /\ (z.live <=> l)
                  <4> HIDE DEF l
                  <4>1. QED BY <3>3, SMT DEF Task
            <3>5. QED BY <3>1, <3>4 DEF Doomed
      <2>2. QED BY <1>2, <2>1 DEF IInv, LateOnly
<1>11. QED BY <1>4, <1>5, <1>6, <1>7, <1>8, <1>9, <1>10 DEF IInv

(* A step of a request or detached task.                                     *)
LEMMA StepInv ==
  ASSUME IInv, NEW x \in tasks, Step(x)
  PROVE  IInv'
<1> DEFINE u == x.user
           t == x.target
<1>1. TypeOK /\ HasRow(tasks, exists) /\ x \in Task /\ u \in Users /\ t \in Targets
      BY Typed DEF IInv, Task
<1> HIDE DEF u, t
<1>2. CASE Attach(x)
      <2>1. Follow(u, t) /\ Go(x, "fit") /\ exists' = exists /\ t \in exists /\ x.stage = "attach"
            BY <1>1, <1>2 DEF Attach, HasRow, u, t
      <2>2. /\ tasks' \in SUBSET Task /\ HasRow(tasks', exists')
            /\ \A o : Pending(tasks, o) => Pending(tasks', o)
            /\ \A o : Doomed(o)' => Doomed(o)
            BY <1>1, <2>1, GoInv DEF t
      <2>3. exists' = exists \union {t}
            BY <2>1
      <2>4. QED BY <1>1, <2>1, <2>2, <2>3, PlainFollowInv
<1>3. CASE Create(x)
      <2>1. Follow(u, t) /\ Go(x, "fit") /\ exists' = exists \union {t} /\ x.stage = "create"
            BY <1>3 DEF Create, u, t
      <2>2. HasRow(tasks, exists') /\ x.target \in exists'
            BY <1>1, <2>1 DEF HasRow, t
      <2>3. /\ tasks' \in SUBSET Task /\ HasRow(tasks', exists')
            /\ \A o : Pending(tasks, o) => Pending(tasks', o)
            /\ \A o : Doomed(o)' => Doomed(o)
            BY <1>1, <2>1, <2>2, GoInv
      <2>4. QED BY <1>1, <2>1, <2>3, PlainFollowInv
<1>4. CASE CreateActive(x)
      <2> DEFINE A == active[u] \union {t}
                 C == chosenActive[u] \union {t}
      <2>1. /\ x.stage = "createActive" /\ Room(u, t, {}) /\ exists' = exists \union {t} /\ End(x)
            /\ Join(u, t)
            /\ active' = [active EXCEPT ![u] = A]
            /\ chosenActive' = [chosenActive EXCEPT ![u] = C]
            /\ scored' = scored
            BY <1>4 DEF CreateActive, u, t
      <2>2. A \in SUBSET Targets /\ C \in SUBSET Targets /\ A \subseteq links[u] \union {t}
            BY <1>1, Typed
      <2>3. Cardinality(A) <= Cap[u]
            <3>1. A = (active[u] \ {}) \union {t}
                  OBVIOUS
            <3>2. QED BY <1>1, <2>1, <3>1, RoomMeansRoom
      <2>4. A \ {t} = (C \ Lost(u)) \ {t} /\ (t \in A <=> t \in C)
            BY <1>1 DEF IInv, NothingSwitchedOff
      <2>5. HasRow(tasks, exists') /\ ~Reaping(x)
            BY <1>1, <2>1 DEF HasRow, Reaping
      <2>6. /\ tasks' \in SUBSET Task /\ HasRow(tasks', exists')
            /\ \A o : Pending(tasks, o) => Pending(tasks', o)
            /\ \A o : Doomed(o)' => Doomed(o)
            BY <1>1, <2>1, <2>5, EndInv
      <2> HIDE DEF A, C
      <2>7. QED BY <1>1, <2>1, <2>2, <2>3, <2>4, <2>6, FollowInv
<1>5. CASE AttachActive(x)
      <2>1. PICK fit \in BOOLEAN : Enable(u, t, {}, fit)
            BY <1>5 DEF AttachActive, u, t
      <2>2. End(x) /\ UNCHANGED exists /\ ~Reaping(x)
            BY <1>5 DEF AttachActive, Reaping
      <2>3. /\ tasks' \in SUBSET Task /\ HasRow(tasks', exists)
            /\ \A o : Pending(tasks, o) => Pending(tasks', o)
            /\ \A o : Doomed(o)' => Doomed(o)
            BY <1>1, <2>2, EndInv
      <2>4. QED BY <1>1, <2>1, <2>2, <2>3, EnableInv
<1>6. CASE Refused(x)
      <2>1. End(x) /\ UNCHANGED <<exists, membership, strays>> /\ ~Reaping(x)
            BY <1>6 DEF Refused, Reaping
      <2>2. /\ tasks' \in SUBSET Task /\ HasRow(tasks', exists)
            /\ \A o : Pending(tasks, o) => Pending(tasks', o)
            /\ \A o : Doomed(o)' => Doomed(o)
            BY <1>1, <2>1, EndInv
      <2>3. QED BY <2>1, <2>2, ReadInv
<1>7. CASE StoreFitScore(x)
      <2>1. /\ End(x) /\ ~Reaping(x) /\ t \in links[u]
            /\ scored' = [scored EXCEPT ![u] = @ \union {t}]
            /\ UNCHANGED <<exists, links, active, chosen, chosenActive, raced, strays>>
            BY <1>7 DEF StoreFitScore, Reaping, u, t
      <2>2. /\ tasks' \in SUBSET Task /\ HasRow(tasks', exists')
            /\ \A o : Pending(tasks, o) => Pending(tasks', o)
            /\ \A o : Doomed(o)' => Doomed(o)
            BY <1>1, <2>1, EndInv
      <2>3. \A v \in Users : scored'[v] \subseteq links[v]
            BY <1>1, <2>1, Typed
      <2>4. scored' \in [Users -> SUBSET Targets]
            BY <1>1, <2>1, Typed
      <2>5. TypeOK'
            BY <1>1, <2>1, <2>2, <2>3, <2>4 DEF TypeOK
      <2>6. OrphansAreReaped'
            <3>1. Orphans' = Orphans
                  BY <2>1 DEF Orphans, Followers
            <3>2. QED BY <2>1, <2>2, <3>1, OrphansInv DEF IInv
      <2>7. QED BY <2>1, <2>2, <2>5, <2>6
                DEF IInv, ActiveCap, NothingResurrected, NothingSwitchedOff, Lost, SponsoredStay, LateOnly
<1>8. CASE ReapSnapshot(x)
      <2>1. UNCHANGED <<exists, membership, strays>> /\ x.stage = "unlinked"
            BY <1>8 DEF ReapSnapshot
      <2>2. CASE x.live /\ t \in Orphans
            <3>1. Go(x, "reaping") /\ t \in exists /\ t \notin Sponsored
                  BY <1>8, <2>2 DEF ReapSnapshot, Orphans, t
            <3>2. /\ tasks' \in SUBSET Task /\ HasRow(tasks', exists)
                  /\ \A o : Pending(tasks, o) => Pending(tasks', o)
                  /\ \A o : Doomed(o)' => Doomed(o) \/ o = t
                  BY <1>1, <3>1, GoInv DEF t
            <3>3. QED BY <2>1, <2>2, <3>2, ReadInv
      <2>3. CASE ~(x.live /\ t \in Orphans)
            <3>1. End(x)
                  BY <1>8, <2>3 DEF ReapSnapshot, t
            <3>2. /\ tasks' \in SUBSET Task /\ HasRow(tasks', exists)
                  /\ \A o \in Orphans : Pending(tasks, o) => Pending(tasks', o)
                  /\ \A o : Doomed(o)' => Doomed(o)
                  BY <1>1, <2>3, <3>1, EndInv DEF Reaping, t
            <3>3. QED BY <2>1, <3>2, ReadInv
      <2>4. QED BY <2>2, <2>3
<1>9. CASE ReapFindsNothing(x)
      <2>1. End(x) /\ UNCHANGED <<exists, membership, strays>> /\ ~Reaping(x)
            BY <1>9 DEF ReapFindsNothing, Reaping
      <2>2. /\ tasks' \in SUBSET Task /\ HasRow(tasks', exists)
            /\ \A o : Pending(tasks, o) => Pending(tasks', o)
            /\ \A o : Doomed(o)' => Doomed(o)
            BY <1>1, <2>1, EndInv
      <2>3. QED BY <2>1, <2>2, ReadInv
<1>10. CASE ReapFails(x)
      <2>1. /\ End(x) /\ UNCHANGED <<exists, membership>>
            /\ strays' = strays \union (IF x.live THEN {t} \intersect Orphans ELSE {})
            BY <1>10 DEF ReapFails, t
      <2>2. /\ tasks' \in SUBSET Task /\ HasRow(tasks', exists)
            /\ \A o : Pending(tasks, o) /\ (~Reaping(x) \/ o # t) => Pending(tasks', o)
            /\ \A o : Doomed(o)' => Doomed(o)
            BY <1>1, <2>1, EndInv DEF t
      <2>3. TypeOK'
            <3>1. strays' \in SUBSET Targets
                  BY <1>1, <2>1, Typed
            <3>2. QED BY <1>1, <2>1, <2>2, <3>1 DEF TypeOK, membership
      <2>4. OrphansAreReaped'
            <3>1. Orphans' = Orphans
                  BY <2>1 DEF Orphans, Followers, membership
            <3>2. ASSUME Reaping(x), t \in Orphans PROVE t \in strays'
                  BY <2>1, <3>2 DEF Reaping
            <3>3. QED BY <2>1, <2>2, <3>1, <3>2, OrphansInv DEF IInv
      <2>5. QED BY <2>1, <2>2, <2>3, <2>4
                DEF IInv, ActiveCap, NothingResurrected, NothingSwitchedOff, Lost, SponsoredStay,
                    LateOnly, membership
<1>11. CASE ReapDelete(x)
      BY <1>1, <1>11, ReapDeleteInv
<1>12. QED BY <1>2, <1>3, <1>4, <1>5, <1>6, <1>7, <1>8, <1>9, <1>10, <1>11 DEF Step, Reap

(* Switching memberships off, by the user or by the idle sweep.              *)
LEMMA SwitchOffInv ==
  ASSUME IInv, NEW u \in Users, NEW S, SwitchOff(u, S)
  PROVE  IInv'
<1>1. TypeOK /\ UNCHANGED <<exists, links, scored, chosen, raced, strays, tasks>>
      BY DEF IInv, SwitchOff
<1>2. /\ active' \in [Users -> SUBSET Targets] /\ chosenActive' \in [Users -> SUBSET Targets]
      /\ \A v \in Users : active'[v] \in SUBSET active[v]
      BY <1>1, Typed DEF SwitchOff
<1>3. TypeOK'
      <2>1. \A v \in Users : active'[v] \subseteq links[v] /\ scored[v] \subseteq links[v]
            BY <1>1, <1>2, Typed
      <2>2. QED BY <1>1, <1>2, <2>1 DEF TypeOK
<1>4. ActiveCap'
      BY <1>1, <1>2, LessIsLess DEF IInv, ActiveCap
<1>5. NothingSwitchedOff'
      BY <1>1, Typed DEF IInv, NothingSwitchedOff, Lost, SwitchOff
<1>6. QED BY <1>1, <1>3, <1>4, <1>5
          DEF IInv, NothingResurrected, Lost, SponsoredStay, OrphansAreReaped, Orphans, Followers,
              Reaping, HasRow, LateOnly, Doomed

(* A row without members is a stray from its first moment.                   *)
LEMMA CreateTargetInv ==
  ASSUME IInv, NEW t \in Targets, CreateTarget(t)
  PROVE  IInv'
<1>1. /\ TypeOK /\ exists' = exists \union {t} /\ strays' = strays \union {t} /\ t \notin exists
      /\ UNCHANGED <<links, active, scored, chosen, chosenActive, raced, tasks>>
      BY DEF IInv, CreateTarget, membership
<1>2. TypeOK'
      <2>1. links' \in [Users -> SUBSET exists']
            BY <1>1, Typed
      <2>2. exists' \in SUBSET Targets /\ strays' \in SUBSET Targets
            BY <1>1, Typed
      <2>3. QED BY <1>1, <2>1, <2>2 DEF TypeOK
<1>3. HasRow(tasks', exists')
      BY <1>1 DEF IInv, HasRow
<1>4. OrphansAreReaped'
      <2>1. ASSUME NEW o \in Orphans', o # t PROVE o \in Orphans
            BY <1>1, <2>1 DEF Orphans, Followers
      <2>2. QED BY <1>1, <2>1, OrphansInv DEF IInv
<1>5. QED BY <1>1, <1>2, <1>3, <1>4
          DEF IInv, ActiveCap, NothingResurrected, NothingSwitchedOff, Lost, SponsoredStay,
              LateOnly, Doomed

(* A restart forgets every pending reap, and what they leave is a stray.     *)
LEMMA RestartInv ==
  ASSUME IInv, Restart
  PROVE  IInv'
<1>1. /\ TypeOK /\ tasks' = {} /\ UNCHANGED <<exists, links, active, scored, chosen, chosenActive, raced>>
      /\ strays' = strays \union (Orphans \intersect {x.target : x \in {y \in tasks : Reaping(y)}})
      BY DEF IInv, Restart, membership
<1>2. Orphans' = Orphans /\ Orphans \subseteq Targets
      BY <1>1, Typed DEF Orphans, Followers
<1>3. TypeOK'
      <2>1. strays' \in SUBSET Targets
            BY <1>1, <1>2, Typed
      <2>2. QED BY <1>1, <2>1 DEF TypeOK
<1>4. \A o \in Orphans : Pending(tasks, o) => o \in strays'
      BY <1>1 DEF Pending
<1>5. OrphansAreReaped'
      BY <1>1, <1>2, <1>4 DEF IInv, OrphansAreReaped, Pending
<1>6. QED BY <1>1, <1>3, <1>5
          DEF IInv, ActiveCap, NothingResurrected, NothingSwitchedOff, Lost, SponsoredStay, HasRow,
              LateOnly, Doomed

(* Every step keeps the inductive invariant.                                 *)
LEMMA NextInv == IInv /\ [Next]_vars => IInv'
<1> SUFFICES ASSUME IInv, [Next]_vars PROVE IInv'
    OBVIOUS
<1>1. TypeOK /\ HasRow(tasks, exists)
      BY DEF IInv
<1>2. ASSUME NEW u \in Users, NEW t \in Targets, NEW S, Enable(u, t, S, FALSE),
             UNCHANGED <<exists, tasks>>
      PROVE  IInv'
      BY <1>1, <1>2, EnableInv, Typed DEF Doomed
<1>3. ASSUME NEW u \in Users, NEW t \in Targets, ActivateTarget(u, t) PROVE IInv'
      BY <1>2, <1>3 DEF ActivateTarget
<1>4. ASSUME NEW u \in Users, NEW s \in Targets, NEW t \in Targets, SwapTarget(u, s, t) PROVE IInv'
      BY <1>2, <1>4 DEF SwapTarget
<1>5. ASSUME NEW u \in Users, NEW t \in Targets, DeactivateTarget(u, t) PROVE IInv'
      BY <1>5, SwitchOffInv DEF DeactivateTarget
<1>6. ASSUME NEW u \in Users, DeactivateIdleTargets(u) PROVE IInv'
      BY <1>6, SwitchOffInv DEF DeactivateIdleTargets
<1>7. CASE UNCHANGED vars
      BY <1>7 DEF vars, IInv, TypeOK, ActiveCap, NothingResurrected, NothingSwitchedOff, Lost,
                  SponsoredStay, OrphansAreReaped, Orphans, Followers, Reaping, HasRow, LateOnly, Doomed
<1>8. QED BY <1>3, <1>4, <1>5, <1>6, <1>7, RequestInv, StepInv, CreateTargetInv, RestartInv DEF Next

(* The rows stay in their domains: a membership is of a row that exists.     *)
THEOREM MembershipsTypeOK == Spec => []TypeOK
BY InitInv, NextInv, PTL DEF Spec, IInv

(* The cap on active targets holds for any number of concurrent requests:    *)
(* the count under the user's lock is what makes it hold, and the earlier    *)
(* advisory counts of the routes are not needed.                             *)
THEOREM CapHolds == Spec => []ActiveCap
BY InitInv, NextInv, PTL DEF Spec, IInv

(* Memberships are what users asked for: nothing comes back (#1097), and     *)
(* none goes away but one followed while a reap was past its snapshot.       *)
THEOREM NothingIsResurrected == Spec => []NothingResurrected
BY InitInv, NextInv, PTL DEF Spec, IInv

(* Active memberships are the ones users left active (#1089), but for those  *)
(* such a reap took.                                                         *)
THEOREM NothingIsSwitchedOff == Spec => []NothingSwitchedOff
BY InitInv, NextInv, PTL DEF Spec, IInv

(* Sponsored rows are never deleted (#543).                                  *)
THEOREM SponsoredAlwaysStay == Spec => []SponsoredStay
BY InitInv, NextInv, PTL DEF Spec, IInv

(* Every unreachable row is about to be reaped or is a known leftover.       *)
THEOREM OrphansAreAlwaysReaped == Spec => []OrphansAreReaped
BY InitInv, NextInv, PTL DEF Spec, IInv

(* What one step may do to the stored scores: drop one with its membership.  *)
LEMMA ScoresKeptStep ==
  ASSUME IInv, Next
  PROVE  \A u \in Users : scored[u] \intersect links'[u] \subseteq scored'[u]
<1> SUFFICES ASSUME NEW u \in Users PROVE scored[u] \intersect links'[u] \subseteq scored'[u]
    OBVIOUS
<1>1. TypeOK
      BY DEF IInv
<1>2. CASE UNCHANGED scored
      BY <1>2
<1>3. ASSUME NEW k \in Tasks, NEW v \in Users, NEW t \in Targets, DeleteTarget(k, v, t)
      PROVE  scored[u] \intersect links'[u] \subseteq scored'[u]
      BY <1>1, <1>3, Typed DEF DeleteTarget
<1>4. ASSUME NEW x \in tasks, ReapDelete(x)
      PROVE  scored[u] \intersect links'[u] \subseteq scored'[u]
      BY <1>1, <1>4, Typed DEF ReapDelete
<1>5. ASSUME NEW x \in tasks, StoreFitScore(x)
      PROVE  scored[u] \intersect links'[u] \subseteq scored'[u]
      BY <1>1, <1>5, Typed DEF StoreFitScore
<1>6. ASSUME NEW v \in Users, NEW t, NEW S, NEW fit, Enable(v, t, S, fit)
      PROVE  scored[u] \intersect links'[u] \subseteq scored'[u]
      BY <1>1, <1>6, Typed DEF Enable
<1>7. ASSUME NEW x \in tasks, Step(x)
      PROVE  scored[u] \intersect links'[u] \subseteq scored'[u]
      <2>1. ASSUME AttachActive(x) PROVE scored[u] \intersect links'[u] \subseteq scored'[u]
            <3>1. x.user \in Users
                  BY <1>1, Typed DEF Task
            <3>2. QED BY <1>6, <2>1, <3>1 DEF AttachActive
      <2>2. CASE Attach(x) \/ Create(x)
            BY <1>2, <2>2 DEF Attach, Create, Follow
      <2>3. CASE CreateActive(x)
            BY <1>2, <2>3 DEF CreateActive
      <2>4. CASE Refused(x) \/ ReapSnapshot(x) \/ ReapFindsNothing(x) \/ ReapFails(x)
            BY <1>2, <2>4 DEF Refused, ReapSnapshot, ReapFindsNothing, ReapFails, membership
      <2>5. QED BY <1>4, <1>5, <1>7, <2>1, <2>2, <2>3, <2>4 DEF Step, Reap
<1>8. ASSUME NEW v \in Users, NEW t \in Targets,
             \/ ActivateTarget(v, t) \/ DeactivateTarget(v, t) \/ DeactivateIdleTargets(v)
             \/ \E s \in Targets : SwapTarget(v, s, t)
      PROVE  scored[u] \intersect links'[u] \subseteq scored'[u]
      BY <1>2, <1>6, <1>8
         DEF ActivateTarget, SwapTarget, DeactivateTarget, DeactivateIdleTargets, SwitchOff
<1>9. ASSUME NEW v \in Users, DeactivateIdleTargets(v) PROVE UNCHANGED scored
      BY <1>9 DEF DeactivateIdleTargets, SwitchOff
<1>10. ASSUME NEW k \in Tasks, NEW v \in Users, NEW t \in Targets, Request(k, v, t)
       PROVE  scored[u] \intersect links'[u] \subseteq scored'[u]
       BY <1>2, <1>3, <1>10 DEF Request, RequestFollow, RequestPosting, RequestLink, membership
<1>11. CASE Restart \/ \E t \in Targets : CreateTarget(t)
       BY <1>2, <1>11 DEF Restart, CreateTarget, membership
<1>12. QED BY <1>2, <1>7, <1>8, <1>9, <1>10, <1>11 DEF Next

(* A stored score leaves only with its membership, in every behaviour.       *)
THEOREM ScoresAreKept == Spec => ScoresKept
<1> DEFINE Kept == \A u \in Users : scored[u] \intersect links'[u] \subseteq scored'[u]
<1>1. IInv /\ [Next]_vars => [Kept]_vars
      BY ScoresKeptStep
<1>2. QED BY InitInv, NextInv, <1>1, PTL DEF Spec, ScoresKept
=============================================================================
