-------------------------- MODULE Activation_proofs -------------------------
(* Safety of the activation lifecycle, for any number of tasks.              *)
EXTENDS Activation, TLAPS

(* A task in T will settle the status.                                       *)
Owned(T) == \E x \in T : x.live /\ x.stage \in Settling

(* A task of T that holds a row id acts on a row that is there (e says       *)
(* whether one is); a request that only holds a label is never cut off.      *)
HasRow(T, e) == \A x \in T : IF x.stage \in Creating THEN x.live ELSE x.live => e
LiveTasksHaveRow == HasRow(tasks, exists)

IInv == TypeOK /\ ErrorHasReason /\ InFlightIsOwned /\ LiveTasksHaveRow

USE DEF Statuses, InFlight, Stages, Creating, Settling, Trailing, Timed

(* The records the actions build are tasks.                                  *)
LEMMA NewTask ==
  ASSUME NEW k \in Tasks, NEW s \in Stages
  PROVE  [id |-> k, stage |-> s, live |-> TRUE] \in Task
BY Zenon DEF Task

(* So are they when one moves on to another stage ...                        *)
LEMMA MovedTask ==
  ASSUME NEW x \in Task, NEW s \in Stages
  PROVE  /\ [x EXCEPT !.stage = s] \in Task
         /\ [x EXCEPT !.stage = s].live = x.live /\ [x EXCEPT !.stage = s].stage = s
BY SMT DEF Task

(* ... and when its row goes away under it.                                  *)
LEMMA CutTask ==
  ASSUME NEW x \in Task, NEW b \in BOOLEAN
  PROVE  /\ [x EXCEPT !.live = b] \in Task
         /\ [x EXCEPT !.live = b].live = b /\ [x EXCEPT !.live = b].stage = x.stage
BY SMT DEF Task

(* Starting a task keeps the tasks typed, owned and on their row.            *)
LEMMA SpawnInv ==
  ASSUME tasks \in SUBSET Task, NEW k \in Tasks, NEW s \in Stages, NEW e \in BOOLEAN,
         HasRow(tasks, e), e \/ s \in Creating
  PROVE  /\ Spawn(k, s) \in SUBSET Task
         /\ HasRow(Spawn(k, s), e)
         /\ Owned(tasks) => Owned(Spawn(k, s))
<1>1. Spawn(k, s) \in SUBSET Task
      BY NewTask DEF Spawn
<1>2. HasRow(Spawn(k, s), e)
      BY DEF Spawn, HasRow
<1>3. Owned(tasks) => Owned(Spawn(k, s))
      BY DEF Spawn, Owned
<1>4. QED BY <1>1, <1>2, <1>3

(* So does moving one on, to a stage that will settle the status if it was   *)
(* at one.                                                                   *)
LEMMA GoesInv ==
  ASSUME tasks \in SUBSET Task, NEW x \in tasks, NEW s \in Stages \ Creating,
         NEW e \in BOOLEAN, HasRow(tasks, e), x.live => e
  PROVE  /\ Goes(x, s) \in SUBSET Task
         /\ HasRow(Goes(x, s), e)
         /\ (s \in Settling /\ x.live) => Owned(Goes(x, s))
         /\ (s \in Settling \/ x.stage \notin Settling) => (Owned(tasks) => Owned(Goes(x, s)))
<1> DEFINE y == [x EXCEPT !.stage = s]
<1>1. y \in Task /\ y.live = x.live /\ y.stage = s
      BY MovedTask
<1>2. Goes(x, s) = (tasks \ {x}) \union {y}
      BY DEF Goes
<1> HIDE DEF y
<1>3. Goes(x, s) \in SUBSET Task
      BY <1>1, <1>2
<1>4. HasRow(Goes(x, s), e)
      BY <1>1, <1>2 DEF HasRow
<1>5. (s \in Settling /\ x.live) => Owned(Goes(x, s))
      BY <1>1, <1>2 DEF Owned
<1>6. ASSUME s \in Settling \/ x.stage \notin Settling, Owned(tasks)
      PROVE  Owned(Goes(x, s))
      BY <1>1, <1>2, <1>6 DEF Owned
<1>7. QED BY <1>3, <1>4, <1>5, <1>6

(* Ending one does too, unless it was to settle the status.                  *)
LEMMA EndsInv ==
  ASSUME tasks \in SUBSET Task, NEW x \in tasks, NEW e \in BOOLEAN, HasRow(tasks, e)
  PROVE  /\ Ends(x) \in SUBSET Task
         /\ HasRow(Ends(x), e)
         /\ (~x.live \/ x.stage \notin Settling) => (Owned(tasks) => Owned(Ends(x)))
BY DEF Ends, HasRow, Owned

(* At first there is no row and no task.                                     *)
LEMMA InitInv == Init => IInv
BY DEF Init, IInv, TypeOK, ErrorHasReason, InFlightIsOwned, LiveTasksHaveRow, HasRow

(* The row inserted, or found, by a create.                                  *)
LEMMA InsertInv ==
  ASSUME IInv, NEW x \in tasks, x.stage \in Creating,
         NEW s \in Stages \ Creating, NEW first \in {"idle", "deriving"},
         first = "deriving" => s \in Settling,
         InsertRow(x, s, first)
  PROVE  IInv'
<1> DEFINE y == [id |-> x.id, stage |-> s, live |-> TRUE]
<1>1. tasks \in SUBSET Task /\ x.live
      BY DEF IInv, TypeOK, LiveTasksHaveRow, HasRow
<1>2. y \in Task /\ y.live /\ y.stage = s
      <2>1. x.id \in Tasks
            BY <1>1 DEF Task
      <2>2. y \in Task
            BY <2>1, NewTask
      <2>3. QED BY <2>2
<1>3. tasks' = (tasks \ {x}) \union {y}
      BY DEF InsertRow
<1>4. /\ exists' = TRUE /\ status' = first /\ reason' = "none" /\ stale' = FALSE
      /\ abandoned' = FALSE /\ profile' = FALSE
      BY DEF InsertRow
<1> HIDE DEF y
<1>5. tasks' \in SUBSET Task
      BY <1>1, <1>2, <1>3
<1>6. TypeOK'
      <2>1. exists' \in BOOLEAN /\ profile' \in BOOLEAN /\ stale' \in BOOLEAN /\ abandoned' \in BOOLEAN
            BY <1>4
      <2>2. status' \in Statuses /\ reason' \in {"none", "no_profile", "timeout", "failed"}
            BY <1>4
      <2>3. QED BY <1>4, <1>5, <2>1, <2>2, Zenon DEF TypeOK
<1>7. LiveTasksHaveRow'
      BY <1>1, <1>2, <1>3, <1>4 DEF IInv, LiveTasksHaveRow, HasRow
<1>8. InFlightIsOwned'
      BY <1>1, <1>2, <1>3, <1>4 DEF InFlightIsOwned
<1>9. ErrorHasReason'
      BY <1>4 DEF ErrorHasReason
<1>10. QED BY <1>6, <1>7, <1>8, <1>9 DEF IInv

(* A step that keeps the row keeps the invariant if it keeps the tasks so.   *)
LEMMA KeptInv ==
  ASSUME IInv, KeepRow, tasks' \in SUBSET Task, HasRow(tasks', exists),
         Owned(tasks) => Owned(tasks')
  PROVE  IInv'
<1>1. TypeOK'
      BY DEF IInv, TypeOK, KeepRow
<1>2. ErrorHasReason' /\ LiveTasksHaveRow'
      BY DEF IInv, ErrorHasReason, LiveTasksHaveRow, HasRow, KeepRow
<1>3. InFlightIsOwned'
      BY DEF IInv, InFlightIsOwned, Owned, KeepRow
<1>4. QED BY <1>1, <1>2, <1>3 DEF IInv

(* So does one that touches the row, or changes its profile.                 *)
LEMMA TouchedInv ==
  ASSUME IInv, exists, Touch, UNCHANGED exists, profile' \in BOOLEAN,
         tasks' \in SUBSET Task, HasRow(tasks', exists), Owned(tasks) => Owned(tasks')
  PROVE  IInv'
<1>1. stale' \in BOOLEAN
      BY DEF Touch
<1>2. TypeOK'
      BY <1>1 DEF IInv, TypeOK, Touch
<1>3. ErrorHasReason' /\ LiveTasksHaveRow'
      BY DEF IInv, ErrorHasReason, LiveTasksHaveRow, HasRow, Touch
<1>4. InFlightIsOwned'
      BY DEF IInv, InFlightIsOwned, Owned, Touch
<1>5. QED BY <1>2, <1>3, <1>4 DEF IInv

(* So does a status write, if an error has a reason and an in-flight status  *)
(* has a task to settle it.                                                  *)
LEMMA WrittenInv ==
  ASSUME IInv, exists, UNCHANGED exists, profile' \in BOOLEAN,
         NEW s \in Statuses, NEW r \in {"none", "no_profile", "timeout", "failed"},
         WriteStatus(s, r), s = "error" => r # "none",
         tasks' \in SUBSET Task, HasRow(tasks', exists), s \in InFlight => Owned(tasks')
  PROVE  IInv'
<1>1. stale' \in BOOLEAN /\ abandoned' \in BOOLEAN
      BY DEF WriteStatus
<1>2. TypeOK'
      BY <1>1 DEF IInv, TypeOK, WriteStatus
<1>3. ErrorHasReason' /\ LiveTasksHaveRow'
      BY DEF IInv, ErrorHasReason, LiveTasksHaveRow, HasRow, WriteStatus
<1>4. InFlightIsOwned'
      BY DEF IInv, InFlightIsOwned, Owned, WriteStatus
<1>5. QED BY <1>2, <1>3, <1>4 DEF IInv

(* A create that loses the race for the label.                               *)
LEMMA ConflictInv ==
  ASSUME IInv, NEW s \in Statuses, ConflictRow(s), s \in {status, "deriving"},
         tasks' \in SUBSET Task, HasRow(tasks', exists),
         IF s = status THEN Owned(tasks) => Owned(tasks') ELSE Owned(tasks')
  PROVE  IInv'
<1>1. stale' \in BOOLEAN /\ abandoned' \in BOOLEAN
      BY DEF ConflictRow
<1>2. TypeOK'
      BY <1>1 DEF IInv, TypeOK, ConflictRow
<1>3. ErrorHasReason' /\ LiveTasksHaveRow'
      BY DEF IInv, ErrorHasReason, LiveTasksHaveRow, HasRow, ConflictRow
<1>4. InFlightIsOwned'
      BY DEF IInv, InFlightIsOwned, Owned, ConflictRow
<1>5. QED BY <1>2, <1>3, <1>4 DEF IInv

(* Every task that holds a row id and writes does so on a row that is there. *)
LEMMA Typed ==
  ASSUME IInv
  PROVE  /\ tasks \in SUBSET Task /\ exists \in BOOLEAN /\ HasRow(tasks, exists)
         /\ profile \in BOOLEAN /\ abandoned \in BOOLEAN /\ status \in Statuses
         /\ reason \in {"none", "no_profile", "timeout", "failed"}
         /\ \A x \in tasks : x.stage \notin Creating /\ x.live => exists
BY DEF IInv, TypeOK, LiveTasksHaveRow, HasRow

(* A request starts a task on the row there is, or on a label.               *)
LEMMA RequestInv ==
  ASSUME IInv, NEW k \in Tasks, Request(k)
  PROVE  IInv'
<1>1. ASSUME NEW s \in Creating, NoMatch(k, s) PROVE IInv'
      BY <1>1, Typed, SpawnInv, KeptInv DEF NoMatch
<1>2. CASE MatchUrl(k)
      BY <1>2, Typed, SpawnInv, KeptInv DEF MatchUrl
<1>3. CASE ActivateTarget(k)
      <2>1. PICK s \in {"toPoll", "toDerive"} : tasks' = Spawn(k, s)
            BY <1>3 DEF ActivateTarget
      <2>2. QED BY <1>3, <2>1, Typed, SpawnInv, KeptInv DEF ActivateTarget
<1>4. QED BY <1>1, <1>2, <1>3 DEF Request

(* The create's insert, and its conflict branches.                           *)
LEMMA CreateInv ==
  ASSUME IInv, NEW x \in tasks,
         \/ CreateDeriving(x, "create", "derive")
         \/ CreateDeriving(x, "createUrl", "deriveUrl")
         \/ CreatePosting(x)
  PROVE  IInv'
<1>1. ASSUME NEW from \in Creating, NEW s \in {"derive", "deriveUrl"},
             CreateDeriving(x, from, s)
      PROVE  IInv'
      <2>1. CASE InsertRow(x, s, "deriving")
            BY <1>1, <2>1, InsertInv DEF CreateDeriving
      <2>2. CASE ConflictRow("deriving") /\ tasks' = Goes(x, s)
            <3>1. exists /\ x.live
                  BY <1>1, <2>2, Typed DEF ConflictRow, CreateDeriving, HasRow
            <3>2. tasks' \in SUBSET Task /\ HasRow(tasks', exists) /\ Owned(tasks')
                  BY <2>2, <3>1, Typed, GoesInv
            <3>3. QED BY <2>2, <3>2, Typed, ConflictInv
      <2>3. QED BY <1>1, <2>1, <2>2 DEF CreateDeriving
<1>2. CASE CreatePosting(x)
      <2>1. CASE InsertRow(x, "seedJD", "idle")
            BY <1>2, <2>1, InsertInv DEF CreatePosting
      <2>2. CASE ConflictRow(status) /\ tasks' = Ends(x)
            BY <1>2, <2>2, Typed, EndsInv, ConflictInv DEF CreatePosting
      <2>3. QED BY <1>2, <2>1, <2>2 DEF CreatePosting
<1>3. QED BY <1>1, <1>2

(* The writes of the background derivations and of the pipeline.             *)
LEMMA ProceedInv ==
  ASSUME IInv, NEW x \in tasks, Proceed(x)
  PROVE  IInv'
<1>1. tasks \in SUBSET Task /\ exists \in BOOLEAN /\ HasRow(tasks, exists)
      BY Typed
<1>2. CASE \/ CreateDeriving(x, "create", "derive")
           \/ CreateDeriving(x, "createUrl", "deriveUrl")
           \/ CreatePosting(x)
      BY <1>2, CreateInv
<1>3. ASSUME NEW s \in Stages \ Creating, x.live, exists, tasks' = Goes(x, s)
      PROVE  /\ tasks' \in SUBSET Task /\ HasRow(tasks', exists)
             /\ s \in Settling => Owned(tasks')
             /\ (s \in Settling \/ x.stage \notin Settling) => (Owned(tasks) => Owned(tasks'))
      BY <1>1, <1>3, GoesInv
<1>4. ASSUME tasks' = Ends(x)
      PROVE  /\ tasks' \in SUBSET Task /\ HasRow(tasks', exists)
             /\ (~x.live \/ x.stage \notin Settling) => (Owned(tasks) => Owned(tasks'))
      BY <1>1, <1>4, EndsInv
<1>5. CASE DeriveManual(x)
      BY <1>3, <1>5, Typed, WrittenInv DEF DeriveManual
<1>6. CASE ContributeJD(x)
      <2>1. exists /\ x.live /\ UNCHANGED exists /\ tasks' = Goes(x, "flipUrl")
            BY <1>6, Typed DEF ContributeJD
      <2>2. CASE profile' = TRUE /\ Touch
            BY <1>3, <2>1, <2>2, TouchedInv
      <2>3. CASE UNCHANGED <<profile, status, reason, stale, abandoned>>
            BY <1>3, <2>1, <2>3, KeptInv DEF KeepRow
      <2>4. QED BY <1>6, <2>2, <2>3 DEF ContributeJD
<1>7. CASE FlipUrl(x)
      BY <1>3, <1>7, Typed, WrittenInv DEF FlipUrl
<1>8. CASE SeedProfile(x)
      BY <1>4, <1>8, Typed, TouchedInv DEF SeedProfile
<1>9. CASE PipelineDerives(x)
      BY <1>3, <1>9, Typed, WrittenInv DEF PipelineDerives
<1>10. CASE NoDocument(x)
      BY <1>4, <1>10, Typed, WrittenInv DEF NoDocument
<1>11. CASE HasDocument(x)
      <2>1. x.live => exists
            BY <1>11, Typed DEF HasDocument
      <2>2. tasks' = Goes(x, "deriveLabel")
            BY <1>11 DEF HasDocument
      <2>3. QED BY <1>1, <1>11, <2>1, <2>2, GoesInv, KeptInv DEF HasDocument
<1>12. CASE ProfileStored(x)
      BY <1>3, <1>12, Typed, TouchedInv DEF ProfileStored
<1>13. CASE PipelinePolls(x)
      BY <1>3, <1>13, Typed, WrittenInv DEF PipelinePolls
<1>14. CASE PipelineReady(x)
      BY <1>4, <1>14, Typed, WrittenInv DEF PipelineReady
<1>15. CASE TaskRaises(x)
      <2>1. PICK r \in {"failed", "timeout"} : WriteStatus("error", r)
            BY <1>15 DEF TaskRaises
      <2>2. exists /\ UNCHANGED <<exists, profile>> /\ tasks' = Ends(x)
            BY <1>15, Typed DEF TaskRaises
      <2>3. QED BY <1>4, <2>1, <2>2, Typed, WrittenInv
<1>16. CASE TaskOnNoRow(x)
      BY <1>4, <1>16, KeptInv DEF TaskOnNoRow
<1>17. QED
  BY <1>2, <1>5, <1>6, <1>7, <1>8, <1>9, <1>10, <1>11, <1>12, <1>13, <1>14, <1>15, <1>16
     DEF Proceed

(* A task that is lost leaves the status abandoned if it was to settle it.   *)
LEMMA LostInv ==
  ASSUME IInv, NEW x \in tasks, TaskLost(x)
  PROVE  IInv'
<1>1. tasks' \in SUBSET Task /\ HasRow(tasks', exists)
      BY Typed, EndsInv DEF TaskLost
<1>2. abandoned' \in BOOLEAN
      BY Zenon DEF TaskLost
<1>3. TypeOK'
      BY <1>1, <1>2 DEF IInv, TypeOK, TaskLost
<1>4. ErrorHasReason' /\ LiveTasksHaveRow'
      BY <1>1 DEF IInv, ErrorHasReason, LiveTasksHaveRow, HasRow, TaskLost
<1>5. InFlightIsOwned'
      <2>1. SUFFICES ASSUME status \in InFlight, ~abandoned'
                     PROVE  Owned(tasks')
            BY DEF InFlightIsOwned, Owned, TaskLost
      <2>2. x.stage \notin Settling /\ ~abandoned
            BY <2>1 DEF TaskLost
      <2>3. Owned(tasks)
            BY <2>1, <2>2 DEF IInv, InFlightIsOwned, Owned
      <2>4. QED BY <2>2, <2>3, Typed, EndsInv DEF TaskLost
<1>6. QED BY <1>3, <1>4, <1>5 DEF IInv

(* A restart takes every task, and what is in flight then is abandoned.      *)
LEMMA RestartInv == IInv /\ Restart => IInv'
<1> SUFFICES ASSUME IInv, Restart PROVE IInv'
    OBVIOUS
<1>1. abandoned' \in BOOLEAN
      BY Zenon DEF Restart
<1>2. TypeOK'
      BY <1>1 DEF IInv, TypeOK, Restart
<1>3. ErrorHasReason' /\ LiveTasksHaveRow'
      BY DEF IInv, ErrorHasReason, LiveTasksHaveRow, HasRow, Restart
<1>4. InFlightIsOwned'
      BY DEF IInv, InFlightIsOwned, Restart
<1>5. QED BY <1>2, <1>3, <1>4 DEF IInv

(* A row that comes or goes is idle, and its tasks go with it.               *)
LEMMA ReapedInv == IInv /\ Reaped => IInv'
<1> SUFFICES ASSUME IInv, Reaped PROVE IInv'
    OBVIOUS
<1>1. \A x \in tasks : /\ [x EXCEPT !.live = x.live /\ x.stage \in Creating] \in Task
                       /\ [x EXCEPT !.live = x.live /\ x.stage \in Creating].live
                            = (x.live /\ x.stage \in Creating)
                       /\ [x EXCEPT !.live = x.live /\ x.stage \in Creating].stage = x.stage
      <2> TAKE x \in tasks
      <2>1. (x.live /\ x.stage \in Creating) \in BOOLEAN
            BY Zenon
      <2>2. x \in Task
            BY Typed
      <2>3. QED BY <2>1, <2>2, CutTask
<1>2. tasks' \in SUBSET Task
      BY <1>1 DEF Reaped
<1>3. LiveTasksHaveRow'
      BY <1>1 DEF Reaped, IInv, LiveTasksHaveRow, HasRow
<1>4. /\ exists' = FALSE /\ status' = "idle" /\ reason' = "none" /\ stale' = FALSE
      /\ abandoned' = FALSE /\ profile' = FALSE
      BY DEF Reaped
<1>5. TypeOK'
      BY <1>2, <1>4 DEF TypeOK
<1>6. ErrorHasReason' /\ InFlightIsOwned'
      BY <1>4 DEF ErrorHasReason, InFlightIsOwned
<1>7. QED BY <1>3, <1>5, <1>6 DEF IInv

(* A row that POST /targets makes is idle.                                   *)
LEMMA CreateTargetInv == IInv /\ CreateTarget => IInv'
<1> SUFFICES ASSUME IInv, CreateTarget PROVE IInv'
    OBVIOUS
<1>1. /\ exists' = TRUE /\ status' = "idle" /\ reason' = "none" /\ stale' = FALSE
      /\ abandoned' = FALSE /\ profile' = FALSE /\ tasks' = tasks
      BY DEF CreateTarget
<1>2. TypeOK'
      BY <1>1, Typed DEF TypeOK
<1>3. LiveTasksHaveRow'
      BY <1>1 DEF IInv, LiveTasksHaveRow, HasRow
<1>4. ErrorHasReason' /\ InFlightIsOwned'
      BY <1>1 DEF ErrorHasReason, InFlightIsOwned
<1>5. QED BY <1>2, <1>3, <1>4 DEF IInv

(* The sweep settles what it finds, and time only makes rows stale.          *)
LEMMA SweepInv == IInv /\ (Sweep \/ Age) => IInv'
<1> SUFFICES ASSUME IInv, Sweep \/ Age PROVE IInv'
    OBVIOUS
<1>1. CASE Sweep
      <2>1. TypeOK'
            BY <1>1 DEF IInv, TypeOK, Sweep
      <2>2. QED BY <1>1, <2>1
                   DEF IInv, ErrorHasReason, InFlightIsOwned, LiveTasksHaveRow, HasRow, Sweep
<1>2. CASE Age
      <2>1. TypeOK'
            BY <1>2 DEF IInv, TypeOK, Age
      <2>2. QED BY <1>2, <2>1
                   DEF IInv, ErrorHasReason, InFlightIsOwned, LiveTasksHaveRow, HasRow, Age
<1>3. QED BY <1>1, <1>2

(* Every step keeps the inductive invariant.                                 *)
LEMMA NextInv == IInv /\ [Next]_vars => IInv'
<1> SUFFICES ASSUME IInv, [Next]_vars PROVE IInv'
    OBVIOUS
<1>1. ASSUME NEW x \in tasks, TrailingDone(x) PROVE IInv'
      BY <1>1, Typed, EndsInv, KeptInv DEF TrailingDone
<1>2. CASE MergeProfile \/ EmptyProfile
      <2>1. exists /\ UNCHANGED <<exists, tasks>> /\ Touch /\ profile' \in BOOLEAN
            BY <1>2 DEF MergeProfile, EmptyProfile
      <2>2. QED BY <2>1, Typed, TouchedInv
<1>3. CASE UNCHANGED vars
      BY <1>3 DEF vars, IInv, TypeOK, ErrorHasReason, InFlightIsOwned, LiveTasksHaveRow, HasRow
<1>4. QED BY <1>1, <1>2, <1>3, RequestInv, ProceedInv, LostInv, RestartInv, ReapedInv,
             CreateTargetInv, SweepInv DEF Next

(* The columns of a target stay in their domains, and a deleted row has none *)
(* of them: no late write of a background task brings a row back.            *)
THEOREM ActivationTypeOK == Spec => []TypeOK
BY InitInv, NextInv, PTL DEF Spec, IInv

(* A target in error always carries the reason the UI branches on (#649).    *)
THEOREM ErrorAlwaysHasReason == Spec => []ErrorHasReason
BY InitInv, NextInv, PTL DEF Spec, IInv

(* "deriving" and "polling" always have a task that will settle them, unless *)
(* that task was lost: only lost tasks leave work for the sweep.             *)
THEOREM InFlightAlwaysOwned == Spec => []InFlightIsOwned
BY InitInv, NextInv, PTL DEF Spec, IInv
=============================================================================
