------------------------ MODULE SharedProfile_proofs ------------------------
(* What holds of the shared profile for any requests, reference JDs, patches *)
(* and votes.                                                                *)
EXTENDS SharedProfile, TLAPS

USE ProfileAssumption DEF Items

Requested == [kind : Kinds, item : Items \union {None}, at : Places,
              list : SUBSET (Items \union {Label}),
              fresh : BOOLEAN, overtaken : BOOLEAN, again : BOOLEAN]

\* Where a request of a kind can be, and what it is about.
Fits(t) ==
    /\ t \in Requested
    /\ t.at = "idle" => t.kind = "none"
    /\ t.at = "deriving" => t.kind \in {"add", "seed", "learn"}
    /\ t.at = "deleting" => t.kind = "delete"
    /\ t.at = "tallying" => t.kind = "vote"
    /\ t.at = "reading" => t.kind \in Mergers \union {"adopt"}
    /\ t.at = "listing" => t.kind \in Mergers
    /\ t.at = "writing" => t.kind \in Mergers \union Patchers
    /\ t.at = "staging" => t.kind \in {"add", "learn"}
    /\ t.at = "raw" => t.kind \in {"seed", "derive"}
    /\ t.at = "lifting" => t.kind = "approve"
    /\ t.at = "logging" => t.kind \in Patchers \union {"approve"}
    /\ t.kind \in Mergers \union {"delete", "vote", "seed"} => t.item \in JDs
    /\ t.kind \in Patchers => t.item \in Patches

Shape == TypeOK /\ \A r \in Requests : Fits(task[r])

\* Both halves of the argument: where the profile is wrong about x somebody
\* owns x, and where q is about to write something wrong about x somebody else
\* does.
Owned ==
    \A x \in JDs :
        /\ Differs(x) => x \in adrift \/ \E q \in Requests : Owns(q, x)
        /\ \A q \in Requests :
             Wrong(q, x) => x \in adrift \/ \E p \in Requests \ {q} : Owns(p, x)

\* A patcher that still has the version, and that no derivation has overtaken,
\* has the profile that is there.
PatchesRead ==
    \A r \in Requests :
        task[r].kind \in Patchers /\ task[r].fresh /\ ~task[r].overtaken =>
            /\ At(r, "deriving") => task[r].list = profile
            /\ At(r, "writing") => task[r].list = profile \union {task[r].item}

IInv == Shape /\ PatchesRead /\ Owned

-----------------------------------------------------------------------------
(* Requests.                                                                 *)

LEMMA NewTask ==
    ASSUME NEW kind, NEW x, NEW place,
           \/ kind \in {"add", "seed"} /\ x \in JDs /\ place = "deriving"
           \/ kind = "add" /\ x \in JDs /\ place = "staging"
           \/ kind \in {"merge", "add", "approve"} /\ x \in JDs /\ place = "reading"
           \/ kind = "delete" /\ x \in JDs /\ place = "deleting"
           \/ kind = "vote" /\ x \in JDs /\ place = "tallying"
           \/ kind = "approve" /\ x \in JDs /\ place \in {"lifting", "logging"}
           \/ kind = "learn" /\ x \in Patches /\ place \in {"deriving", "staging", "logging"}
           \/ kind = "adopt" /\ x \in Patches /\ place \in {"reading", "logging"}
           \/ kind = "derive" /\ x = None /\ place = "raw"
           \/ kind = "none" /\ x = None /\ place = "idle"
    PROVE  Fits(Task(kind, x, place))
BY DEF Task, Fits, Rest, Requested, Kinds, Places, Mergers, Changers, Patchers

LEMMA RestFits == Fits(Rest)
BY NewTask DEF Rest

\* What else changes in a request.
LEMMA FitsStill ==
    ASSUME NEW t, Fits(t)
    PROVE  /\ Fits(Read(t)) /\ Fits(Stale(t))
           /\ \A b \in BOOLEAN : Fits([t EXCEPT !.again = b]) /\ Fits([t EXCEPT !.overtaken = b])
<1> DEFINE Alike(u) ==
        /\ u \in Requested /\ u.kind = t.kind /\ u.item = t.item /\ u.at = t.at
<1>1. ASSUME NEW u, Alike(u)
      PROVE  Fits(u)
    BY <1>1 DEF Fits
<1>2. t \in Requested
    BY DEF Fits
<1>3. Alike(Read(t)) /\ Alike(Stale(t))
    BY <1>2 DEF Read, Stale, Requested
<1>4. ASSUME NEW b \in BOOLEAN
      PROVE  Alike([t EXCEPT !.again = b]) /\ Alike([t EXCEPT !.overtaken = b])
    BY <1>2, <1>4 DEF Requested
<1> HIDE DEF Alike
<1> QED BY <1>1, <1>3, <1>4

LEMMA BecomesFits ==
    ASSUME Shape, NEW r \in Requests, NEW t, Fits(t), Becomes(r, t)
    PROVE  /\ \A q \in Requests : Fits(task'[q])
           /\ task' \in [Requests -> Requested]
           /\ task'[r] = t /\ \A q \in Requests \ {r} : task'[q] = task[q]
BY DEF Shape, TypeOK, Fits, Requested, Becomes

LEMMA ShapeIf ==
    ASSUME Shape, NEW r \in Requests, NEW t, Fits(t), Becomes(r, t),
           profile' \subseteq Items \union {Label},
           present' \subseteq JDs, suppressed' \subseteq present',
           down' \in [JDs -> SUBSET Voters], up' \in [JDs -> SUBSET Voters],
           log' \in [Items -> {"unused", "none", "staged", "applied", "rejected"}],
           adrift' \subseteq JDs, unlogged' \subseteq Patches
    PROVE  Shape'
<1>1. task' \in [Requests -> Requested] /\ \A q \in Requests : Fits(task'[q])
    BY BecomesFits
<1>2. TypeOK'
    BY <1>1 DEF TypeOK, Requested
<1> QED BY <1>1, <1>2 DEF Shape

\* The variables of a state of the right shape.
LEMMA Types ==
    ASSUME Shape
    PROVE  /\ profile \subseteq Items \union {Label}
           /\ present \subseteq JDs /\ suppressed \subseteq present
           /\ down \in [JDs -> SUBSET Voters] /\ up \in [JDs -> SUBSET Voters]
           /\ log \in [Items -> {"unused", "none", "staged", "applied", "rejected"}]
           /\ adrift \subseteq JDs /\ unlogged \subseteq Patches
           /\ task \in [Requests -> Requested]
           /\ \A r \in Requests : Fits(task[r]) /\ task[r] \in Requested
BY DEF Shape, TypeOK, Fits, Requested

LEMMA AbandonType ==
    ASSUME Shape, NEW js \in SUBSET JDs, Abandon(js)
    PROVE  adrift' \subseteq JDs
BY DEF Shape, TypeOK, Abandon

LEMMA LearnFits ==
    ASSUME NEW p \in Patches, NEW xs \in SUBSET (Items \union {Label})
    PROVE  Fits([Task("learn", p, "deriving") EXCEPT !.list = xs])
<1> DEFINE t == Task("learn", p, "deriving")
           u == [t EXCEPT !.list = xs]
<1>1. Fits(t)
    BY NewTask
<1>2. t \in Requested /\ t.at = "deriving" /\ t.kind = "learn" /\ t.item = p
    BY <1>1 DEF Fits, Task
<1> HIDE DEF t
<1>3. u \in Requested /\ u.at = "deriving" /\ u.kind = "learn" /\ u.item = p
    BY <1>2 DEF Requested
<1> HIDE DEF u
<1>4. Fits(u)
    BY <1>3 DEF Fits, Mergers, Changers, Patchers
<1> QED BY <1>4 DEF t, u

LEMMA StartsShape ==
    ASSUME Shape, NEW r \in Requests,
           \/ \E j \in JDs : \/ AddStarts(r, j) \/ ContributeStarts(r, j)
                             \/ DeleteStarts(r, j) \/ VoteStarts(r, j)
           \/ \E p \in Patches : LearnStarts(r, p)
           \/ \E x \in Items : ApplyStarts(r, x)
           \/ DeriveStarts(r)
    PROVE  Shape'
<1> USE Types
<1>1. ASSUME NEW j \in JDs, AddStarts(r, j)
      PROVE  Shape'
  <2>1. Fits(Read(Task("add", j, "deriving")))
      BY NewTask, FitsStill DEF Task
  <2> QED BY <1>1, <2>1, ShapeIf DEF AddStarts, New, rows, votes, history
<1>2. ASSUME NEW j \in JDs, ContributeStarts(r, j)
      PROVE  Shape'
  <2>1. Fits(Task("merge", j, "reading"))
      BY NewTask
  <2> QED BY <1>2, <2>1, ShapeIf DEF ContributeStarts, Starts, New, votes, history
<1>3. ASSUME NEW j \in JDs, DeleteStarts(r, j)
      PROVE  Shape'
  <2>1. Fits(Read(Task("delete", j, "deleting")))
      BY NewTask, FitsStill DEF Task
  <2> QED BY <1>3, <2>1, ShapeIf DEF DeleteStarts, rows, votes, history
<1>4. ASSUME NEW j \in JDs, VoteStarts(r, j)
      PROVE  Shape'
  <2>1. Fits(Task("vote", j, "tallying"))
      BY NewTask
  <2>2. down' \in [JDs -> SUBSET Voters] /\ up' \in [JDs -> SUBSET Voters]
      BY <1>4 DEF VoteStarts
  <2> QED BY <1>4, <2>1, <2>2, ShapeIf DEF VoteStarts, Starts, rows, history
<1>5. ASSUME NEW p \in Patches, LearnStarts(r, p)
      PROVE  Shape'
  <2>1. Fits(Read([Task("learn", p, "deriving") EXCEPT !.list = profile]))
    <3>1. Fits([Task("learn", p, "deriving") EXCEPT !.list = profile])
        BY LearnFits
    <3> QED BY <3>1, FitsStill DEF Task
  <2> QED BY <1>5, <2>1, ShapeIf DEF LearnStarts, New, rows, votes, history
<1>6. ASSUME NEW x \in Items, ApplyStarts(r, x)
      PROVE  Shape'
  <2>1. Fits(Task(IF x \in JDs THEN "approve" ELSE "adopt", x, "reading"))
      BY NewTask
  <2> QED BY <1>6, <2>1, ShapeIf DEF ApplyStarts, Starts, rows, votes, history
<1>7. CASE DeriveStarts(r)
  <2>1. Fits(Task("derive", None, "raw"))
      BY NewTask
  <2> QED BY <1>7, <2>1, ShapeIf DEF DeriveStarts, Starts, rows, votes, history
<1> QED BY <1>1, <1>2, <1>3, <1>4, <1>5, <1>6, <1>7

LEMMA WritingFits ==
    ASSUME NEW t, Fits(t), t.kind \in Patchers, NEW xs \in SUBSET (Items \union {Label})
    PROVE  Fits([t EXCEPT !.at = "writing", !.list = xs])
<1>1. ASSUME NEW u \in Requested, u.at = "writing", u.kind = t.kind, u.item \in Patches
      PROVE  Fits(u)
    BY <1>1 DEF Fits, Mergers, Changers, Patchers
<1>2. t \in Requested /\ t.item \in Patches
    BY DEF Fits
<1>3. /\ [t EXCEPT !.at = "writing", !.list = xs] \in Requested
      /\ [t EXCEPT !.at = "writing", !.list = xs].at = "writing"
      /\ [t EXCEPT !.at = "writing", !.list = xs].kind = t.kind
      /\ [t EXCEPT !.at = "writing", !.list = xs].item = t.item
    BY <1>2 DEF Requested, Places
<1> QED BY <1>1, <1>2, <1>3

LEMMA StepsShape ==
    ASSUME Shape, NEW r \in Requests,
           \/ Insert(r) \/ Remove(r) \/ Count(r) \/ ReadTarget(r) \/ List(r)
           \/ Quarantine(r) \/ Stage(r) \/ Learned(r)
    PROVE  Shape'
<1> USE Types
<1> DEFINE t == task[r]
<1>0. Fits(t) /\ t \in Requested
    OBVIOUS
<1>1. CASE Insert(r)
  <2>1. Fits([t EXCEPT !.at = IF t.kind = "add" THEN "listing" ELSE "raw"]) /\ t.item \in JDs
      BY <1>0, <1>1 DEF Insert, At, Fits, Requested, Places, Mergers, Changers
  <2> QED BY <1>1, <2>1, ShapeIf DEF Insert, Goes, votes, history
<1>2. CASE Remove(r)
  <2>1. Fits([t EXCEPT !.kind = "merge", !.at = "listing"])
      BY <1>0, <1>2 DEF Remove, At, Fits, Requested, Kinds, Places, Mergers, Changers, Patchers
  <2>2. adrift' \subseteq JDs
      BY <1>2, AbandonType DEF Remove
  <2>3. \E u : Fits(u) /\ Becomes(r, u)
      BY <1>2, <2>1, RestFits DEF Remove, Ends
  <2> QED BY <1>2, <2>2, <2>3, ShapeIf DEF Remove
<1>3. CASE Count(r)
  <2>1. t.item \in JDs
      BY <1>0, <1>3 DEF Count, At, Fits, Mergers
  <2>2. Fits(Task("merge", t.item, "reading"))
      BY <2>1, NewTask
  <2>3. adrift' \subseteq JDs
      BY <1>3, AbandonType DEF Count
  <2>4. \E u : Fits(u) /\ Becomes(r, u)
      BY <1>3, <2>2, RestFits DEF Count, Ends
  <2>5. suppressed' \subseteq present
      BY <1>3 DEF Count
  <2> QED BY <1>3, <2>3, <2>4, <2>5, ShapeIf DEF Count, votes
<1>4. CASE ReadTarget(r)
  <2>1. \/ Becomes(r, Read([t EXCEPT !.at = "listing"])) /\ t.kind \in Mergers
        \/ /\ Becomes(r, Read([t EXCEPT !.at = "writing", !.list = profile \union {t.item}]))
           /\ t.kind = "adopt"
      BY <1>4 DEF ReadTarget
  <2>2. ASSUME t.kind \in Mergers
        PROVE  Fits(Read([t EXCEPT !.at = "listing"]))
    <3>1. Fits([t EXCEPT !.at = "listing"])
        BY <1>0, <2>2 DEF Fits, Requested, Places
    <3> QED BY <1>0, <3>1, FitsStill DEF Requested
  <2>3. ASSUME t.kind = "adopt"
        PROVE  Fits(Read([t EXCEPT !.at = "writing", !.list = profile \union {t.item}]))
    <3>1. Fits([t EXCEPT !.at = "writing", !.list = profile \union {t.item}])
      <4>1. t.kind \in Patchers /\ t.item \in Patches
          BY <1>0, <2>3 DEF Patchers, Fits
      <4> QED BY <1>0, <4>1, WritingFits
    <3> QED BY <1>0, <3>1, FitsStill DEF Requested
  <2>4. \E u : Fits(u) /\ Becomes(r, u)
      BY <2>1, <2>2, <2>3
  <2> QED BY <1>4, <2>4, ShapeIf DEF ReadTarget, rows, votes, history
<1>5. CASE List(r)
  <2>1. ASSUME NEW xs \in SUBSET JDs, t.kind \in Mergers
        PROVE  Fits([t EXCEPT !.at = "writing", !.list = xs])
      BY <1>0, <2>1 DEF Fits, Requested, Places
  <2>2. Live \in SUBSET JDs /\ (t.item \in present => Live \union {t.item} \in SUBSET JDs)
      BY DEF Live
  <2>3. \E u : Fits(u) /\ Becomes(r, u)
      BY <1>5, <2>1, <2>2, RestFits DEF List, Ends, Mergers
  <2> QED BY <1>5, <2>3, ShapeIf DEF List, rows, votes, history
<1>6. CASE Quarantine(r)
  <2>1. t.item \in JDs
      BY <1>0, <1>6 DEF Quarantine, Fits, Mergers, Changers
  <2>2. Fits(Task("add", t.item, "staging"))
      BY <2>1, NewTask
  <2>3. adrift' \subseteq JDs
      BY <1>6, <2>1, AbandonType DEF Quarantine
  <2> QED BY <1>6, <2>2, <2>3, ShapeIf DEF Quarantine, votes
<1>7. CASE Stage(r)
  <2>1. t.item \in Items
      BY <1>0, <1>7 DEF Stage, At, Fits, Mergers, Changers, Patchers
  <2> QED BY <1>7, <2>1, RestFits, ShapeIf DEF Stage, Ends, rows, votes, history
<1>8. CASE Learned(r)
  <2>1. t.item \in Patches /\ t.kind = "learn" /\ t.at = "deriving"
      BY <1>0, <1>8 DEF Learned, Fits, Patchers, At
  <2>2. Fits([t EXCEPT !.at = "writing", !.list = @ \union {t.item}])
      BY <1>0, <2>1, WritingFits DEF Patchers, Requested
  <2>3. Fits(Task("learn", t.item, "staging")) /\ Fits(Task("learn", t.item, "logging"))
      BY <2>1, NewTask
  <2>4. \E u : Fits(u) /\ Becomes(r, u)
      BY <1>8, <2>2, <2>3, RestFits DEF Learned, Ends
  <2> QED BY <1>8, <2>4, ShapeIf DEF Learned, rows, votes, history
<1> QED BY <1>1, <1>2, <1>3, <1>4, <1>5, <1>6, <1>7, <1>8

LEMMA WrittenFits ==
    ASSUME NEW t, Fits(t), t.at = "writing"
    PROVE  Fits(Written(t))
<1>1. t.kind \in Mergers \union Patchers
    BY DEF Fits
<1>2. CASE t.kind \in Changers
    BY <1>2, RestFits DEF Written, Changers, Patchers
<1>3. CASE t.kind = "approve"
  <2>1. Fits(Task("approve", t.item, "lifting"))
      BY <1>3, NewTask DEF Fits, Mergers
  <2> QED BY <1>3, <2>1 DEF Written, Changers, Patchers
<1>4. CASE t.kind \in Patchers
  <2>1. Fits(Task(t.kind, t.item, "logging"))
      BY <1>4, NewTask DEF Fits, Patchers
  <2> QED BY <1>4, <2>1 DEF Written, Changers, Patchers
<1> QED BY <1>1, <1>2, <1>3, <1>4 DEF Mergers

LEMMA EndsShape ==
    ASSUME Shape, NEW r \in Requests,
           Write(r) \/ Conflict(r) \/ Lift(r) \/ LogApplied(r) \/ RawWrite(r) \/ Fails(r)
    PROVE  Shape'
<1> USE Types
<1> DEFINE t == task[r]
<1>0. Fits(t) /\ t \in Requested
    OBVIOUS
<1>1. CASE Write(r)
  <2>1. Fits(Written(t))
      BY <1>0, <1>1, WrittenFits DEF Write, At
  <2>2. \A q \in Requests \ {r} : Fits(Stale(task[q]))
      BY FitsStill
  <2>3. \A q \in Requests : Fits(task'[q]) /\ task' \in [Requests -> Requested]
    <3>1. task' = [q \in Requests |-> IF q = r THEN Written(t) ELSE Stale(task[q])]
        BY <1>1 DEF Write
    <3>2. \A q \in Requests : Fits(task'[q])
        BY <2>1, <2>2, <3>1
    <3> QED BY <3>1, <3>2 DEF Fits
  <2>4. adrift' \subseteq JDs
      BY <1>1, AbandonType DEF Write
  <2>5. t.list \subseteq Items \union {Label}
      BY <1>0 DEF Requested
  <2>6. TypeOK'
      BY <1>1, <2>3, <2>4, <2>5 DEF Write, TypeOK, rows, votes, Requested
  <2> QED BY <2>3, <2>6 DEF Shape
<1>2. CASE Conflict(r)
  <2>1. t.kind \in Mergers \union Patchers /\ t.kind \in Changers => t.item \in JDs
      BY <1>0, <1>2 DEF Conflict, At, Fits, Mergers
  <2>2. \E u : Fits(u) /\ Becomes(r, u)
    <3>1. ASSUME t.kind \in Changers
          PROVE  Fits([Task(t.kind, t.item, "reading") EXCEPT !.again = TRUE])
      <4>1. Fits(Task(t.kind, t.item, "reading"))
          BY <1>0, <3>1, NewTask DEF Fits, Changers, Mergers
      <4> QED BY <4>1, FitsStill DEF Task
    <3>2. ASSUME t.kind = "learn"
          PROVE  Fits(Task("learn", t.item, "staging"))
        BY <1>0, <3>2, NewTask DEF Fits, Patchers
    <3> QED BY <1>2, <3>1, <3>2, RestFits DEF Conflict, Ends
  <2>3. adrift' \subseteq JDs
    <3>1. (IF t.kind \in Changers /\ t.again THEN {t.item} ELSE {}) \in SUBSET JDs
        BY <1>0 DEF Fits, Mergers
    <3> QED BY <1>2, <3>1, AbandonType DEF Conflict
  <2> QED BY <1>2, <2>2, <2>3, ShapeIf DEF Conflict, rows, votes
<1>3. CASE Lift(r)
  <2>1. t.item \in JDs /\ t.at = "lifting" /\ t.kind = "approve"
      BY <1>0, <1>3 DEF Lift, At, Fits, Mergers
  <2>2. Fits([t EXCEPT !.at = "logging"])
      BY <1>0, <2>1 DEF Fits, Requested, Places
  <2>3. adrift' \subseteq JDs
      BY <1>3, <2>1, AbandonType DEF Lift
  <2> QED BY <1>3, <2>2, <2>3, ShapeIf DEF Lift, Goes, votes
<1>4. CASE LogApplied(r)
  <2>1. t.item \in Items
      BY <1>0, <1>4 DEF LogApplied, At, Fits, Mergers, Patchers
  <2> QED BY <1>4, <2>1, RestFits, ShapeIf DEF LogApplied, Ends, rows, votes, history
<1>5. CASE RawWrite(r)
  <2>1. \A q \in Requests : Fits([task[q] EXCEPT !.overtaken = task[q].fresh])
      BY FitsStill DEF Requested
  <2>2. \A q \in Requests : Fits(task'[q]) /\ task' \in [Requests -> Requested]
    <3>1. task' = [q \in Requests |-> IF q = r THEN Rest
                                      ELSE [task[q] EXCEPT !.overtaken = task[q].fresh]]
        BY <1>5 DEF RawWrite
    <3>2. \A q \in Requests : Fits(task'[q])
        BY <2>1, <3>1, RestFits
    <3> QED BY <3>1, <3>2 DEF Fits
  <2>3. adrift' \subseteq JDs
      BY <1>5, AbandonType DEF RawWrite
  <2>4. profile' \subseteq Items \union {Label}
      BY <1>0, <1>5 DEF RawWrite, At, Fits
  <2>5. TypeOK'
      BY <1>5, <2>2, <2>3, <2>4 DEF RawWrite, TypeOK, rows, votes, Requested
  <2> QED BY <2>2, <2>5 DEF Shape
<1>6. CASE Fails(r)
  <2>1. adrift' \subseteq JDs
      BY <1>6, AbandonType DEF Fails
  <2>2. unlogged' \subseteq Patches
      BY <1>6 DEF Fails
  <2> QED BY <1>6, <2>1, <2>2, RestFits, ShapeIf DEF Fails, Ends, rows, votes
<1> QED BY <1>1, <1>2, <1>3, <1>4, <1>5, <1>6

LEMMA NextShape == Shape /\ [Next]_vars => Shape'
<1> SUFFICES ASSUME Shape, [Next]_vars PROVE Shape'
    OBVIOUS
<1>1. ASSUME NEW x \in Items, Reject(x)
      PROVE  Shape'
  <2>1. log' \in [Items -> {"unused", "none", "staged", "applied", "rejected"}]
      BY <1>1, Types DEF Reject
  <2> QED BY <1>1, <2>1 DEF Reject, Shape, TypeOK, rows, votes, history
<1>2. CASE UNCHANGED vars
    BY <1>2 DEF vars, rows, votes, history, Shape, TypeOK
<1> QED BY <1>1, <1>2, StartsShape, StepsShape, EndsShape DEF Next

-----------------------------------------------------------------------------
(* A step of one request.                                                    *)

\* Owns and Wrong, as far as they depend on what one request is doing.
Keeps(t, x) ==
    /\ t.item = x
    /\ \/ t.kind \in Changers /\ t.at \in {"reading", "listing", "writing"}
       \/ t.kind = "seed" /\ t.at = "raw"
       \/ t.at = "lifting"
Errs(t, xs, x) ==
    /\ t.kind \in Mergers /\ t.at = "writing" /\ t.fresh
    /\ (x \in t.list) # (x \in xs)
    /\ ~(t.kind = "approve" /\ t.item = x)

LEMMA KeepsAndErrs ==
    ASSUME NEW r \in Requests, NEW x
    PROVE  /\ Owns(r, x) <=> Keeps(task[r], x)
           /\ Owns(r, x)' <=> Keeps(task'[r], x)
           /\ Wrong(r, x) <=> Errs(task[r], Live, x)
           /\ Wrong(r, x)' <=> Errs(task'[r], Live', x)
BY DEF Owns, Wrong, Keeps, Errs, At

\* A request that does not move keeps what it owns; what it writes is wrong
\* about x only if the row of x has changed.
LEMMA OthersKeep ==
    ASSUME NEW q \in Requests, NEW x, task'[q] = task[q]
    PROVE  /\ Owns(q, x)' <=> Owns(q, x)
           /\ Wrong(q, x)' /\ ((x \in Live') <=> (x \in Live)) => Wrong(q, x)
BY DEF Owns, Wrong, At

\* While the profile stays, it is enough to see what r changes and gives up.
LEMMA OwnedIf ==
    ASSUME Shape, Owned, NEW r \in Requests, NEW t, Fits(t), Becomes(r, t), profile' = profile,
           NEW js,
           \A x \in JDs : x \in adrift \union js /\ Outdated(x)' => x \in adrift',
           \A x \in JDs : (x \in Live' <=> x \in Live) \/ Keeps(t, x) \/ x \in js,
           \A x \in JDs : Keeps(task[r], x) => Keeps(t, x) \/ x \in js,
           \A x \in JDs : ~Errs(t, Live', x)
    PROVE  Owned'
<1>1. \A q \in Requests \ {r} : task'[q] = task[q]
    BY BecomesFits
<1>4. /\ \A x \in JDs : (x \in Live' <=> x \in Live) \/ Owns(r, x)' \/ x \in js
      /\ \A x \in JDs : Owns(r, x) => Owns(r, x)' \/ x \in js
      /\ \A x \in JDs : ~Wrong(r, x)'
    BY BecomesFits, KeepsAndErrs
<1> SUFFICES ASSUME NEW x \in JDs
             PROVE  /\ Differs(x)' => x \in adrift' \/ \E q \in Requests : Owns(q, x)'
                    /\ \A q \in Requests :
                         Wrong(q, x)' => x \in adrift' \/ \E p \in Requests \ {q} : Owns(p, x)'
    BY DEF Owned
<1>2. ASSUME Differs(x)'
      PROVE  x \in adrift' \/ \E q \in Requests : Owns(q, x)'
  <2>1. Outdated(x)'
      BY <1>2 DEF Outdated
  <2>2. CASE x \in js
      BY <2>1, <2>2
  <2>3. CASE x \in Live' <=> x \in Live
    <3>1. Differs(x)
        BY <1>2, <2>3 DEF Differs
    <3>2. x \in adrift \/ \E q \in Requests : Owns(q, x)
        BY <3>1 DEF Owned
    <3> QED BY <1>1, <1>4, <2>1, <3>2, OthersKeep
  <2> QED BY <1>4, <2>1, <2>2, <2>3, <1>1, OthersKeep
<1>3. ASSUME NEW q \in Requests, Wrong(q, x)'
      PROVE  x \in adrift' \/ \E p \in Requests \ {q} : Owns(p, x)'
  <2>1. q # r /\ Outdated(x)'
      BY <1>3, <1>4 DEF Outdated
  <2>2. CASE x \in js
      BY <2>1, <2>2
  <2>3. CASE x \in Live' <=> x \in Live
    <3>1. Wrong(q, x)
        BY <1>1, <1>3, <2>1, <2>3, OthersKeep
    <3>2. x \in adrift \/ \E p \in Requests \ {q} : Owns(p, x)
        BY <3>1 DEF Owned
    <3> QED BY <1>1, <1>4, <2>1, <3>2, OthersKeep
  <2> QED BY <1>4, <2>1, <2>2, <2>3
<1> QED BY <1>2, <1>3

\* The same for the profile that a patcher has read.
LEMMA PatchesIf ==
    ASSUME Shape, PatchesRead, NEW r \in Requests, NEW t, Fits(t), Becomes(r, t),
           profile' = profile,
           t.kind \in Patchers /\ t.fresh /\ ~t.overtaken =>
               /\ t.at = "deriving" => t.list = profile
               /\ t.at = "writing" => t.list = profile \union {t.item}
    PROVE  PatchesRead'
<1>1. task'[r] = t /\ \A q \in Requests \ {r} : task'[q] = task[q]
    BY BecomesFits
<1> QED BY <1>1 DEF PatchesRead, At

Steady == PatchesRead' /\ Owned'

LEMMA StartsSteady ==
    ASSUME IInv, NEW r \in Requests,
           \/ \E j \in JDs : \/ AddStarts(r, j) \/ ContributeStarts(r, j)
                             \/ DeleteStarts(r, j) \/ VoteStarts(r, j)
           \/ \E p \in Patches : LearnStarts(r, p)
           \/ \E x \in Items : ApplyStarts(r, x)
           \/ DeriveStarts(r)
    PROVE  Steady
<1> USE Types DEF IInv
<1>0. /\ task[r].kind = "none" /\ task[r].at = "idle"
      /\ profile' = profile /\ adrift' = adrift /\ suppressed' = suppressed
    BY DEF AddStarts, ContributeStarts, DeleteStarts, VoteStarts, LearnStarts, ApplyStarts,
           DeriveStarts, Starts, At, Fits, history, rows
<1>1. \A x \in JDs : ~Keeps(task[r], x)
    BY <1>0 DEF Keeps, Changers
<1>2. ASSUME NEW t, Fits(t), Becomes(r, t), present' = present, t.at # "writing",
             t.kind \in Patchers /\ t.fresh => t.at = "deriving" /\ t.list = profile
      PROVE  Steady
  <2>1. PatchesRead'
      BY <1>0, <1>2, PatchesIf
  <2>2. Live' = Live
      BY <1>0, <1>2 DEF Live
  <2>3. \A x \in JDs : ~Errs(t, Live', x)
      BY <1>2 DEF Errs
  <2>4. Owned'
      BY <1>0, <1>1, <1>2, <2>2, <2>3, OwnedIf
  <2> QED BY <2>1, <2>4 DEF Steady
<1>3. ASSUME NEW j \in JDs, AddStarts(r, j)
      PROVE  Steady
  <2>1. Fits(Read(Task("add", j, "deriving")))
      BY NewTask, FitsStill
  <2> QED BY <1>2, <1>3, <2>1 DEF AddStarts, rows, Read, Task, Patchers
<1>4. ASSUME NEW j \in JDs, ContributeStarts(r, j)
      PROVE  Steady
  <2> DEFINE t == Task("merge", j, "reading")
  <2>1. Fits(t) /\ Becomes(r, t)
      BY <1>4, NewTask DEF ContributeStarts, Starts
  <2>2. t.kind = "merge" /\ t.at = "reading" /\ t.item = j
      BY DEF Task
  <2> HIDE DEF t
  <2>3. PatchesRead'
      BY <1>0, <2>1, <2>2, PatchesIf DEF Patchers
  <2>4. \A x \in JDs : x # j => (x \in Live' <=> x \in Live)
      BY <1>0, <1>4 DEF ContributeStarts, Live
  <2>5. Keeps(t, j) /\ \A x \in JDs : ~Errs(t, Live', x)
      BY <2>2 DEF Keeps, Errs, Changers
  <2>6. Owned'
      BY <1>0, <1>1, <2>1, <2>4, <2>5, OwnedIf
  <2> QED BY <2>3, <2>6 DEF Steady
<1>5. ASSUME NEW j \in JDs, DeleteStarts(r, j)
      PROVE  Steady
  <2>1. Fits(Read(Task("delete", j, "deleting")))
      BY NewTask, FitsStill
  <2> QED BY <1>2, <1>5, <2>1 DEF DeleteStarts, rows, Read, Task, Patchers
<1>6. ASSUME NEW j \in JDs, VoteStarts(r, j)
      PROVE  Steady
  <2>1. Fits(Task("vote", j, "tallying"))
      BY NewTask
  <2> QED BY <1>2, <1>6, <2>1 DEF VoteStarts, Starts, rows, Task, Patchers
<1>7. ASSUME NEW p \in Patches, LearnStarts(r, p)
      PROVE  Steady
  <2> DEFINE t == Read([Task("learn", p, "deriving") EXCEPT !.list = profile])
  <2>1. Fits(t)
    <3>1. Fits([Task("learn", p, "deriving") EXCEPT !.list = profile])
        BY LearnFits
    <3> QED BY <3>1, FitsStill
  <2> QED BY <1>2, <1>7, <2>1 DEF LearnStarts, rows, Read, Task
<1>8. ASSUME NEW x \in Items, ApplyStarts(r, x)
      PROVE  Steady
  <2>1. Fits(Task(IF x \in JDs THEN "approve" ELSE "adopt", x, "reading"))
      BY NewTask
  <2> QED BY <1>2, <1>8, <2>1 DEF ApplyStarts, Starts, rows, Task
<1>9. CASE DeriveStarts(r)
  <2>1. Fits(Task("derive", None, "raw"))
      BY NewTask
  <2> QED BY <1>2, <1>9, <2>1 DEF DeriveStarts, Starts, rows, Task
<1> QED BY <1>3, <1>4, <1>5, <1>6, <1>7, <1>8, <1>9

\* A request that keeps what it owns, or gives it up, and leaves the rows.
LEMMA RowsStaySteady ==
    ASSUME IInv, NEW r \in Requests, NEW t, Fits(t), Becomes(r, t), profile' = profile,
           Live' = Live, NEW js,
           \A x \in JDs : x \in adrift \union js /\ Outdated(x)' => x \in adrift',
           \A x \in JDs : Keeps(task[r], x) => Keeps(t, x) \/ x \in js,
           \A x \in JDs : ~Errs(t, Live, x),
           t.kind \in Patchers /\ t.fresh /\ ~t.overtaken =>
               /\ t.at = "deriving" => t.list = profile
               /\ t.at = "writing" => t.list = profile \union {t.item}
    PROVE  Steady
BY OwnedIf, PatchesIf DEF IInv, Steady

\* A request that changes the row of one JD and keeps that, or gives it up.
LEMMA OneRowSteady ==
    ASSUME IInv, NEW r \in Requests, NEW t, Fits(t), Becomes(r, t), profile' = profile,
           NEW j, \A x \in JDs : x # j => (x \in Live' <=> x \in Live),
           t.at # "writing", t.kind \in Patchers => t.at # "deriving",
           \A x \in JDs : Keeps(task[r], x) => x = j,
           NEW js, Keeps(t, j) \/ j \in js,
           \A x \in JDs : x \in adrift \union js /\ Outdated(x)' => x \in adrift'
    PROVE  Steady
<1>1. \A x \in JDs : ~Errs(t, Live', x)
    BY DEF Errs
<1> QED BY <1>1, OwnedIf, PatchesIf DEF IInv, Steady

LEMMA Abandons ==
    ASSUME NEW js, Abandon(js)
    PROVE  \A x \in JDs : x \in adrift \union js /\ Outdated(x)' => x \in adrift'
BY DEF Abandon

LEMMA StepsSteady ==
    ASSUME IInv, NEW r \in Requests,
           \/ Insert(r) \/ Remove(r) \/ Count(r) \/ ReadTarget(r) \/ List(r)
           \/ Quarantine(r) \/ Stage(r) \/ Learned(r)
    PROVE  Steady
<1> USE Types DEF IInv
<1> DEFINE j == task[r].item
<1>0. Fits(task[r]) /\ task[r] \in Requested
    OBVIOUS
<1>1. CASE Insert(r)
  <2> DEFINE t == [task[r] EXCEPT !.at = IF task[r].kind = "add" THEN "listing" ELSE "raw"]
  <2>1. task[r].at = "deriving" /\ task[r].kind \in {"add", "seed"}
      BY <1>1 DEF Insert, At
  <2>2. Fits(t)
      BY <1>0, <2>1 DEF Fits, Requested, Places, Mergers, Changers
  <2>3. Becomes(r, t)
      BY <1>1 DEF Insert, Goes
  <2>4. Keeps(t, j) /\ t.at # "writing" /\ t.kind \notin Patchers
      BY <1>0, <2>1 DEF Keeps, Changers, Patchers, Requested
  <2>5. \A x \in JDs : x # j => (x \in Live' <=> x \in Live)
      BY <1>1 DEF Insert, Live
  <2>6. profile' = profile /\ adrift' = adrift
      BY <1>1 DEF Insert, history
  <2>7. \A x \in JDs : Keeps(task[r], x) => x = j
      BY DEF Keeps
  <2> HIDE DEF t, j
  <2> QED BY <2>2, <2>3, <2>4, <2>5, <2>6, <2>7, OneRowSteady
<1>2. CASE Remove(r)
  <2>1. task[r].at = "deleting" /\ task[r].kind = "delete"
      BY <1>0, <1>2 DEF Remove, At, Fits
  <2>2. \A x \in JDs : ~Keeps(task[r], x)
      BY <2>1 DEF Keeps, Changers
  <2>3. \A x \in JDs : x \in adrift \union {} /\ Outdated(x)' => x \in adrift'
      BY <1>2, Abandons DEF Remove
  <2>4. profile' = profile
      BY <1>2 DEF Remove
  <2>5. CASE j \in present /\ Becomes(r, [task[r] EXCEPT !.kind = "merge", !.at = "listing"])
    <3> DEFINE t == [task[r] EXCEPT !.kind = "merge", !.at = "listing"]
    <3>1. Fits(t)
        BY <1>0, <2>1 DEF Fits, Requested, Kinds, Places, Mergers, Changers, Patchers
    <3>2. Keeps(t, j) /\ t.at # "writing" /\ t.kind \notin Patchers
        BY <1>0 DEF Keeps, Changers, Patchers, Requested
    <3>3. \A x \in JDs : x # j => (x \in Live' <=> x \in Live)
        BY <1>2 DEF Remove, Live
    <3>4. Becomes(r, t)
        BY <2>5
    <3> HIDE DEF t, j
    <3> QED BY <2>2, <2>3, <2>4, <3>1, <3>2, <3>3, <3>4, OneRowSteady
  <2>6. CASE j \notin present /\ Becomes(r, Rest)
    <3>1. Live' = Live
        BY <1>2, <2>6 DEF Remove, Live
    <3>2. Rest.at = "idle" /\ Rest.kind = "none" /\ \A x \in JDs : ~Errs(Rest, Live, x)
        BY DEF Rest, Task, Errs
    <3> QED BY <2>2, <2>3, <2>4, <2>6, <3>1, <3>2, RestFits, RowsStaySteady DEF Patchers
  <2> QED BY <1>2, <2>5, <2>6 DEF Remove, Ends
<1>3. CASE Count(r)
  <2>1. task[r].at = "tallying" /\ task[r].kind = "vote" /\ j \in JDs
      BY <1>0, <1>3 DEF Count, At, Fits
  <2>2. \A x \in JDs : ~Keeps(task[r], x)
      BY <2>1 DEF Keeps, Changers
  <2>3. \A x \in JDs : x \in adrift \union {} /\ Outdated(x)' => x \in adrift'
      BY <1>3, Abandons DEF Count
  <2>4. profile' = profile /\ present' = present
      BY <1>3 DEF Count
  <2>5. CASE Becomes(r, Task("merge", j, "reading"))
    <3> DEFINE t == Task("merge", j, "reading")
    <3>1. Fits(t) /\ Keeps(t, j) /\ t.at # "writing" /\ t.kind \notin Patchers
        BY <2>1, NewTask DEF Keeps, Task, Changers, Patchers
    <3>2. \A x \in JDs : x # j => (x \in Live' <=> x \in Live)
        BY <1>3, <2>4 DEF Count, Live
    <3> HIDE DEF t, j
    <3> QED BY <2>2, <2>3, <2>4, <2>5, <3>1, <3>2, OneRowSteady DEF t
  <2>6. CASE Becomes(r, Rest) /\ suppressed' = suppressed
    <3>1. Live' = Live
        BY <2>4, <2>6 DEF Live
    <3>2. Rest.at = "idle" /\ Rest.kind = "none" /\ \A x \in JDs : ~Errs(Rest, Live, x)
        BY DEF Rest, Task, Errs
    <3> QED BY <2>2, <2>3, <2>4, <2>6, <3>1, <3>2, RestFits, RowsStaySteady DEF Patchers
  <2> QED BY <1>3, <2>5, <2>6 DEF Count, Ends
<1>4. CASE ReadTarget(r)
  <2>1. /\ task[r].at = "reading" /\ profile' = profile /\ adrift' = adrift
        /\ present' = present /\ suppressed' = suppressed
      BY <1>4 DEF ReadTarget, At, rows, history
  <2>2. Live' = Live
      BY <2>1 DEF Live
  <2>3. CASE task[r].kind \in Mergers /\ Becomes(r, Read([task[r] EXCEPT !.at = "listing"]))
    <3> DEFINE t == Read([task[r] EXCEPT !.at = "listing"])
    <3>1. Fits([task[r] EXCEPT !.at = "listing"])
        BY <1>0, <2>3 DEF Fits, Requested, Places
    <3>2. Fits(t)
        BY <3>1, FitsStill
    <3>3. t.at = "listing" /\ t.kind = task[r].kind /\ t.item = j
        BY <1>0 DEF Read, Requested
    <3>4. /\ \A x \in JDs : Keeps(task[r], x) => Keeps(t, x)
          /\ \A x \in JDs : ~Errs(t, Live, x)
        BY <2>1, <3>3 DEF Keeps, Errs
    <3> HIDE DEF t
    <3> QED BY <2>1, <2>2, <2>3, <3>2, <3>3, <3>4, RowsStaySteady DEF t
  <2>4. CASE /\ task[r].kind = "adopt"
             /\ Becomes(r, Read([task[r] EXCEPT !.at = "writing", !.list = profile \union {j}]))
    <3> DEFINE t == Read([task[r] EXCEPT !.at = "writing", !.list = profile \union {j}])
    <3>1. j \in Patches /\ task[r].kind \in Patchers
        BY <1>0, <2>4 DEF Fits, Patchers
    <3>2. Fits([task[r] EXCEPT !.at = "writing", !.list = profile \union {j}])
        BY <1>0, <3>1, WritingFits
    <3>3. Fits(t)
        BY <3>2, FitsStill
    <3>4. t.at = "writing" /\ t.kind = "adopt" /\ t.item = j /\ t.list = profile \union {j}
        BY <1>0, <2>4 DEF Read, Requested
    <3>5. /\ \A x \in JDs : ~Keeps(task[r], x)
          /\ \A x \in JDs : ~Errs(t, Live, x)
        BY <2>1, <2>4, <3>4 DEF Keeps, Errs, Mergers, Changers
    <3> HIDE DEF t
    <3> QED BY <2>1, <2>2, <2>4, <3>3, <3>4, <3>5, RowsStaySteady DEF t
  <2> QED BY <1>4, <2>3, <2>4 DEF ReadTarget
<1>5. CASE List(r)
  <2>1. /\ task[r].at = "listing" /\ task[r].kind \in Mergers /\ profile' = profile
        /\ adrift' = adrift /\ present' = present /\ suppressed' = suppressed
      BY <1>0, <1>5 DEF List, At, rows, history, Fits
  <2>2. Live' = Live /\ Live \in SUBSET JDs
      BY <2>1 DEF Live
  <2>3. ASSUME NEW xs \in SUBSET JDs, Becomes(r, [task[r] EXCEPT !.at = "writing", !.list = xs]),
               \/ task[r].kind \in Changers /\ xs = Live
               \/ task[r].kind = "approve" /\ xs = Live \union {j}
        PROVE  Steady
    <3> DEFINE t == [task[r] EXCEPT !.at = "writing", !.list = xs]
    <3>1. Fits(t)
        BY <1>0, <2>1 DEF Fits, Requested, Places
    <3>2. t.at = "writing" /\ t.kind = task[r].kind /\ t.item = j /\ t.list = xs
        BY <1>0 DEF Requested
    <3>3. /\ \A x \in JDs : Keeps(task[r], x) => Keeps(t, x)
          /\ \A x \in JDs : ~Errs(t, Live, x)
        BY <2>1, <2>3, <3>2 DEF Keeps, Errs
    <3>4. t.kind \notin Patchers
        BY <2>1, <3>2 DEF Mergers, Changers, Patchers
    <3> HIDE DEF t
    <3> QED BY <2>1, <2>2, <2>3, <3>1, <3>3, <3>4, RowsStaySteady DEF t
  <2>4. CASE task[r].kind = "approve" /\ Becomes(r, Rest)
    <3>1. \A x \in JDs : ~Keeps(task[r], x)
        BY <2>1, <2>4 DEF Keeps, Changers
    <3>2. Rest.at = "idle" /\ Rest.kind = "none" /\ \A x \in JDs : ~Errs(Rest, Live, x)
        BY DEF Rest, Task, Errs
    <3> QED BY <2>1, <2>2, <2>4, <3>1, <3>2, RestFits, RowsStaySteady DEF Patchers
  <2>5. Live \union {j} \in SUBSET JDs
      BY <1>0, <2>1, <2>2 DEF Fits
  <2>6. \/ task[r].kind \in Changers /\ Becomes(r, [task[r] EXCEPT !.at = "writing", !.list = Live])
        \/ /\ task[r].kind = "approve"
           /\ Becomes(r, [task[r] EXCEPT !.at = "writing", !.list = Live \union {j}])
        \/ task[r].kind = "approve" /\ Becomes(r, Rest)
      BY <1>5 DEF List, Ends
  <2> QED BY <2>2, <2>3, <2>4, <2>5, <2>6
<1>6. CASE Quarantine(r)
  <2>1. /\ task[r].at = "writing" /\ task[r].kind = "add" /\ j \in JDs
        /\ profile' = profile /\ Becomes(r, Task("add", j, "staging"))
      BY <1>0, <1>6 DEF Quarantine, At, Fits, Mergers, Changers
  <2> DEFINE t == Task("add", j, "staging")
  <2>2. Fits(t) /\ t.at # "writing" /\ t.kind \notin Patchers
      BY <2>1, NewTask DEF Task, Patchers
  <2>3. \A x \in JDs : x # j => (x \in Live' <=> x \in Live)
      BY <1>6 DEF Quarantine, Live
  <2>4. \A x \in JDs : Keeps(task[r], x) => x = j
      BY DEF Keeps
  <2> DEFINE js == {j}
  <2>5. \A x \in JDs : x \in adrift \union js /\ Outdated(x)' => x \in adrift'
      BY <1>6, Abandons DEF Quarantine
  <2>6. Becomes(r, t) /\ j \in js
      BY <2>1
  <2> HIDE DEF t, j, js
  <2> QED BY <2>1, <2>2, <2>3, <2>4, <2>5, <2>6, OneRowSteady
<1>7. CASE Stage(r)
  <2>1. /\ task[r].at = "staging" /\ profile' = profile /\ adrift' = adrift
        /\ present' = present /\ suppressed' = suppressed /\ Becomes(r, Rest)
      BY <1>7 DEF Stage, At, rows, history, Ends
  <2>2. Live' = Live
      BY <2>1 DEF Live
  <2>3. \A x \in JDs : ~Keeps(task[r], x)
      BY <2>1 DEF Keeps
  <2>4. Rest.at = "idle" /\ Rest.kind = "none" /\ \A x \in JDs : ~Errs(Rest, Live, x)
      BY DEF Rest, Task, Errs
  <2> QED BY <2>1, <2>2, <2>3, <2>4, RestFits, RowsStaySteady DEF Patchers
<1>8. CASE Learned(r)
  <2>1. /\ task[r].at = "deriving" /\ task[r].kind = "learn" /\ profile' = profile
        /\ adrift' = adrift /\ present' = present /\ suppressed' = suppressed
        /\ j \in Patches /\ task[r].kind \in Patchers
      BY <1>0, <1>8 DEF Learned, At, rows, history, Fits, Patchers
  <2>2. Live' = Live
      BY <2>1 DEF Live
  <2>3. \A x \in JDs : ~Keeps(task[r], x)
      BY <2>1 DEF Keeps
  <2>4. CASE Becomes(r, [task[r] EXCEPT !.at = "writing", !.list = @ \union {j}])
    <3> DEFINE t == [task[r] EXCEPT !.at = "writing", !.list = task[r].list \union {j}]
    <3>1. Fits(t) /\ Becomes(r, t)
        BY <1>0, <2>1, <2>4, WritingFits DEF Requested
    <3>2. /\ t.at = "writing" /\ t.kind = "learn" /\ t.item = j /\ t.fresh = task[r].fresh
          /\ t.overtaken = task[r].overtaken /\ t.list = task[r].list \union {j}
        BY <1>0, <2>1 DEF Requested
    <3>3. task[r].fresh /\ ~task[r].overtaken => task[r].list = profile
        BY <2>1 DEF PatchesRead, At
    <3>4. \A x \in JDs : ~Errs(t, Live, x)
        BY <3>2 DEF Errs, Mergers, Changers
    <3> HIDE DEF t
    <3>5. t.fresh /\ ~t.overtaken /\ t.at = "writing" => t.list = profile \union {t.item}
        BY <3>2, <3>3
    <3>6. /\ \A x \in JDs : x \in adrift \union {} /\ Outdated(x)' => x \in adrift'
          /\ \A x \in JDs : Keeps(task[r], x) => Keeps(t, x) \/ x \in {}
        BY <2>1, <2>3
    <3>7. t.at = "writing"
        BY <3>2
    <3> QED BY <2>1, <2>2, <3>1, <3>4, <3>5, <3>6, <3>7, RowsStaySteady
  <2>5. CASE \E place \in {"staging", "logging"} : Becomes(r, Task("learn", j, place))
    <3> PICK place \in {"staging", "logging"} : Becomes(r, Task("learn", j, place))
        BY <2>5
    <3> DEFINE t == Task("learn", j, place)
    <3>1. Fits(t) /\ t.at = place /\ t.kind = "learn"
        BY <2>1, NewTask DEF Task
    <3>2. \A x \in JDs : ~Errs(t, Live, x)
        BY <3>1 DEF Errs
    <3> HIDE DEF t
    <3> QED BY <2>1, <2>2, <2>3, <3>1, <3>2, RowsStaySteady DEF t
  <2>6. CASE Becomes(r, Rest)
    <3>1. Rest.at = "idle" /\ Rest.kind = "none" /\ \A x \in JDs : ~Errs(Rest, Live, x)
        BY DEF Rest, Task, Errs
    <3> QED BY <2>1, <2>2, <2>3, <2>6, <3>1, RestFits, RowsStaySteady DEF Patchers
  <2> QED BY <1>8, <2>4, <2>5, <2>6 DEF Learned, Ends
<1> QED BY <1>1, <1>2, <1>3, <1>4, <1>5, <1>6, <1>7, <1>8

\* A request that ends where nothing else changes.
LEMMA EndsSteady ==
    ASSUME IInv, NEW r \in Requests, Becomes(r, Rest), profile' = profile, Live' = Live, NEW js,
           \A x \in JDs : x \in adrift \union js /\ Outdated(x)' => x \in adrift',
           \A x \in JDs : Keeps(task[r], x) => x \in js
    PROVE  Steady
<1>1. Rest.at = "idle" /\ Rest.kind = "none" /\ \A x \in JDs : ~Errs(Rest, Live, x)
    BY DEF Rest, Task, Errs
<1> QED BY <1>1, RestFits, RowsStaySteady DEF Patchers

\* Whatever is written, every request that was to write something else has lost
\* its version: only the profile itself can be wrong now.
LEMMA WriteSteady ==
    ASSUME IInv, NEW r \in Requests, Write(r)
    PROVE  Steady
<1> USE Types DEF IInv
<1> DEFINE t == task[r]
<1>0. /\ Fits(t) /\ t \in Requested /\ t.at = "writing" /\ t.fresh /\ profile' = t.list
      /\ t.kind \in Mergers \union Patchers
    BY DEF Write, At, Fits
<1>1. /\ task'[r] = Written(t)
      /\ \A q \in Requests \ {r} : task'[q] = Stale(task[q])
    BY DEF Write
<1>2. \A q \in Requests \ {r} :
        /\ ~task'[q].fresh /\ task'[q].kind = task[q].kind
        /\ task'[q].at = task[q].at /\ task'[q].item = task[q].item
  <2> TAKE q \in Requests \ {r}
  <2>1. task[q] \in Requested /\ task'[q] = Stale(task[q])
      BY <1>1
  <2> HIDE Types
  <2> QED BY <2>1 DEF Stale, Requested
<1>3. \/ t.kind \in Changers /\ task'[r] = Rest
      \/ t.kind = "approve" /\ task'[r] = Task("approve", t.item, "lifting")
      \/ t.kind \in Patchers /\ task'[r] = Task(t.kind, t.item, "logging")
    BY <1>0, <1>1 DEF Written, Mergers, Changers, Patchers
<1>4. ~task'[r].fresh
    BY <1>3 DEF Rest, Task
<1>5. PatchesRead' /\ \A q \in Requests, x \in JDs : ~Wrong(q, x)'
    BY <1>2, <1>4 DEF PatchesRead, Wrong
<1>6. Live' = Live
    BY DEF Write, rows, Live
<1>7. \A q \in Requests \ {r}, x \in JDs : Keeps(task'[q], x) <=> Keeps(task[q], x)
    BY <1>2 DEF Keeps
<1>8. ASSUME NEW x \in JDs, Differs(x)', \E q \in Requests \ {r} : Owns(q, x)
      PROVE  \E q \in Requests : Owns(q, x)'
    BY <1>7, <1>8, KeepsAndErrs
<1>9. ASSUME NEW x \in JDs, Differs(x)', x \in adrift
      PROVE  x \in adrift'
    BY <1>9 DEF Write, Abandon, Outdated
<1>10. ASSUME NEW x \in JDs, Differs(x)'
       PROVE  x \in adrift' \/ \E q \in Requests : Owns(q, x)'
  <2>1. (x \in t.list) # (x \in Live)
      BY <1>0, <1>6, <1>10 DEF Differs
  <2>2. CASE t.kind \in Mergers /\ ~(t.kind = "approve" /\ t.item = x)
    <3>1. Wrong(r, x)
        BY <1>0, <2>1, <2>2 DEF Wrong, At
    <3>2. x \in adrift \/ \E q \in Requests \ {r} : Owns(q, x)
        BY <3>1 DEF Owned
    <3> QED BY <1>8, <1>9, <1>10, <3>2
  <2>3. CASE t.kind = "approve" /\ t.item = x
    <3>1. Keeps(task'[r], x)
        BY <1>3, <2>3 DEF Keeps, Task, Changers, Patchers
    <3> QED BY <3>1, KeepsAndErrs
  <2>4. CASE t.kind \in Patchers /\ t.overtaken
    <3>1. Abandon(JDs)
        BY <2>4 DEF Write
    <3> QED BY <1>10, <3>1 DEF Abandon, Outdated
  <2>5. CASE t.kind \in Patchers /\ ~t.overtaken
    <3>1. t.list = profile \union {t.item} /\ t.item \in Patches
        BY <1>0, <2>5 DEF PatchesRead, Fits, At
    <3>2. Differs(x)
        BY <2>1, <3>1 DEF Differs
    <3>3. x \in adrift \/ \E q \in Requests : Owns(q, x)
        BY <3>2 DEF Owned
    <3>4. ~Owns(r, x)
        BY <1>0, <2>5 DEF Owns, At, Changers, Patchers
    <3> QED BY <1>8, <1>9, <1>10, <3>3, <3>4
  <2> QED BY <1>0, <2>2, <2>3, <2>4, <2>5
<1>11. Owned'
    BY <1>5, <1>10 DEF Owned
<1> QED BY <1>5, <1>11 DEF Steady

\* After a derivation has written, nobody answers for what is not as it was
\* merged.
LEMMA RawWriteSteady ==
    ASSUME IInv, NEW r \in Requests, RawWrite(r)
    PROVE  Steady
<1> USE Types DEF IInv
<1>1. \A x \in JDs : Outdated(x)' => x \in adrift'
    BY DEF RawWrite, Abandon
<1>2. Owned'
    BY <1>1 DEF Owned, Outdated
<1>3. /\ task'[r] = Rest
      /\ \A q \in Requests \ {r} : task'[q] = [task[q] EXCEPT !.overtaken = task[q].fresh]
    BY DEF RawWrite
<1>4. \A q \in Requests : task'[q].fresh => task'[q].overtaken
  <2>1. ~task'[r].fresh
      BY <1>3 DEF Rest, Task
  <2>2. ASSUME NEW q \in Requests \ {r}
        PROVE  task'[q].fresh => task'[q].overtaken
    <3>1. task[q] \in Requested /\ task'[q] = [task[q] EXCEPT !.overtaken = task[q].fresh]
        BY <1>3
    <3> HIDE Types
    <3> QED BY <3>1 DEF Requested
  <2> QED BY <2>1, <2>2
<1>5. PatchesRead'
    BY <1>4 DEF PatchesRead
<1> QED BY <1>2, <1>5 DEF Steady

LEMMA LastSteady ==
    ASSUME IInv, NEW r \in Requests,
           Conflict(r) \/ Lift(r) \/ LogApplied(r) \/ Fails(r)
    PROVE  Steady
<1> USE Types DEF IInv
<1> DEFINE j == task[r].item
<1>0. Fits(task[r]) /\ task[r] \in Requested
    OBVIOUS
<1>1. CASE Conflict(r)
  <2>1. /\ task[r].at = "writing" /\ profile' = profile /\ present' = present
        /\ suppressed' = suppressed
      BY <1>1 DEF Conflict, At, rows
  <2>2. Live' = Live
      BY <2>1 DEF Live
  <2>3. CASE /\ task[r].kind \in Changers /\ ~task[r].again
             /\ Becomes(r, [Task(task[r].kind, j, "reading") EXCEPT !.again = TRUE])
    <3> DEFINE t == [Task(task[r].kind, j, "reading") EXCEPT !.again = TRUE]
    <3>1. Fits(Task(task[r].kind, j, "reading"))
        BY <1>0, <2>3, NewTask DEF Fits, Changers, Mergers
    <3>2. Fits(t) /\ Becomes(r, t)
        BY <2>3, <3>1, FitsStill
    <3>3. t.at = "reading" /\ t.kind = task[r].kind /\ t.item = j
        BY DEF Task
    <3>4. /\ \A x \in JDs : Keeps(task[r], x) => Keeps(t, x)
          /\ \A x \in JDs : ~Errs(t, Live, x)
        BY <2>3, <3>3 DEF Keeps, Errs
    <3> DEFINE js == {}
    <3>5. \A x \in JDs : x \in adrift \union js /\ Outdated(x)' => x \in adrift'
        BY <1>1, <2>3, Abandons DEF Conflict
    <3> HIDE DEF t, js
    <3> QED BY <2>1, <2>2, <3>2, <3>3, <3>4, <3>5, RowsStaySteady
  <2>4. CASE Becomes(r, Rest) /\ (task[r].kind \in Changers => task[r].again)
    <3> DEFINE js == IF task[r].kind \in Changers /\ task[r].again THEN {j} ELSE {}
    <3>1. \A x \in JDs : x \in adrift \union js /\ Outdated(x)' => x \in adrift'
      <4>1. Abandon(js)
          BY <1>1 DEF Conflict
      <4> HIDE DEF js
      <4> QED BY <4>1, Abandons
    <3>2. \A x \in JDs : Keeps(task[r], x) => x \in js
        BY <2>1, <2>4 DEF Keeps
    <3> HIDE DEF js
    <3> QED BY <2>1, <2>2, <2>4, <3>1, <3>2, EndsSteady
  <2>5. CASE task[r].kind = "learn" /\ Becomes(r, Task("learn", j, "staging"))
    <3> DEFINE t == Task("learn", j, "staging")
    <3>1. j \in Patches
        BY <1>0, <2>5 DEF Fits, Patchers
    <3>2. Fits(t) /\ Becomes(r, t) /\ t.at = "staging"
        BY <2>5, <3>1, NewTask DEF Task
    <3>3. /\ \A x \in JDs : ~Keeps(task[r], x)
          /\ \A x \in JDs : ~Errs(t, Live, x)
        BY <2>1, <2>5, <3>2 DEF Keeps, Errs, Changers
    <3> DEFINE js == {}
    <3>4. \A x \in JDs : x \in adrift \union js /\ Outdated(x)' => x \in adrift'
        BY <1>1, <2>5, Abandons DEF Conflict, Changers
    <3> HIDE DEF t, js
    <3> QED BY <2>1, <2>2, <3>2, <3>3, <3>4, RowsStaySteady
  <2> QED BY <1>1, <2>3, <2>4, <2>5 DEF Conflict, Ends
<1>2. CASE Lift(r)
  <2> DEFINE t == [task[r] EXCEPT !.at = "logging"]
             js == {j}
  <2>1. task[r].at = "lifting" /\ task[r].kind = "approve" /\ profile' = profile
      BY <1>0, <1>2 DEF Lift, At, Fits
  <2>2. Fits(t) /\ Becomes(r, t)
      BY <1>0, <1>2, <2>1 DEF Fits, Requested, Places, Lift, Goes
  <2>3. t.at = "logging"
      BY <1>0 DEF Requested
  <2>4. \A x \in JDs : x # j => (x \in Live' <=> x \in Live)
      BY <1>2 DEF Lift, Live
  <2>5. \A x \in JDs : Keeps(task[r], x) => x = j
      BY DEF Keeps
  <2>6. /\ \A x \in JDs : x \in adrift \union js /\ Outdated(x)' => x \in adrift'
        /\ j \in js
      BY <1>2, Abandons DEF Lift
  <2> HIDE DEF t, j, js
  <2> QED BY <2>1, <2>2, <2>3, <2>4, <2>5, <2>6, OneRowSteady
<1>3. CASE LogApplied(r)
  <2>1. /\ task[r].at = "logging" /\ profile' = profile /\ adrift' = adrift
        /\ present' = present /\ suppressed' = suppressed /\ Becomes(r, Rest)
      BY <1>3 DEF LogApplied, At, rows, history, Ends
  <2>2. Live' = Live /\ \A x \in JDs : ~Keeps(task[r], x)
      BY <2>1 DEF Live, Keeps
  <2> QED BY <2>1, <2>2, EndsSteady
<1>4. CASE Fails(r)
  <2> DEFINE js == {x \in JDs : Owns(r, x)}
  <2>1. /\ profile' = profile /\ present' = present /\ suppressed' = suppressed
        /\ Becomes(r, Rest) /\ Abandon(js)
      BY <1>4 DEF Fails, rows, Ends
  <2>2. Live' = Live /\ \A x \in JDs : Keeps(task[r], x) => x \in js
      BY <2>1, KeepsAndErrs DEF Live
  <2> HIDE DEF js
  <2>3. \A x \in JDs : x \in adrift \union js /\ Outdated(x)' => x \in adrift'
      BY <2>1, Abandons
  <2> QED BY <2>1, <2>2, <2>3, EndsSteady
<1> QED BY <1>1, <1>2, <1>3, <1>4


-----------------------------------------------------------------------------
(* What the learning log says of the patches.                                *)

\* The log knows of p, or is about to, or never will because its request died.
Known(p) ==
    \/ log[p] = "applied" \/ p \in unlogged
    \/ \E q \in Requests : task[q].item = p /\ At(q, "logging")

\* A request that holds a copy of a profile with p in it.
Carries(t, p) == p \in t.list /\ t.item # p

\* A patch is learned once, by a request that has it to itself; once it was
\* written to the profile, and so to copies of it, the log knows.
Logs ==
    \A p \in Patches :
        /\ log[p] = "unused" => \A q \in Requests : task[q].item # p
        /\ \A q \in Requests : task[q].kind = "learn" /\ task[q].item = p =>
             log[p] = "none" /\ \A o \in Requests \ {q} : task[o].item # p
        /\ p \in profile \/ (\E q \in Requests : Carries(task[q], p)) => Known(p)

\* A request t that goes on as u is about the same patch or about none, and
\* copies nothing but the profile.
Follows(t, u) ==
    /\ u.item \in Patches => u.item = t.item /\ (u.kind = "learn" => t.kind = "learn")
    /\ \A p \in Patches : Carries(u, p) => p \in profile \/ Carries(t, p)

\* The same request, but for the version it expects.
Same(t, u) == u.item = t.item /\ u.kind = t.kind /\ u.at = t.at /\ u.list = t.list

\* Steps that leave the log of the patches.
LEMMA LogsIf ==
    ASSUME Logs, NEW r \in Requests,
           \A p \in Patches : log'[p] = log[p],
           unlogged \subseteq unlogged',
           \A q \in Requests \ {r} : Same(task[q], task'[q]),
           Follows(task[r], task'[r]),
           \A p \in Patches : p \in profile' =>
               \/ p \in profile \/ Carries(task[r], p)
               \/ task'[r].item = p /\ task'[r].at = "logging",
           At(r, "logging") /\ task[r].item \in Patches => task[r].item \in unlogged'
    PROVE  Logs'
<1> SUFFICES ASSUME NEW p \in Patches
             PROVE  /\ log'[p] = "unused" => \A q \in Requests : task'[q].item # p
                    /\ \A q \in Requests : task'[q].kind = "learn" /\ task'[q].item = p =>
                         log'[p] = "none" /\ \A o \in Requests \ {q} : task'[o].item # p
                    /\ p \in profile' \/ (\E q \in Requests : Carries(task'[q], p)) => Known(p)'
    BY DEF Logs, Carries
<1>1. \A q \in Requests : task'[q].item = p =>
          task[q].item = p /\ (task'[q].kind = "learn" => task[q].kind = "learn")
    BY DEF Same, Follows
<1>2. log'[p] = "unused" => \A q \in Requests : task'[q].item # p
    BY <1>1 DEF Logs
<1>3. \A q \in Requests : task'[q].kind = "learn" /\ task'[q].item = p =>
          log'[p] = "none" /\ \A o \in Requests \ {q} : task'[o].item # p
    BY <1>1 DEF Logs
<1>4. Known(p) => Known(p)'
  <2>1. ASSUME NEW q \in Requests, task[q].item = p, At(q, "logging")
        PROVE  Known(p)'
    <3>1. CASE q = r
        BY <2>1, <3>1 DEF Known
    <3>2. CASE q # r
        BY <2>1, <3>2 DEF Known, At, Same
    <3> QED BY <3>1, <3>2
  <2> QED BY <2>1 DEF Known
<1>5. ASSUME p \in profile' \/ \E q \in Requests : Carries(task'[q], p)
      PROVE  Known(p)'
  <2>1. ASSUME NEW q \in Requests, Carries(task'[q], p)
        PROVE  p \in profile \/ \E o \in Requests : Carries(task[o], p)
      BY <2>1 DEF Carries, Same, Follows
  <2>2. CASE p \in profile \/ \E o \in Requests : Carries(task[o], p)
      BY <1>4, <2>2 DEF Logs
  <2>3. CASE task'[r].item = p /\ task'[r].at = "logging"
      BY <2>3 DEF Known, At
  <2> QED BY <1>5, <2>1, <2>2, <2>3
<1> QED BY <1>2, <1>3, <1>5

\* Such a step of one request that leaves the profile alone.
LEMMA OneLogs ==
    ASSUME Shape, Logs, NEW r \in Requests, NEW t, Becomes(r, t), Follows(task[r], t),
           \A p \in Patches : log'[p] = log[p],
           unlogged \subseteq unlogged', profile' = profile,
           At(r, "logging") /\ task[r].item \in Patches => task[r].item \in unlogged'
    PROVE  Logs'
<1>1. task'[r] = t /\ \A q \in Requests \ {r} : task'[q] = task[q]
    BY Types DEF Becomes
<1>2. \A q \in Requests \ {r} : Same(task[q], task'[q])
    BY <1>1 DEF Same
<1> QED BY <1>1, <1>2, LogsIf

\* What ends, or turns to a JD, follows on anything.
LEMMA EmptyFollows ==
    ASSUME NEW t, NEW kind, NEW x, x \notin Patches, NEW place
    PROVE  Follows(t, Task(kind, x, place)) /\ Follows(t, Read(Task(kind, x, place)))
BY DEF Follows, Carries, Task, Read

LEMMA RestFollows == ASSUME NEW t PROVE Follows(t, Rest)
BY EmptyFollows DEF Rest

\* What goes on with an empty copy.
LEMMA PatchFollows ==
    ASSUME NEW t, NEW place, NEW kind, kind = "learn" => t.kind = "learn"
    PROVE  Follows(t, Task(kind, t.item, place))
BY DEF Follows, Carries, Task

LEMMA StartsLogs ==
    ASSUME Shape, Logs, NEW r \in Requests,
           \/ \E j \in JDs : \/ AddStarts(r, j) \/ ContributeStarts(r, j)
                             \/ DeleteStarts(r, j) \/ VoteStarts(r, j)
           \/ DeriveStarts(r)
    PROVE  Logs'
<1> USE Types
<1>1. ASSUME NEW j \in JDs, NEW t, Becomes(r, t), Follows(task[r], t), At(r, "idle"),
             profile' = profile, unlogged' = unlogged,
             log' = log \/ log' = [log EXCEPT ![j] = "none"]
      PROVE  Logs'
    BY <1>1, OneLogs DEF At
<1>2. ASSUME NEW j \in JDs, AddStarts(r, j)
      PROVE  Logs'
    BY <1>2, <1>1, EmptyFollows DEF AddStarts, New, history
<1>3. ASSUME NEW j \in JDs, ContributeStarts(r, j)
      PROVE  Logs'
    BY <1>3, <1>1, EmptyFollows DEF ContributeStarts, Starts, New, history
<1>4. ASSUME NEW j \in JDs, DeleteStarts(r, j)
      PROVE  Logs'
    BY <1>4, <1>1, EmptyFollows DEF DeleteStarts, history
<1>5. ASSUME NEW j \in JDs, VoteStarts(r, j)
      PROVE  Logs'
    BY <1>5, <1>1, EmptyFollows DEF VoteStarts, Starts, history
<1>6. CASE DeriveStarts(r)
    BY <1>6, OneLogs, EmptyFollows DEF DeriveStarts, Starts, history, At
<1> QED BY <1>2, <1>3, <1>4, <1>5, <1>6

(* The patch is new, and the learner the only one who is about it.           *)
LEMMA LearnLogs ==
    ASSUME Shape, Logs, NEW r \in Requests, NEW x \in Patches, LearnStarts(r, x)
    PROVE  Logs'
<1> USE Types
<1> DEFINE t == Read([Task("learn", x, "deriving") EXCEPT !.list = profile])
<1>1. /\ task'[r] = t /\ \A q \in Requests \ {r} : task'[q] = task[q]
      /\ log[x] = "unused" /\ log' = [log EXCEPT ![x] = "none"]
      /\ profile' = profile /\ unlogged' = unlogged /\ task[r].at = "idle"
    BY DEF LearnStarts, New, Becomes, history, At
<1>2. t.item = x /\ t.kind = "learn" /\ t.at = "deriving" /\ t.list = profile
    BY DEF Read, Task
<1> HIDE DEF t
<1>3. \A q \in Requests : task[q].item # x
    BY <1>1 DEF Logs
<1> SUFFICES ASSUME NEW p \in Patches
             PROVE  /\ log'[p] = "unused" => \A q \in Requests : task'[q].item # p
                    /\ \A q \in Requests : task'[q].kind = "learn" /\ task'[q].item = p =>
                         log'[p] = "none" /\ \A o \in Requests \ {q} : task'[o].item # p
                    /\ p \in profile' \/ (\E q \in Requests : Carries(task'[q], p)) => Known(p)'
    BY DEF Logs, Carries
<1>4. log'[p] = "unused" => \A q \in Requests : task'[q].item # p
    BY <1>1, <1>2 DEF Logs
<1>5. \A q \in Requests : task'[q].kind = "learn" /\ task'[q].item = p =>
          log'[p] = "none" /\ \A o \in Requests \ {q} : task'[o].item # p
    BY <1>1, <1>2, <1>3 DEF Logs
<1>6. ASSUME p \in profile' \/ \E q \in Requests : Carries(task'[q], p)
      PROVE  Known(p)'
  <2>1. p \in profile \/ \E q \in Requests : Carries(task[q], p)
      BY <1>1, <1>2, <1>6 DEF Carries
  <2>2. Known(p)
      BY <2>1 DEF Logs
  <2>3. log[p] = "applied" => log'[p] = "applied"
      BY <1>1
  <2>4. ASSUME NEW q \in Requests, task[q].item = p, At(q, "logging")
        PROVE  Known(p)'
      BY <2>4, <1>1 DEF Known, At
  <2> QED BY <1>1, <2>2, <2>3, <2>4 DEF Known
<1> QED BY <1>4, <1>5, <1>6

(* What is staged has no learner any more.                                   *)
LEMMA ApplyLogs ==
    ASSUME Shape, Logs, NEW r \in Requests, NEW x \in Items, ApplyStarts(r, x)
    PROVE  Logs'
<1> USE Types
<1> DEFINE t == Task(IF x \in JDs THEN "approve" ELSE "adopt", x, "reading")
<1>1. /\ task'[r] = t /\ \A q \in Requests \ {r} : task'[q] = task[q]
      /\ log[x] = "staged" /\ log' = log
      /\ profile' = profile /\ unlogged' = unlogged /\ task[r].at = "idle"
    BY DEF ApplyStarts, Starts, Becomes, history, At
<1>2. t.item = x /\ t.kind # "learn" /\ t.list = {}
    BY DEF Task
<1> HIDE DEF t
<1> SUFFICES ASSUME NEW p \in Patches
             PROVE  /\ log'[p] = "unused" => \A q \in Requests : task'[q].item # p
                    /\ \A q \in Requests : task'[q].kind = "learn" /\ task'[q].item = p =>
                         log'[p] = "none" /\ \A o \in Requests \ {q} : task'[o].item # p
                    /\ p \in profile' \/ (\E q \in Requests : Carries(task'[q], p)) => Known(p)'
    BY DEF Logs, Carries
<1>3. log'[p] = "unused" => \A q \in Requests : task'[q].item # p
    BY <1>1, <1>2 DEF Logs
<1>4. \A q \in Requests : task'[q].kind = "learn" /\ task'[q].item = p =>
          log'[p] = "none" /\ \A o \in Requests \ {q} : task'[o].item # p
    BY <1>1, <1>2 DEF Logs
<1>5. ASSUME p \in profile' \/ \E q \in Requests : Carries(task'[q], p)
      PROVE  Known(p)'
  <2>1. p \in profile \/ \E q \in Requests : Carries(task[q], p)
      BY <1>1, <1>2, <1>5 DEF Carries
  <2>2. Known(p)
      BY <2>1 DEF Logs
  <2>3. ASSUME NEW q \in Requests, task[q].item = p, At(q, "logging")
        PROVE  Known(p)'
      BY <2>3, <1>1 DEF Known, At
  <2> QED BY <1>1, <2>2, <2>3 DEF Known
<1> QED BY <1>3, <1>4, <1>5

(* A request that ends with a row of the log: staged by the one learner of   *)
(* its patch, or by a JD's, or applied by anybody.                           *)
LEMMA RowLogs ==
    ASSUME Shape, Logs, NEW r \in Requests, NEW status,
           \/ At(r, "staging") /\ status = "staged"
           \/ At(r, "logging") /\ status = "applied",
           log' = [log EXCEPT ![task[r].item] = status],
           Ends(r), profile' = profile, unlogged' = unlogged
    PROVE  Logs'
<1> USE Types
<1> DEFINE x == task[r].item
<1>1. /\ task'[r] = Rest /\ \A q \in Requests \ {r} : task'[q] = task[q]
      /\ Rest.item = None /\ Rest.kind = "none" /\ Rest.list = {}
    BY DEF Ends, Becomes, Rest, Task
<1>2. x \in Items /\ (At(r, "staging") /\ x \in Patches => task[r].kind = "learn")
    BY DEF Fits, At, Mergers, Changers, Patchers
<1>3. \A y \in Items : log'[y] = IF y = x THEN status ELSE log[y]
    OBVIOUS
<1> HIDE DEF x
<1> SUFFICES ASSUME NEW p \in Patches
             PROVE  /\ log'[p] = "unused" => \A q \in Requests : task'[q].item # p
                    /\ \A q \in Requests : task'[q].kind = "learn" /\ task'[q].item = p =>
                         log'[p] = "none" /\ \A o \in Requests \ {q} : task'[o].item # p
                    /\ p \in profile' \/ (\E q \in Requests : Carries(task'[q], p)) => Known(p)'
    BY DEF Logs, Carries
<1>4. log'[p] = "unused" => \A q \in Requests : task'[q].item # p
    BY <1>1, <1>3 DEF Logs
<1>5. ASSUME NEW q \in Requests, task'[q].kind = "learn", task'[q].item = p
      PROVE  log'[p] = "none" /\ \A o \in Requests \ {q} : task'[o].item # p
  <2>1. q # r /\ task[q].kind = "learn" /\ task[q].item = p
      BY <1>1, <1>5
  <2>2. log[p] = "none" /\ \A o \in Requests \ {q} : task[o].item # p
      BY <2>1 DEF Logs
  <2>3. x # p
      BY <2>1, <2>2 DEF x
  <2> QED BY <1>1, <1>3, <2>2, <2>3
<1>6. ASSUME p \in profile' \/ \E q \in Requests : Carries(task'[q], p)
      PROVE  Known(p)'
  <2>1. p \in profile \/ \E q \in Requests : Carries(task[q], p)
      BY <1>1, <1>6 DEF Carries
  <2>2. Known(p)
      BY <2>1 DEF Logs
  <2>3. CASE p = x /\ status = "applied"
      BY <1>3, <2>3 DEF Known
  <2>4. CASE p = x /\ At(r, "staging")
    <3>1. log[p] = "none" /\ \A o \in Requests \ {r} : task[o].item # p
        BY <1>2, <2>4 DEF Logs, x
    <3>2. p \in unlogged
        BY <2>2, <2>4, <3>1 DEF Known, At
    <3> QED BY <3>2 DEF Known
  <2>5. CASE p # x
    <3>1. ASSUME NEW q \in Requests, task[q].item = p, At(q, "logging")
          PROVE  Known(p)'
        BY <1>1, <2>5, <3>1 DEF Known, At, x
    <3> QED BY <1>3, <2>2, <2>5, <3>1 DEF Known
  <2> QED BY <2>3, <2>4, <2>5
<1> QED BY <1>4, <1>5, <1>6

LEMMA StepsLogs ==
    ASSUME Shape, Logs, NEW r \in Requests,
           \/ Insert(r) \/ Remove(r) \/ Count(r) \/ ReadTarget(r) \/ List(r)
           \/ Quarantine(r) \/ Stage(r) \/ Learned(r)
    PROVE  Logs'
<1> USE Types
<1> DEFINE t == task[r]
<1>0. Fits(t) /\ t \in Requested
    OBVIOUS
<1>1. ASSUME NEW u, Becomes(r, u), Follows(t, u), t.at # "logging",
             profile' = profile, log' = log, unlogged' = unlogged
      PROVE  Logs'
    BY <1>1, OneLogs DEF At
<1>2. CASE Insert(r)
  <2>1. ASSUME NEW place \in Places
        PROVE  Follows(t, [t EXCEPT !.at = place])
      BY <1>0 DEF Follows, Carries, Requested
  <2> QED BY <1>1, <1>2, <2>1 DEF Insert, Goes, history, At, Places
<1>3. CASE Remove(r)
  <2>1. Follows(t, [t EXCEPT !.kind = "merge", !.at = "listing"])
      BY <1>0 DEF Follows, Carries, Requested
  <2>2. t.at # "logging" /\ profile' = profile /\ log' = log /\ unlogged' = unlogged
      BY <1>3 DEF Remove, At
  <2> QED BY <1>1, <1>3, <2>1, <2>2, RestFollows DEF Remove, Ends
<1>4. CASE Count(r)
  <2>1. t.item \notin Patches
      BY <1>0, <1>4 DEF Count, At, Fits, Mergers
  <2>2. Follows(t, Task("merge", t.item, "reading"))
      BY <2>1, EmptyFollows
  <2> QED BY <1>1, <1>4, <2>2, RestFollows DEF Count, Ends, At
<1>5. CASE ReadTarget(r)
  <2>1. Follows(t, Read([t EXCEPT !.at = "listing"]))
      BY <1>0 DEF Follows, Carries, Read, Requested
  <2>2. Follows(t, Read([t EXCEPT !.at = "writing", !.list = profile \union {t.item}]))
      BY <1>0 DEF Follows, Carries, Read, Requested
  <2> QED BY <1>1, <1>5, <2>1, <2>2 DEF ReadTarget, history, At
<1>6. CASE List(r)
  <2> DEFINE merging(xs) == [t EXCEPT !.at = "writing", !.list = xs]
  <2>1. ASSUME NEW xs \in SUBSET JDs
        PROVE  Follows(t, merging(xs))
      BY <1>0 DEF Follows, Carries, Requested
  <2>2. Live \in SUBSET JDs /\ (t.item \in present => Live \union {t.item} \in SUBSET JDs)
      BY DEF Live
  <2>3. \/ Becomes(r, merging(Live))
        \/ t.item \in present /\ Becomes(r, merging(Live \union {t.item}))
        \/ Becomes(r, Rest)
      BY <1>6 DEF List, Ends
  <2>4. t.at # "logging" /\ profile' = profile /\ log' = log /\ unlogged' = unlogged
      BY <1>6 DEF List, history, At
  <2> HIDE DEF merging
  <2>5. ASSUME NEW xs \in SUBSET JDs, Becomes(r, merging(xs))
        PROVE  Logs'
      BY <1>1, <2>1, <2>4, <2>5
  <2>6. CASE Becomes(r, Rest)
      BY <1>1, <2>4, <2>6, RestFollows
  <2> QED BY <2>2, <2>3, <2>5, <2>6
<1>7. CASE Quarantine(r)
  <2>1. t.item \notin Patches
      BY <1>0, <1>7 DEF Quarantine, Fits, Mergers, Changers
  <2> QED BY <1>1, <1>7, <2>1, EmptyFollows DEF Quarantine, At
<1>8. CASE Stage(r)
    BY <1>8, RowLogs DEF Stage, history
<1>9. CASE Learned(r)
  <2>1. Follows(t, [t EXCEPT !.at = "writing", !.list = @ \union {t.item}])
      BY <1>0 DEF Follows, Carries, Requested
  <2>2. \A place : Follows(t, Task("learn", t.item, place))
      BY <1>9, PatchFollows DEF Learned
  <2>3. \E u : Becomes(r, u) /\ Follows(t, u)
      BY <1>9, <2>1, <2>2, RestFollows DEF Learned, Ends
  <2> QED BY <1>1, <1>9, <2>3 DEF Learned, history, At
<1> QED BY <1>2, <1>3, <1>4, <1>5, <1>6, <1>7, <1>8, <1>9

(* A write brings a patch in with its request on the way to log it.          *)
LEMMA WriteLogs ==
    ASSUME Shape, Logs, NEW r \in Requests, Write(r)
    PROVE  Logs'
<1> USE Types
<1> DEFINE t == task[r]
<1>0. Fits(t) /\ t \in Requested /\ t.at = "writing"
    BY DEF Write, At
<1>1. /\ task'[r] = Written(t) /\ \A q \in Requests \ {r} : task'[q] = Stale(task[q])
      /\ profile' = t.list /\ log' = log /\ unlogged' = unlogged
    BY DEF Write
<1>2. \A q \in Requests \ {r} : Same(task[q], task'[q])
  <2>1. ASSUME NEW u \in Requested
        PROVE  Same(u, Stale(u))
      BY <2>1 DEF Same, Stale, Requested
  <2> QED BY <1>1, <2>1
<1>3. CASE t.kind \in Patchers
  <2>1. Written(t) = Task(t.kind, t.item, "logging")
      BY <1>3 DEF Written, Patchers, Changers
  <2>2. Follows(t, task'[r])
    <3>1. t.kind = "learn" => t.kind = "learn"
        OBVIOUS
    <3>2. Follows(t, Task(t.kind, t.item, "logging"))
        BY <3>1, PatchFollows
    <3> QED BY <1>1, <2>1, <3>2
  <2>3. task'[r].item = t.item /\ task'[r].at = "logging"
      BY <1>1, <2>1 DEF Task
  <2>4. \A p \in Patches : p \in profile' => Carries(t, p) \/ task'[r].item = p
      BY <1>1, <2>3 DEF Carries
  <2> QED BY <1>0, <1>1, <1>2, <2>2, <2>3, <2>4, LogsIf DEF At
<1>4. CASE t.kind \in Mergers
  <2>1. t.item \notin Patches
      BY <1>0, <1>4 DEF Fits
  <2>2. Written(t) = Rest \/ Written(t) = Task("approve", t.item, "lifting")
      BY <1>4 DEF Written, Mergers, Changers, Patchers
  <2>3. Follows(t, task'[r])
      BY <1>1, <2>1, <2>2, EmptyFollows, RestFollows
  <2>4. \A p \in Patches : p \in profile' => Carries(t, p)
      BY <1>1, <2>1 DEF Carries
  <2> QED BY <1>0, <1>1, <1>2, <2>3, <2>4, LogsIf DEF At
<1> QED BY <1>0, <1>3, <1>4 DEF Fits

LEMMA RawWriteLogs ==
    ASSUME Shape, Logs, NEW r \in Requests, RawWrite(r)
    PROVE  Logs'
<1> USE Types
<1>0. Fits(task[r]) /\ task[r].at = "raw"
    BY DEF RawWrite, At
<1>1. /\ task'[r] = Rest
      /\ \A q \in Requests \ {r} : task'[q] = [task[q] EXCEPT !.overtaken = task[q].fresh]
      /\ log' = log /\ unlogged' = unlogged
    BY DEF RawWrite
<1>2. \A q \in Requests \ {r} : Same(task[q], task'[q])
  <2> SUFFICES ASSUME NEW q \in Requests \ {r}
               PROVE  Same(task[q], task'[q])
      OBVIOUS
  <2>1. task[q] \in Requested /\ task'[q] = [task[q] EXCEPT !.overtaken = task[q].fresh]
      BY <1>1
  <2> QED BY <2>1 DEF Same, Requested
<1>3. \A p \in Patches : p \notin profile'
  <2>1. task[r].kind = "seed" => task[r].item \in JDs
      BY <1>0 DEF Fits
  <2> QED BY <2>1 DEF RawWrite
<1> QED BY <1>0, <1>1, <1>2, <1>3, RestFollows, LogsIf DEF At

LEMMA LastLogs ==
    ASSUME Shape, Logs, NEW r \in Requests,
           Conflict(r) \/ Lift(r) \/ LogApplied(r) \/ Fails(r)
    PROVE  Logs'
<1> USE Types
<1> DEFINE t == task[r]
<1>0. Fits(t) /\ t \in Requested
    OBVIOUS
<1>1. CASE Conflict(r)
  <2>1. ASSUME t.kind \in Changers
        PROVE  Follows(t, [Task(t.kind, t.item, "reading") EXCEPT !.again = TRUE])
      BY <2>1 DEF Follows, Carries, Task, Changers
  <2>2. t.kind = "learn" => Follows(t, Task("learn", t.item, "staging"))
      BY PatchFollows
  <2>3. \E u : Becomes(r, u) /\ Follows(t, u)
      BY <1>1, <2>1, <2>2, RestFollows DEF Conflict, Ends
  <2> QED BY <1>1, <2>3, OneLogs DEF Conflict, At
<1>2. CASE Lift(r)
  <2>1. Follows(t, [t EXCEPT !.at = "logging"])
      BY <1>0 DEF Follows, Carries, Requested
  <2> QED BY <1>2, <2>1, OneLogs DEF Lift, Goes, At
<1>3. CASE LogApplied(r)
    BY <1>3, RowLogs DEF LogApplied, history
<1>4. CASE Fails(r)
    BY <1>4, OneLogs, RestFollows DEF Fails, Ends, At
<1> QED BY <1>1, <1>2, <1>3, <1>4

LEMMA NextLogs == Shape /\ Logs /\ [Next]_vars => Logs'
<1> SUFFICES ASSUME Shape, Logs, [Next]_vars PROVE Logs'
    OBVIOUS
<1>1. ASSUME NEW x \in Items, Reject(x)
      PROVE  Logs'
  <2>1. /\ task' = task /\ profile' = profile /\ unlogged' = unlogged
        /\ log[x] = "staged" /\ \A y \in Items : log'[y] = IF y = x THEN "rejected" ELSE log[y]
      BY <1>1, Types DEF Reject, history
  <2>2. \A p \in Patches : Known(p) => Known(p)'
      BY <2>1 DEF Known, At
  <2> QED BY <2>1, <2>2 DEF Logs, Carries
<1>2. CASE UNCHANGED vars
  <2>1. UNCHANGED <<task, profile, unlogged, log>>
      BY <1>2 DEF vars, history
  <2> QED BY <2>1 DEF Logs, Carries, Known, At
<1> QED BY <1>1, <1>2, StartsLogs, LearnLogs, ApplyLogs, StepsLogs, WriteLogs,
           RawWriteLogs, LastLogs DEF Next

-----------------------------------------------------------------------------
(* The specification.                                                        *)

LEMMA InitIInv == Init => IInv
<1> SUFFICES ASSUME Init PROVE IInv
    OBVIOUS
<1>1. PICK mix \in Mixes :
        \/ /\ task = [r \in Requests |-> Rest]
           /\ log = [x \in Items |-> IF x \in mix THEN "unused" ELSE "none"]
        \/ \E q \in Requests, j \in mix \intersect JDs :
             /\ task = [r \in Requests |-> IF r = q THEN Task("seed", j, "deriving") ELSE Rest]
             /\ log = [x \in Items |-> IF x \in mix \ {j} THEN "unused" ELSE "none"]
    BY DEF Init
<1>2. \A r \in Requests :
        \/ task[r] = Rest
        \/ \E j \in JDs : task[r] = Task("seed", j, "deriving")
    BY <1>1
<1>3. \A r \in Requests : Fits(task[r])
    BY <1>2, NewTask, RestFits
<1>4. task \in [Requests -> Requested]
    BY <1>1, <1>3 DEF Fits
<1>5. log \in [Items -> {"unused", "none", "staged", "applied", "rejected"}]
    BY <1>1
<1>6. TypeOK
    BY <1>4, <1>5 DEF Init, TypeOK, Requested
<1>7. \A r \in Requests : ~task[r].fresh
  <2>1. ~Rest.fresh /\ \A j \in JDs : ~Task("seed", j, "deriving").fresh
      BY DEF Rest, Task
  <2> QED BY <1>2, <2>1
<1>8. PatchesRead
    BY <1>7 DEF PatchesRead
<1>9. \A x \in JDs : ~Differs(x) /\ \A q \in Requests : ~Wrong(q, x)
    BY <1>7 DEF Init, Differs, Live, Wrong
<1> QED BY <1>3, <1>6, <1>8, <1>9 DEF IInv, Shape, Owned

LEMMA NextIInv == IInv /\ [Next]_vars => IInv'
<1> SUFFICES ASSUME IInv, [Next]_vars PROVE IInv'
    OBVIOUS
<1>1. Shape'
    BY NextShape DEF IInv
<1>2. ASSUME NEW r \in Requests,
             \/ \E j \in JDs : \/ AddStarts(r, j) \/ ContributeStarts(r, j)
                               \/ DeleteStarts(r, j) \/ VoteStarts(r, j)
             \/ \E p \in Patches : LearnStarts(r, p)
             \/ \E x \in Items : ApplyStarts(r, x)
             \/ DeriveStarts(r)
      PROVE  Steady
    BY <1>2, StartsSteady
<1>3. ASSUME NEW r \in Requests,
             \/ Insert(r) \/ Remove(r) \/ Count(r) \/ ReadTarget(r) \/ List(r)
             \/ Quarantine(r) \/ Stage(r) \/ Learned(r)
      PROVE  Steady
    BY <1>3, StepsSteady
<1>4. ASSUME NEW r \in Requests, Write(r)
      PROVE  Steady
    BY <1>4, WriteSteady
<1>5. ASSUME NEW r \in Requests, RawWrite(r)
      PROVE  Steady
    BY <1>5, RawWriteSteady
<1>6. ASSUME NEW r \in Requests, Conflict(r) \/ Lift(r) \/ LogApplied(r) \/ Fails(r)
      PROVE  Steady
    BY <1>6, LastSteady
<1>7. ASSUME (\E x \in Items : Reject(x)) \/ UNCHANGED vars
      PROVE  Steady
  <2>1. UNCHANGED <<profile, rows, task, adrift>>
      BY <1>7 DEF Reject, vars, history
  <2>2. PatchesRead'
      BY <2>1 DEF IInv, PatchesRead, At
  <2>3. \A x \in JDs : Differs(x)' = Differs(x)
      BY <2>1 DEF Differs, Live, rows
  <2>4. \A x \in JDs, q \in Requests : Owns(q, x)' = Owns(q, x) /\ Wrong(q, x)' = Wrong(q, x)
      BY <2>1 DEF Owns, Wrong, At, Live, rows
  <2>5. Owned'
      BY <2>1, <2>3, <2>4 DEF IInv, Owned
  <2> QED BY <2>2, <2>5 DEF Steady
<1>8. Steady
    BY <1>2, <1>3, <1>4, <1>5, <1>6, <1>7 DEF Next
<1> QED BY <1>1, <1>8 DEF IInv, Steady

LEMMA Invariance == Spec => []IInv
BY InitIInv, NextIInv, PTL DEF Spec

LEMMA InitLogs == Init => Logs
<1> SUFFICES ASSUME Init, NEW p \in Patches
             PROVE  /\ \A q \in Requests : task[q].item # p /\ ~Carries(task[q], p)
                    /\ p \notin profile
    BY DEF Logs
<1>1. \A q \in Requests :
        \/ task[q] = Rest
        \/ \E j \in JDs : task[q] = Task("seed", j, "deriving")
    BY DEF Init
<1>2. /\ Rest.item # p /\ Rest.list = {}
      /\ \A j \in JDs : Task("seed", j, "deriving").item # p
                      /\ Task("seed", j, "deriving").list = {}
    BY DEF Rest, Task
<1> QED BY <1>1, <1>2 DEF Init, Carries

LEMMA LogInvariance == Spec => []Logs
<1>1. IInv /\ Logs /\ [Next]_vars => Logs'
    BY NextLogs DEF IInv
<1> QED BY <1>1, InitLogs, Invariance, PTL DEF Spec

\* Every variable stays in its type, and every request where one of its kind
\* can be, whatever requests add, merge, learn, derive and vote at once.
THEOREM ProfileTypes == Spec => []TypeOK
<1>1. IInv => TypeOK
    BY DEF IInv, Shape
<1> QED BY <1>1, Invariance, PTL

\* The promise of the version check and of the second attempt: where the
\* profile of a target disagrees with its reference JDs, a request is under way
\* that merges them, or the history says why nobody does.
THEOREM MergesOwned == Spec => []MergesAreOwned
<1>1. IInv => MergesAreOwned
    BY DEF IInv, Owned, MergesAreOwned
<1> QED BY <1>1, Invariance, PTL

\* apply_learning_merge: a patch computed from a profile of an older version is
\* not written, so a patch that is only adds to what is there.  The exception,
\* which the theorem leaves out, is a patch that a derivation has overtaken: it
\* wrote the profile and left the version, so the patch is written and erases
\* what it wrote.
THEOREM PatchesAddOnly == Spec => PatchesKeepTheRest
<1>1. IInv /\ [Next]_vars =>
        [\A r \in Requests : Write(r) /\ task[r].kind \in Patchers /\ ~task[r].overtaken =>
            profile' = profile \union {task[r].item}]_vars
    BY DEF IInv, PatchesRead, Write
<1> QED BY <1>1, Invariance, PTL DEF Spec, PatchesKeepTheRest

\* Of two reviewers, one who rejects a staged patch and one who applies it, the
\* log in the end believes the profile: a patch that it calls rejected is not
\* there, unless the request that wrote it died before it could say so.
THEOREM RejectedPatchesStayOut == Spec => []RejectedStaysOut
<1>1. Logs => RejectedStaysOut
    BY DEF Logs, Known, RejectedStaysOut
<1> QED BY <1>1, LogInvariance, PTL
=============================================================================
