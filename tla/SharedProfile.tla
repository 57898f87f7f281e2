---------------------------- MODULE SharedProfile ----------------------------
(* The scoring profile that all followers of a target share: reference JDs   *)
(* are merged into it, learned patches are applied to it, votes suppress a   *)
(* JD, a contribution that would move too much is quarantined for review,    *)
(* and a derivation writes it outright.  Merges and patches go through       *)
(* database functions that refuse a write made from an older version;        *)
(* derivations do not.  One target; an action is one database call, or one   *)
(* answer of the LLM.  A profile is the set of what went into it.            *)
EXTENDS Naturals, FiniteSets

CONSTANTS
    Requests,       \* the handlers and detached tasks under way at once
    JDs,            \* reference JDs
    Patches,        \* learned patches
    Label,          \* the profile derived from the label alone
    Voters,
    Ballots,        \* the votes they cast: "down", "up", and "none" to take it back
    Quorum,         \* contribution_downvote_quorum
    Mixes,          \* the sets of items that come up together
    None            \* what a request that is not under way is about

Items == JDs \union Patches

ASSUME ProfileAssumption ==
    /\ IsFiniteSet(Voters) /\ Quorum \in Nat \ {0}
    /\ Ballots \subseteq {"down", "up", "none"}
    /\ JDs \intersect Patches = {}
    /\ Label \notin Items /\ None \notin Items

VARIABLES
    profile,        \* scoring_profile
    present,        \* the rows of reference_jds
    suppressed,     \* those with the flag set
    down, up,       \* who voted which way on each row
    log,            \* the status of the learning-log row of each item
    task,           \* the requests
    adrift,         \* history: JDs whose last change no request will merge
    unlogged        \* history: patches whose request died before it logged them

rows == <<present, suppressed>>
votes == <<down, up>>
history == <<adrift, unlogged>>
vars == <<profile, rows, votes, log, task, history>>

\* A merge after a JD was contributed, deleted or voted on goes the same way;
\* after one was added it may end in quarantine.
Changers == {"add", "merge"}
Mergers == Changers \union {"approve"}
Patchers == {"learn", "adopt"}
Kinds == Mergers \union Patchers \union {"delete", "vote", "seed", "derive", "none"}
Places == {"idle", "deriving", "deleting", "tallying", "reading", "listing",
           "writing", "staging", "raw", "lifting", "logging"}

\* What takes part in a merge.
Live == present \ suppressed

\* A request: fresh while the version it expects is that of the row, overtaken
\* when a derivation has written since it read the row, again on its second
\* attempt; list is the profile it is going to write.
Task(kind, x, place) ==
    [kind |-> kind, item |-> x, at |-> place, list |-> {},
     fresh |-> FALSE, overtaken |-> FALSE, again |-> FALSE]
Rest == Task("none", None, "idle")

\* A request may start with the creation of the target: it will seed it.
Init ==
    /\ profile = {} /\ present = {} /\ suppressed = {}
    /\ down = [j \in JDs |-> {}] /\ up = [j \in JDs |-> {}]
    /\ \E mix \in Mixes :
         \/ /\ task = [r \in Requests |-> Rest]
            /\ log = [x \in Items |-> IF x \in mix THEN "unused" ELSE "none"]
         \/ \E q \in Requests, j \in mix \intersect JDs :
              /\ task = [r \in Requests |-> IF r = q THEN Task("seed", j, "deriving") ELSE Rest]
              /\ log = [x \in Items |-> IF x \in mix \ {j} THEN "unused" ELSE "none"]
    /\ adrift = {} /\ unlogged = {}

At(r, place) == task[r].at = place
Becomes(r, t) == task' = [task EXCEPT ![r] = t]
Goes(r, place) == Becomes(r, [task[r] EXCEPT !.at = place])
Ends(r) == Becomes(r, Rest)

\* q has changed the row of x, or the profile ahead of it, and is to bring the
\* two together.
Owns(q, x) ==
    /\ task[q].item = x
    /\ \/ task[q].kind \in Changers /\ task[q].at \in {"reading", "listing", "writing"}
       \/ task[q].kind = "seed" /\ At(q, "raw")
       \/ At(q, "lifting")

\* The profile has it wrong about x, or q is about to write one that has.
Differs(x) == (x \in profile) # (x \in Live)
Wrong(q, x) ==
    /\ task[q].kind \in Mergers /\ At(q, "writing") /\ task[q].fresh
    /\ (x \in task[q].list) # (x \in Live)
    /\ ~(task[q].kind = "approve" /\ task[q].item = x)
Outdated(x) == Differs(x) \/ \E q \in Requests : Wrong(q, x)

\* From here on nobody sees to it that one of js is merged.
Abandon(js) == adrift' = {x \in adrift \union js : Outdated(x)'}

-----------------------------------------------------------------------------

Starts(r, kind, x, place) == At(r, "idle") /\ Becomes(r, Task(kind, x, place))

\* A task that has just read the row.
Read(t) == [t EXCEPT !.fresh = TRUE, !.overtaken = FALSE]

\* An item that no request has been about.
New(x) == log[x] = "unused" /\ log' = [log EXCEPT ![x] = "none"]

(* POST reference-jds reads the target, and its version, before the LLM      *)
(* derives the profile of the JD.                                            *)
AddStarts(r, j) ==
    /\ At(r, "idle")
    /\ Becomes(r, Read(Task("add", j, "deriving")))
    /\ New(j)
    /\ UNCHANGED <<profile, rows, votes, history>>

(* The flow from a URL has derived its JD and inserts the row.               *)
ContributeStarts(r, j) ==
    /\ Starts(r, "merge", j, "reading")
    /\ New(j)
    /\ present' = present \union {j}
    /\ UNCHANGED <<profile, suppressed, votes, history>>

DeleteStarts(r, j) ==
    /\ j \in present
    /\ At(r, "idle")
    /\ Becomes(r, Read(Task("delete", j, "deleting")))
    /\ UNCHANGED <<profile, rows, votes, log, history>>

(* Somebody votes a row down, up, or takes the vote back.                    *)
VoteStarts(r, j) ==
    /\ j \in present
    /\ Starts(r, "vote", j, "tallying")
    /\ \E u \in Voters, value \in Ballots :
         /\ down' = [down EXCEPT ![j] = IF value = "down" THEN @ \union {u} ELSE @ \ {u}]
         /\ up' = [up EXCEPT ![j] = IF value = "up" THEN @ \union {u} ELSE @ \ {u}]
    /\ UNCHANGED <<profile, rows, log, history>>

(* A learner reads the target and works on that copy of its profile.         *)
LearnStarts(r, p) ==
    /\ At(r, "idle")
    /\ Becomes(r, Read([Task("learn", p, "deriving") EXCEPT !.list = profile]))
    /\ New(p)
    /\ UNCHANGED <<profile, rows, votes, history>>

(* POST learn/{run_id}/apply finds a staged patch or merge.                  *)
ApplyStarts(r, x) ==
    /\ log[x] = "staged"
    /\ Starts(r, IF x \in JDs THEN "approve" ELSE "adopt", x, "reading")
    /\ UNCHANGED <<profile, rows, votes, log, history>>

(* A derivation from the label, for a target whose profile has no category.  *)
DeriveStarts(r) ==
    /\ profile \subseteq Patches
    /\ Starts(r, "derive", None, "raw")
    /\ UNCHANGED <<profile, rows, votes, log, history>>

(* The JD is derived and its row inserted, with the flag off.                *)
Insert(r) ==
    /\ At(r, "deriving") /\ task[r].kind \in {"add", "seed"}
    /\ present' = present \union {task[r].item}
    /\ Goes(r, IF task[r].kind = "add" THEN "listing" ELSE "raw")
    /\ UNCHANGED <<profile, suppressed, votes, log, history>>

(* The row goes, and its votes with it; it may be gone already.              *)
Remove(r) ==
    LET j == task[r].item IN
    /\ At(r, "deleting")
    /\ present' = present \ {j}
    /\ suppressed' = suppressed \ {j}
    /\ down' = [down EXCEPT ![j] = {}]
    /\ up' = [up EXCEPT ![j] = {}]
    /\ \/ j \in present /\ Becomes(r, [task[r] EXCEPT !.kind = "merge", !.at = "listing"])
       \/ j \notin present /\ Ends(r)
    /\ UNCHANGED <<profile, log, unlogged>>
    /\ Abandon({})

\* Down-votes less up-votes reach the quorum.
VotedOut(j) == Cardinality(down[j]) >= Quorum + Cardinality(up[j])

(* The votes are counted and the flag set to the outcome, under a lock on    *)
(* the row; if it changed, the profile is merged anew.                       *)
Count(r) ==
    LET j == task[r].item
        flips == j \in present /\ VotedOut(j) # (j \in suppressed) IN
    /\ At(r, "tallying")
    /\ \/ /\ flips
          /\ suppressed' = IF VotedOut(j) THEN suppressed \union {j} ELSE suppressed \ {j}
          /\ Becomes(r, Task("merge", j, "reading"))
       \/ /\ ~flips
          /\ Ends(r)
          /\ UNCHANGED suppressed
    /\ UNCHANGED <<profile, present, votes, log, unlogged>>
    /\ Abandon({})

(* The target is read: its version, and for a patch its profile.             *)
ReadTarget(r) ==
    /\ At(r, "reading")
    /\ \/ /\ task[r].kind \in Mergers
          /\ Becomes(r, Read([task[r] EXCEPT !.at = "listing"]))
       \/ /\ task[r].kind = "adopt"
          /\ Becomes(r, Read([task[r] EXCEPT !.at = "writing",
                                             !.list = profile \union {task[r].item}]))
    /\ UNCHANGED <<profile, rows, votes, log, history>>

(* The rows are read and what is not suppressed is merged; an approval       *)
(* counts its own JD in, if that is still there.                             *)
List(r) ==
    LET j == task[r].item
        merges(xs) == Becomes(r, [task[r] EXCEPT !.at = "writing", !.list = xs]) IN
    /\ At(r, "listing")
    /\ \/ task[r].kind \in Changers /\ merges(Live)
       \/ task[r].kind = "approve" /\ j \in present /\ merges(Live \union {j})
       \/ task[r].kind = "approve" /\ j \notin present /\ Ends(r)
    /\ UNCHANGED <<profile, rows, votes, log, history>>

(* The merge of a new JD would move too many postings: its flag is set ...   *)
Quarantine(r) ==
    LET j == task[r].item IN
    /\ At(r, "writing") /\ task[r].kind = "add"
    /\ suppressed' = suppressed \union ({j} \intersect present)
    /\ Becomes(r, Task("add", j, "staging"))
    /\ UNCHANGED <<profile, present, votes, log, unlogged>>
    /\ Abandon({j})

(* ... and a row of the log offers it, or a patch, for review.               *)
Stage(r) ==
    /\ At(r, "staging")
    /\ log' = [log EXCEPT ![task[r].item] = "staged"]
    /\ Ends(r)
    /\ UNCHANGED <<profile, rows, votes, history>>

\* A faulty learner, which takes the version after the LLM has answered.
LearnedLate(r) ==
    /\ At(r, "deriving") /\ task[r].kind = "learn"
    /\ Becomes(r, Read([task[r] EXCEPT !.at = "writing", !.list = @ \union {task[r].item}]))
    /\ UNCHANGED <<profile, rows, votes, log, history>>

(* The patch is ready: to be applied, to be reviewed, or empty, which is    *)
(* logged as applied; or there is nothing to learn.                          *)
Learned(r) ==
    LET p == task[r].item IN
    /\ At(r, "deriving") /\ task[r].kind = "learn"
    /\ \/ Becomes(r, [task[r] EXCEPT !.at = "writing", !.list = @ \union {p}])
       \/ \E place \in {"staging", "logging"} : Becomes(r, Task("learn", p, place))
       \/ Ends(r)
    /\ UNCHANGED <<profile, rows, votes, log, history>>

\* What a request does once its profile is written.
Written(t) ==
    CASE t.kind \in Changers -> Rest
      [] t.kind = "approve" -> Task("approve", t.item, "lifting")
      [] t.kind \in Patchers -> Task(t.kind, t.item, "logging")
Stale(t) == [t EXCEPT !.fresh = FALSE, !.overtaken = FALSE]

\* A faulty write, which does not look at the version.
WriteAnyway(r) ==
    /\ At(r, "writing")
    /\ profile' = task[r].list
    /\ task' = [q \in Requests |-> IF q = r THEN Written(task[q]) ELSE Stale(task[q])]
    /\ UNCHANGED <<rows, votes, log, unlogged>>
    /\ Abandon({})

(* The database function finds the version unchanged: it writes the profile  *)
(* and the next version.                                                     *)
Write(r) ==
    LET unsure == IF task[r].kind \in Patchers /\ task[r].overtaken THEN JDs ELSE {} IN
    /\ At(r, "writing") /\ task[r].fresh
    /\ profile' = task[r].list
    /\ task' = [q \in Requests |-> IF q = r THEN Written(task[q]) ELSE Stale(task[q])]
    /\ UNCHANGED <<rows, votes, log, unlogged>>
    /\ Abandon(unsure)

\* A faulty second attempt, which keeps what it has listed.
RetryAsListed(r) ==
    /\ At(r, "writing") /\ ~task[r].fresh
    /\ task[r].kind \in Changers /\ ~task[r].again
    /\ Becomes(r, Read([task[r] EXCEPT !.again = TRUE]))
    /\ UNCHANGED <<profile, rows, votes, log, history>>

(* It finds another one and refuses.  A merge is tried twice, a learned      *)
(* patch is left for review or for a later run, an approval is given up.     *)
Conflict(r) ==
    LET t == task[r] IN
    /\ At(r, "writing") /\ ~t.fresh
    /\ UNCHANGED <<profile, rows, votes, log, unlogged>>
    /\ \/ /\ t.kind \in Changers /\ ~t.again
          /\ Becomes(r, [Task(t.kind, t.item, "reading") EXCEPT !.again = TRUE])
       \/ /\ t.kind \in Changers => t.again
          /\ Ends(r)
       \/ /\ t.kind = "learn"
          /\ Becomes(r, Task("learn", t.item, "staging"))
    /\ Abandon(IF t.kind \in Changers /\ t.again THEN {t.item} ELSE {})

(* The flag of an approved JD is lifted.                                     *)
Lift(r) ==
    LET j == task[r].item IN
    /\ At(r, "lifting")
    /\ suppressed' = suppressed \ {j}
    /\ Goes(r, "logging")
    /\ UNCHANGED <<profile, present, votes, log, unlogged>>
    /\ Abandon({j})

\* A faulty log, which marks only what is still staged.
LogStaged(r) ==
    /\ At(r, "logging")
    /\ log' = [log EXCEPT ![task[r].item] = IF @ = "rejected" THEN @ ELSE "applied"]
    /\ Ends(r)
    /\ UNCHANGED <<profile, rows, votes, history>>

(* The log says that it was applied.                                         *)
LogApplied(r) ==
    /\ At(r, "logging")
    /\ log' = [log EXCEPT ![task[r].item] = "applied"]
    /\ Ends(r)
    /\ UNCHANGED <<profile, rows, votes, history>>

(* A derivation writes the profile and leaves the version.                   *)
RawWrite(r) ==
    /\ At(r, "raw")
    /\ profile' = IF task[r].kind = "seed" THEN {task[r].item} ELSE {Label}
    /\ task' = [q \in Requests |-> IF q = r THEN Rest
                                   ELSE [task[q] EXCEPT !.overtaken = task[q].fresh]]
    /\ UNCHANGED <<rows, votes, log, unlogged>>
    /\ Abandon(JDs)

(* Somebody rejects what is staged.                                          *)
Reject(x) ==
    /\ log[x] = "staged"
    /\ log' = [log EXCEPT ![x] = "rejected"]
    /\ UNCHANGED <<profile, rows, votes, task, history>>

(* A call fails, the user has left the target, or the process restarts.      *)
Fails(r) ==
    LET x == task[r].item IN
    /\ ~At(r, "idle")
    /\ Ends(r)
    /\ UNCHANGED <<profile, rows, votes, log>>
    /\ Abandon({j \in JDs : Owns(r, j)})
    /\ unlogged' = IF At(r, "logging") /\ x \in Patches THEN unlogged \union {x} ELSE unlogged

Next ==
    \/ \E r \in Requests :
         \/ \E j \in JDs : \/ AddStarts(r, j) \/ ContributeStarts(r, j)
                           \/ DeleteStarts(r, j) \/ VoteStarts(r, j)
         \/ \E p \in Patches : LearnStarts(r, p)
         \/ \E x \in Items : ApplyStarts(r, x)
         \/ DeriveStarts(r) \/ Insert(r) \/ Remove(r) \/ Count(r) \/ ReadTarget(r)
         \/ List(r) \/ Quarantine(r) \/ Stage(r) \/ Learned(r) \/ Write(r)
         \/ Conflict(r) \/ Lift(r) \/ LogApplied(r) \/ RawWrite(r) \/ Fails(r)
    \/ \E x \in Items : Reject(x)

Spec == Init /\ [][Next]_vars

-----------------------------------------------------------------------------

TypeOK ==
    /\ profile \subseteq Items \union {Label}
    /\ present \subseteq JDs /\ suppressed \subseteq present
    /\ down \in [JDs -> SUBSET Voters] /\ up \in [JDs -> SUBSET Voters]
    /\ log \in [Items -> {"unused", "none", "staged", "applied", "rejected"}]
    /\ task \in [Requests -> [kind : Kinds, item : Items \union {None}, at : Places,
                              list : SUBSET (Items \union {Label}),
                              fresh : BOOLEAN, overtaken : BOOLEAN, again : BOOLEAN]]
    /\ adrift \subseteq JDs /\ unlogged \subseteq Patches

\* Where the profile and the rows disagree about a JD, a request is under way
\* that will bring them together; a profile merged from rows that have changed
\* since is never written over one that knows better.  The exceptions: the
\* request failed or lost the version twice, its JD was quarantined or approved
\* while others were merging, or a derivation wrote over the profile (what that
\* gets wrong, and a patch that was read before it, is excused altogether).
MergesAreOwned ==
    \A j \in JDs : Differs(j) =>
        j \in adrift \/ \E r \in Requests : Owns(r, j)

\* A patch is added to the profile as it is and takes nothing from it, however
\* long ago the learner, or the reviewer, has read the profile.  The exception:
\* a derivation has written since, which leaves the version as it was.
PatchesKeepTheRest ==
    [][\A r \in Requests : Write(r) /\ task[r].kind \in Patchers /\ ~task[r].overtaken =>
          profile' = profile \union {task[r].item}]_vars

\* A patch that the log calls rejected is not in the profile, unless the log is
\* just about to be put right, or the request that applied it died before that.
RejectedStaysOut ==
    \A p \in profile \intersect Patches : log[p] = "rejected" =>
        p \in unlogged \/ \E r \in Requests : task[r].item = p /\ At(r, "logging")

\* A quarantined JD whose merge was rejected stays suppressed, while nobody
\* votes for it (reject_staged_patch's docstring).
QuarantineHolds ==
    \A j \in present : log[j] = "rejected" /\ up[j] = {} => j \in suppressed
=============================================================================
