----------------------------- MODULE Activation -----------------------------
(* The activation lifecycle of one shared target: the columns                *)
(* activation_status, activation_error and updated_at of its row and whether *)
(* it has a scoring profile, as the create-or-link flows and background      *)
(* derivations of from_input.py, the activation pipeline of                  *)
(* routers/targets.py, the from-posting route and the sweep of activation.py *)
(* write them.  Rows of different targets share none of this, so one is      *)
(* enough.  A task is a request or a detached task; anything may run between *)
(* its database writes.                                                      *)
CONSTANT Tasks   \* names for the tasks that can be in flight at one time

VARIABLES
  exists,     \* the label has a row
  status,     \* activation_status
  reason,     \* activation_error: "none", "no_profile", "timeout", "failed"
  profile,    \* it has keywords and categories (else needs_derive)
  stale,      \* updated_at is older than the sweep's cutoff
  abandoned,  \* history: the task that would settle the status is lost
  tasks

vars == <<exists, status, reason, profile, stale, abandoned, tasks>>

InFlight == {"deriving", "polling"}        \* IN_FLIGHT_STATUSES
Statuses == InFlight \union {"idle", "ready", "error"}

(* Requests past their catalog match that found no row; they hold a label.   *)
Creating == {"create", "createUrl", "createPosting"}
(* Detached tasks that still have a status to write, come what may: the two  *)
(* derivations and the activation pipeline, at the write or call they await. *)
Settling == {"derive", "deriveUrl", "flipUrl",
             "toDerive", "readDoc", "deriveLabel", "toPoll", "poll"}
(* Work that writes a status only if it fails: the fit score at the end of   *)
(* either derivation, and the inline derivation of from-posting.             *)
Trailing == {"score", "scoreUrl", "seedJD"}
Stages == Creating \union Settling \union Trailing
Timed == {"derive", "score", "deriveUrl", "flipUrl", "scoreUrl"}

(* live: the row whose id the task holds is still there.                     *)
Task == [id : Tasks, stage : Stages, live : BOOLEAN]

Free(k) == \A x \in tasks : x.id # k
Spawn(k, s) == tasks \union {[id |-> k, stage |-> s, live |-> TRUE]}
Goes(x, s) == (tasks \ {x}) \union {[x EXCEPT !.stage = s]}
Ends(x) == tasks \ {x}

(* A faulty build_update_fields that forgets the reason of an error.         *)
WriteStatusBare(s, r) ==
  /\ status' = s
  /\ reason' = "none"
  /\ stale' = FALSE
  /\ abandoned' = FALSE

(* build_update_fields with an activation_status: an error brings its        *)
(* reason, any other status clears it; updated_at is touched.                *)
WriteStatus(s, r) ==
  /\ status' = s
  /\ reason' = r
  /\ stale' = FALSE
  /\ abandoned' = FALSE

(* A write that touches the row but not its status.                          *)
Touch == stale' = FALSE /\ UNCHANGED <<status, reason, abandoned>>
KeepRow == UNCHANGED <<exists, status, reason, profile, stale, abandoned>>

Init == /\ exists = FALSE /\ status = "idle" /\ reason = "none"
        /\ profile = FALSE /\ stale = FALSE /\ abandoned = FALSE
        /\ tasks = {}
-----------------------------------------------------------------------------
(* from_manual and from_suggestion, from_url, from-posting: the catalog      *)
(* match finds nothing.                                                      *)
NoMatch(k, s) == ~exists /\ Free(k) /\ tasks' = Spawn(k, s) /\ KeepRow

(* create_target_and_link inserts the row ...                                *)
InsertRow(x, s, first) ==
  /\ ~exists /\ exists' = TRUE
  /\ status' = first /\ reason' = "none" /\ stale' = FALSE /\ abandoned' = FALSE
  /\ profile' = FALSE
  /\ tasks' = (tasks \ {x}) \union {[id |-> x.id, stage |-> s, live |-> TRUE]}

(* ... or loses the race for the label: its ON CONFLICT branch writes the    *)
(* status it was given and leaves the reason alone.                          *)
ConflictRow(s) ==
  /\ exists
  /\ status' = s /\ stale' = FALSE
  /\ abandoned' = (abandoned /\ s = status)
  /\ UNCHANGED <<exists, reason, profile>>

(* The suggestion and the URL flow: created or not, the row is "deriving"    *)
(* and the flow's derivation is spawned.                                     *)
CreateDeriving(x, from, next) ==
  /\ x.stage = from
  /\ \/ InsertRow(x, next, "deriving")
     \/ ConflictRow("deriving") /\ tasks' = Goes(x, next)

(* from-posting passes no status; it derives only a row it created, and only *)
(* from a description long enough.                                           *)
CreatePosting(x) ==
  /\ x.stage = "createPosting"
  /\ \/ InsertRow(x, "seedJD", "idle")
     \/ ConflictRow(status) /\ tasks' = Ends(x)

(* from_url finds the target in the catalog: the derivation contributes the  *)
(* posting to it.                                                            *)
MatchUrl(k) == exists /\ Free(k) /\ tasks' = Spawn(k, "deriveUrl") /\ KeepRow

(* POST /{id}/activate spawns the pipeline with the row as it reads it now.  *)
ActivateTarget(k) ==
  /\ exists /\ Free(k)
  /\ tasks' = Spawn(k, IF profile THEN "toPoll" ELSE "toDerive")
  /\ KeepRow
-----------------------------------------------------------------------------
(* derive_manual_target_bg: the profile and "idle" are one write; the fit    *)
(* score is still inside its try.                                            *)
DeriveManual(x) ==
  /\ x.stage = "derive" /\ x.live
  /\ WriteStatus("idle", "none") /\ profile' = TRUE
  /\ tasks' = Goes(x, "score")
  /\ UNCHANGED exists

(* derive_url_target_bg: _contribute_reference_jd merges the profile unless  *)
(* the user is over the cap, no follower, or lost the version race twice ... *)
ContributeJD(x) ==
  /\ x.stage = "deriveUrl" /\ x.live
  /\ \/ profile' = TRUE /\ Touch
     \/ UNCHANGED <<profile, status, reason, stale, abandoned>>
  /\ tasks' = Goes(x, "flipUrl")
  /\ UNCHANGED exists

(* ... then the status is flipped, on a matched row as on a new one.         *)
FlipUrl(x) ==
  /\ x.stage = "flipUrl" /\ x.live
  /\ WriteStatus("idle", "none")
  /\ tasks' = Goes(x, "scoreUrl")
  /\ UNCHANGED <<exists, profile>>

(* create_target_from_posting stores the seed profile, status untouched.     *)
SeedProfile(x) ==
  /\ x.stage = "seedJD" /\ x.live
  /\ profile' = TRUE /\ Touch
  /\ tasks' = Ends(x)
  /\ UNCHANGED exists

(* The trailing work is done, or was never due.                              *)
TrailingDone(x) == x.stage \in Trailing /\ tasks' = Ends(x) /\ KeepRow

(* _activate_pipeline, one write at a time.                                  *)
PipelineDerives(x) ==
  /\ x.stage = "toDerive" /\ x.live
  /\ WriteStatus("deriving", "none")
  /\ tasks' = Goes(x, "readDoc")
  /\ UNCHANGED <<exists, profile>>

(* A faulty pipeline that returns without saying why: the row stays deriving.*)
NoDocumentReturns(x) ==
  /\ x.stage = "readDoc"
  /\ tasks' = Ends(x)
  /\ KeepRow

(* The user has no OptimizedDoc to derive from.                              *)
NoDocument(x) ==
  /\ x.stage = "readDoc" /\ x.live
  /\ WriteStatus("error", "no_profile")
  /\ tasks' = Ends(x)
  /\ UNCHANGED <<exists, profile>>

HasDocument(x) ==
  x.stage = "readDoc" /\ tasks' = Goes(x, "deriveLabel") /\ KeepRow

ProfileStored(x) ==
  /\ x.stage = "deriveLabel" /\ x.live
  /\ profile' = TRUE /\ Touch
  /\ tasks' = Goes(x, "toPoll")
  /\ UNCHANGED exists

(* A faulty _update that upserts: it writes a status where no row is.        *)
PipelinePollsUpserts(x) ==
  /\ x.stage = "toPoll"
  /\ WriteStatus("polling", "none")
  /\ tasks' = Goes(x, "poll")
  /\ UNCHANGED <<exists, profile>>

PipelinePolls(x) ==
  /\ x.stage = "toPoll" /\ x.live
  /\ WriteStatus("polling", "none")
  /\ tasks' = Goes(x, "poll")
  /\ UNCHANGED <<exists, profile>>

(* The poll, the retro-score and the phase-1 backfill all returned.          *)
PipelineReady(x) ==
  /\ x.stage = "poll" /\ x.live
  /\ WriteStatus("ready", "none")
  /\ tasks' = Ends(x)
  /\ UNCHANGED <<exists, profile>>

(* The except arms: a derivation past its timeout, anything else that raised.*)
TaskRaises(x) ==
  /\ x.stage \in Settling \union Trailing /\ x.live
  /\ \E r \in {"failed"} \union (IF x.stage \in Timed THEN {"timeout"} ELSE {}) :
       WriteStatus("error", r)
  /\ tasks' = Ends(x)
  /\ UNCHANGED <<exists, profile>>

(* The task dies without its last write: the write in the except arm raised  *)
(* too, or a request failed before it wrote anything.                        *)
TaskLost(x) ==
  /\ tasks' = Ends(x)
  /\ abandoned' = (abandoned \/ (x.stage \in Settling /\ status \in InFlight))
  /\ UNCHANGED <<exists, status, reason, profile, stale>>

(* The row is gone: every write of the task matches nothing.                 *)
TaskOnNoRow(x) ==
  /\ ~x.live /\ tasks' = Ends(x) /\ KeepRow
-----------------------------------------------------------------------------
(* The process restarts: no detached task survives.                          *)
Restart ==
  /\ tasks # {} /\ tasks' = {}
  /\ abandoned' = (abandoned \/ (status \in InFlight /\ \E x \in tasks : x.stage \in Settling))
  /\ UNCHANGED <<exists, status, reason, profile, stale>>

(* The other routes of the shared profile, and none touches the status: a    *)
(* reference JD or a vote merged in; the last reference JD deleted, which    *)
(* stores an empty profile.                                                  *)
MergeProfile == /\ exists /\ profile' = TRUE /\ Touch
                /\ UNCHANGED <<exists, tasks>>
EmptyProfile == /\ exists /\ profile /\ profile' = FALSE /\ Touch
                /\ UNCHANGED <<exists, tasks>>

(* POST /targets creates a bare row.                                         *)
CreateTarget ==
  /\ ~exists /\ exists' = TRUE
  /\ status' = "idle" /\ reason' = "none" /\ stale' = FALSE /\ abandoned' = FALSE
  /\ profile' = FALSE
  /\ UNCHANGED tasks

(* reap_orphaned_target deletes the row (Memberships).                       *)
Reaped ==
  /\ exists /\ exists' = FALSE
  /\ status' = "idle" /\ reason' = "none" /\ stale' = FALSE /\ abandoned' = FALSE
  /\ profile' = FALSE
  /\ tasks' = {[x EXCEPT !.live = x.live /\ x.stage \in Creating] : x \in tasks}

(* The row's updated_at falls behind the cutoff.                             *)
Age == /\ exists /\ ~stale /\ stale' = TRUE
       /\ UNCHANGED <<exists, status, reason, profile, abandoned, tasks>>

(* A faulty sweep that knows only one of the in-flight statuses.             *)
SweepPollingOnly ==
  /\ exists /\ status = "polling" /\ stale
  /\ status' = "idle" /\ stale' = FALSE /\ abandoned' = FALSE
  /\ UNCHANGED <<exists, reason, profile, tasks>>

(* sweep_stalled_activations: one UPDATE per in-flight status; it does not   *)
(* go through build_update_fields.                                           *)
Sweep ==
  /\ exists /\ status \in InFlight /\ stale
  /\ status' = "idle" /\ stale' = FALSE /\ abandoned' = FALSE
  /\ UNCHANGED <<exists, reason, profile, tasks>>

Request(k) == \/ \E s \in Creating : NoMatch(k, s)
              \/ MatchUrl(k) \/ ActivateTarget(k)
Proceed(x) == \/ CreateDeriving(x, "create", "derive")
              \/ CreateDeriving(x, "createUrl", "deriveUrl")
              \/ CreatePosting(x)
              \/ DeriveManual(x) \/ ContributeJD(x) \/ FlipUrl(x) \/ SeedProfile(x)
              \/ PipelineDerives(x) \/ NoDocument(x) \/ HasDocument(x)
              \/ ProfileStored(x) \/ PipelinePolls(x) \/ PipelineReady(x)
              \/ TaskRaises(x) \/ TaskOnNoRow(x)

Next == \/ \E k \in Tasks : Request(k)
        \/ \E x \in tasks : Proceed(x) \/ TrailingDone(x) \/ TaskLost(x)
        \/ Restart \/ MergeProfile \/ EmptyProfile \/ CreateTarget \/ Reaped
        \/ Age \/ Sweep

Spec == Init /\ [][Next]_vars

(* Fairness: the daily sweep keeps running, and a row nobody writes to grows *)
(* old.  Nothing is assumed of tasks: they may hang or be lost.              *)
FairSpec == Spec /\ WF_vars(Age) /\ WF_vars(Sweep)
-----------------------------------------------------------------------------
TypeOK == /\ exists \in BOOLEAN /\ profile \in BOOLEAN
          /\ stale \in BOOLEAN /\ abandoned \in BOOLEAN
          /\ status \in Statuses
          /\ reason \in {"none", "no_profile", "timeout", "failed"}
          /\ tasks \in SUBSET Task
          /\ ~exists => status = "idle" /\ reason = "none" /\ ~profile

(* A target in error always says why (#649): the UI tells the user to add    *)
(* experience or to try again by the reason code.                            *)
ErrorHasReason == status = "error" => reason # "none"

(* "deriving" and "polling" mean something is working on this: the status    *)
(* has a task that will settle it, unless that task was lost.  So only a     *)
(* lost task leaves work for the sweep.                                      *)
InFlightIsOwned ==
  status \in InFlight =>
    abandoned \/ \E x \in tasks : x.live /\ x.stage \in Settling

(* A stranded target does not stay stranded (one sat in polling for 27       *)
(* days): once its task is lost the sweep, or a new attempt, settles it.     *)
(* The premise is about users: a request that touches the row postpones the  *)
(* sweep by the whole window, so that must stop happening some day.          *)
QuietRow == <>[][exists /\ stale => stale' \/ status' # status]_vars
StrandedIsReclaimed == QuietRow => (abandoned ~> ~abandoned)
=============================================================================
