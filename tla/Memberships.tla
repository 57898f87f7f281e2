----------------------------- MODULE Memberships ----------------------------
(* Who follows which target, and which of those follows are active: the rows *)
(* of user_targets and the existence of the shared targets row, as the       *)
(* routes of routers/targets.py, the create-or-link flows of from_input.py   *)
(* and their database functions change them.  Each action is one database    *)
(* transaction (or one request's read); a request or detached task that      *)
(* spans several is a task record, and anything may run between its steps.   *)
EXTENDS Naturals, FiniteSets

CONSTANTS Users,
          Targets,    \* normalized labels; at most one targets row for each
          Sponsored,  \* labels whose row has app_active: never reaped
          Cap,        \* user -> effective_active_target_cap
          Tasks       \* names for the requests and tasks in flight at a time

ASSUME TargetsAssumption == IsFiniteSet(Targets) /\ Sponsored \subseteq Targets
ASSUME CapAssumption == Cap \in [Users -> Nat]

VARIABLES
  exists,        \* the labels that have a targets row
  links,         \* user -> targets with a user_targets row
  active,        \* user -> those with is_active
  scored,        \* user -> those with a stored fit score
  chosen,        \* history: what the user asked to follow and did not remove
  chosenActive,  \* history: what the user (or the idle sweep) left active
  raced,         \* history: what the user followed while its row was being
                 \* reaped, past the snapshot in which nobody followed it
  strays,        \* history: rows nobody will reap: POST /targets made them,
                 \* or the reap of them failed or died with the process
  tasks          \* requests and detached tasks in flight

vars == <<exists, links, active, scored, chosen, chosenActive, raced, strays, tasks>>
membership == <<links, active, scored, chosen, chosenActive, raced>>

(* "create" and "createActive" hold a label the catalog did not have; every  *)
(* other stage holds the id of a row, which stops being live when that row   *)
(* is deleted (a later row with the same label has another id).              *)
ByLabel == {"create", "createActive"}
Stages == ByLabel \union {"attach", "attachActive", "link", "fit", "unlinked", "reaping"}
Task == [id : Tasks, stage : Stages, user : Users, target : Targets, live : BOOLEAN]

Followers(t) == {u \in Users : t \in links[u]}

(* The rows reap_orphaned_target may delete.                                 *)
Orphans == {t \in exists \ Sponsored : Followers(t) = {}}
Reaping(x) == x.live /\ x.stage \in {"unlinked", "reaping"}

(* A reap has read that nobody follows t and has not deleted the row yet.    *)
Doomed(t) == \E x \in tasks : x.live /\ x.stage = "reaping" /\ x.target = t

Start(k, s, u, t) ==
  /\ \A x \in tasks : x.id # k
  /\ tasks' = tasks \union {[id |-> k, stage |-> s, user |-> u, target |-> t, live |-> TRUE]}
Go(x, s) == tasks' = (tasks \ {x}) \union {[x EXCEPT !.stage = s]}
End(x) == tasks' = tasks \ {x}

Init == /\ exists = Sponsored
        /\ links = [u \in Users |-> {}]
        /\ active = [u \in Users |-> {}]
        /\ scored = [u \in Users |-> {}]
        /\ chosen = [u \in Users |-> {}]
        /\ chosenActive = [u \in Users |-> {}]
        /\ raced = [u \in Users |-> {}]
        /\ strays = {}
        /\ tasks = {}
-----------------------------------------------------------------------------
(* The membership of u in t is inserted, or is there already.                *)
Join(u, t) ==
  /\ links' = [links EXCEPT ![u] = @ \union {t}]
  /\ chosen' = [chosen EXCEPT ![u] = @ \union {t}]
  /\ raced' = [raced EXCEPT ![u] = IF t \in links[u] THEN @
                                   ELSE IF Doomed(t) THEN @ \union {t} ELSE @ \ {t}]
  /\ strays' = strays \ {t}

(* A new membership starts inactive.                                         *)
JoinsInactive(u, t) ==
  chosenActive' = [chosenActive EXCEPT ![u] = IF t \in links[u] THEN @ ELSE @ \ {t}]

(* A faulty _link that writes is_active = false on every call (#1089).       *)
FollowInactive(u, t) ==
  /\ Join(u, t)
  /\ JoinsInactive(u, t)
  /\ active' = [active EXCEPT ![u] = @ \ {t}]
  /\ UNCHANGED scored

(* _link, and create_target_and_link without p_is_active: add the membership *)
(* inactive, or leave the existing one as the user has it.                   *)
Follow(u, t) ==
  /\ Join(u, t)
  /\ JoinsInactive(u, t)
  /\ UNCHANGED <<active, scored>>

(* A faulty database function with no cap check: the route's earlier count   *)
(* is all there is (#1071).                                                  *)
AnyRoom(u, t, freed) == TRUE

(* The count both database functions make under the per-user lock: the       *)
(* user's OTHER active memberships, after any swap-out.                      *)
Room(u, t, freed) == Cardinality((active[u] \ freed) \ {t}) < Cap[u]

(* activate_user_target / swap_user_target_active: one transaction under the *)
(* user's lock.  A rejection changes nothing; a fit score is written only    *)
(* when the caller brings one.                                               *)
Enable(u, t, freed, fit) ==
  /\ t \in exists
  /\ Room(u, t, freed)
  /\ Join(u, t)
  /\ active' = [active EXCEPT ![u] = (@ \ freed) \union {t}]
  /\ chosenActive' = [chosenActive EXCEPT ![u] = (@ \ freed) \union {t}]
  /\ scored' = [scored EXCEPT ![u] = IF fit THEN @ \union {t} ELSE @]
-----------------------------------------------------------------------------
(* from_manual, from_suggestion, from_url: match the label in the catalog,   *)
(* then attach to the row found or create one.                               *)
RequestFollow(k, u, t) ==
  /\ Start(k, IF t \in exists THEN "attach" ELSE "create", u, t)
  /\ UNCHANGED <<exists, membership, strays>>

(* from-posting: the advisory cap check, then the same match.                *)
RequestPosting(k, u, t) ==
  /\ Cardinality(active[u]) < Cap[u]
  /\ Start(k, IF t \in exists THEN "attachActive" ELSE "createActive", u, t)
  /\ UNCHANGED <<exists, membership, strays>>

(* POST /{id}/link: the advisory check before the fit score is paid for.     *)
RequestLink(k, u, t) ==
  /\ t \in exists
  /\ t \in active[u] \/ Cardinality(active[u]) < Cap[u]
  /\ Start(k, "link", u, t)
  /\ UNCHANGED <<exists, membership, strays>>

(* A faulty Attach with no foreign key under it: the row may be gone.        *)
AttachUnchecked(x) ==
  /\ x.stage = "attach"
  /\ Follow(x.user, x.target)
  /\ Go(x, "fit")
  /\ UNCHANGED exists

(* _link on the matched row; its fit score is derived by a detached task.    *)
Attach(x) ==
  /\ x.stage = "attach" /\ x.live
  /\ Follow(x.user, x.target)
  /\ Go(x, "fit")
  /\ UNCHANGED exists

(* create_target_and_link, inactive: insert or conflict, and the membership. *)
Create(x) ==
  /\ x.stage = "create"
  /\ exists' = exists \union {x.target}
  /\ Follow(x.user, x.target)
  /\ Go(x, "fit")

(* create_target_and_link with p_is_active: all of it or, at the cap, none.  *)
CreateActive(x) ==
  LET u == x.user
      t == x.target
  IN  /\ x.stage = "createActive"
      /\ Room(u, t, {})
      /\ exists' = exists \union {t}
      /\ Join(u, t)
      /\ active' = [active EXCEPT ![u] = @ \union {t}]
      /\ chosenActive' = [chosenActive EXCEPT ![u] = @ \union {t}]
      /\ End(x)
      /\ UNCHANGED scored

(* The write of a from-posting match, or of POST /{id}/link, which brings    *)
(* the fit score it derived when the user has experience to score.           *)
AttachActive(x) ==
  /\ x.stage \in {"attachActive", "link"} /\ x.live
  /\ \E fit \in (IF x.stage = "link" THEN BOOLEAN ELSE {FALSE}) :
       Enable(x.user, x.target, {}, fit)
  /\ End(x)
  /\ UNCHANGED exists

(* The request ends without writing: refused at the cap, the matched row has *)
(* been deleted (foreign key), an LLM call failed, or no score came of it.   *)
Refused(x) ==
  /\ x.stage \notin {"unlinked", "reaping"}
  /\ End(x)
  /\ UNCHANGED <<exists, membership, strays>>

(* POST /{id}/activate, plain and with deactivate_target_id.                 *)
ActivateTarget(u, t) == Enable(u, t, {}, FALSE) /\ UNCHANGED <<exists, tasks>>
SwapTarget(u, s, t) ==
  /\ s # t /\ s \in active[u]
  /\ Enable(u, t, {s}, FALSE)
  /\ UNCHANGED <<exists, tasks>>

SwitchOff(u, ts) ==
  /\ active' = [active EXCEPT ![u] = @ \ ts]
  /\ chosenActive' = [chosenActive EXCEPT ![u] = @ \ ts]
  /\ UNCHANGED <<exists, links, scored, chosen, raced, strays, tasks>>

(* POST /{id}/deactivate, and the idle sweep of lifecycle.py.                *)
DeactivateTarget(u, t) == t \in links[u] /\ SwitchOff(u, {t})
DeactivateIdleTargets(u) == SwitchOff(u, Targets)

(* A faulty _apply_fit_score that stores through the _link upsert (#1097).   *)
StoreFitScoreUpserts(x) ==
  /\ x.stage = "fit" /\ x.live
  /\ links' = [links EXCEPT ![x.user] = @ \union {x.target}]
  /\ scored' = [scored EXCEPT ![x.user] = @ \union {x.target}]
  /\ End(x)
  /\ UNCHANGED <<exists, active, chosen, chosenActive, raced, strays>>

(* _store_fit_score: an UPDATE of a membership that is still there.          *)
StoreFitScore(x) ==
  /\ x.stage = "fit" /\ x.live /\ x.target \in links[x.user]
  /\ scored' = [scored EXCEPT ![x.user] = @ \union {x.target}]
  /\ End(x)
  /\ UNCHANGED <<exists, links, active, chosen, chosenActive, raced, strays>>
-----------------------------------------------------------------------------
(* A faulty DELETE /{id} that drops the link and counts on a trigger, gone   *)
(* since 20260731090000, to tidy the row up (#667).                          *)
DeleteWithoutReap(k, u, t) ==
  /\ t \in links[u]
  /\ links' = [links EXCEPT ![u] = @ \ {t}]
  /\ active' = [active EXCEPT ![u] = @ \ {t}]
  /\ scored' = [scored EXCEPT ![u] = @ \ {t}]
  /\ chosen' = [chosen EXCEPT ![u] = @ \ {t}]
  /\ chosenActive' = [chosenActive EXCEPT ![u] = @ \ {t}]
  /\ raced' = [raced EXCEPT ![u] = @ \ {t}]
  /\ UNCHANGED <<exists, strays, tasks>>

(* DELETE /{id}: drop the caller's membership, then (a second call) reap.    *)
DeleteTarget(k, u, t) ==
  /\ t \in links[u]
  /\ links' = [links EXCEPT ![u] = @ \ {t}]
  /\ active' = [active EXCEPT ![u] = @ \ {t}]
  /\ scored' = [scored EXCEPT ![u] = @ \ {t}]
  /\ chosen' = [chosen EXCEPT ![u] = @ \ {t}]
  /\ chosenActive' = [chosenActive EXCEPT ![u] = @ \ {t}]
  /\ raced' = [raced EXCEPT ![u] = @ \ {t}]
  /\ Start(k, "unlinked", u, t)
  /\ UNCHANGED <<exists, strays>>

(* reap_orphaned_target takes its snapshot: the guards are read here ...     *)
ReapSnapshot(x) ==
  /\ x.stage = "unlinked"
  /\ IF x.live /\ x.target \in Orphans THEN Go(x, "reaping") ELSE End(x)
  /\ UNCHANGED <<exists, membership, strays>>

(* ... and the row goes here, with every membership it has by now: a DELETE  *)
(* that waits for a key-share lock (a membership insert takes one) does not  *)
(* read its NOT EXISTS again, and the foreign key cascades.  The users whose *)
(* memberships go this way did nothing: the history keeps what they chose.   *)
ReapDelete(x) ==
  LET t == x.target
      Drop(f) == [u \in Users |-> f[u] \ {t}]
  IN  /\ x.stage = "reaping" /\ x.live
      /\ exists' = exists \ {t}
      /\ links' = Drop(links)
      /\ active' = Drop(active)
      /\ scored' = Drop(scored)
      /\ strays' = strays \ {t}
      /\ UNCHANGED <<chosen, chosenActive, raced>>
      /\ tasks' = {[y EXCEPT !.live = y.live /\ (y.stage \in ByLabel \/ y.target # t)] :
                     y \in tasks \ {x}}

(* The row was deleted under it: the DELETE finds nothing.                   *)
ReapFindsNothing(x) ==
  /\ x.stage = "reaping" /\ ~x.live
  /\ End(x)
  /\ UNCHANGED <<exists, membership, strays>>

(* The call raises; the route logs it and answers the user all the same.     *)
ReapFails(x) ==
  /\ x.stage \in {"unlinked", "reaping"}
  /\ End(x)
  /\ strays' = strays \union (IF x.live THEN {x.target} \intersect Orphans ELSE {})
  /\ UNCHANGED <<exists, membership>>

(* POST /targets: find or create the row, with no membership.                *)
CreateTarget(t) ==
  /\ t \notin exists
  /\ exists' = exists \union {t}
  /\ strays' = strays \union {t}
  /\ UNCHANGED <<membership, tasks>>

(* The process restarts: requests and detached tasks are gone.               *)
Restart ==
  /\ tasks # {}
  /\ tasks' = {}
  /\ strays' = strays \union (Orphans \intersect {x.target : x \in {y \in tasks : Reaping(y)}})
  /\ UNCHANGED <<exists, membership>>

Request(k, u, t) == \/ RequestFollow(k, u, t) \/ RequestPosting(k, u, t)
                    \/ RequestLink(k, u, t)   \/ DeleteTarget(k, u, t)
Reap(x) == ReapSnapshot(x) \/ ReapDelete(x) \/ ReapFindsNothing(x) \/ ReapFails(x)
Step(x) == \/ Attach(x) \/ Create(x) \/ CreateActive(x) \/ AttachActive(x)
           \/ Refused(x) \/ StoreFitScore(x) \/ Reap(x)

Next == \/ \E k \in Tasks, u \in Users, t \in Targets : Request(k, u, t)
        \/ \E x \in tasks : Step(x)
        \/ \E u \in Users : \/ \E t \in Targets : ActivateTarget(u, t) \/ DeactivateTarget(u, t)
                            \/ \E s, t \in Targets : SwapTarget(u, s, t)
                            \/ DeactivateIdleTargets(u)
        \/ \E t \in Targets : CreateTarget(t)
        \/ Restart

Spec == Init /\ [][Next]_vars

-----------------------------------------------------------------------------
TypeOK == /\ exists \in SUBSET Targets
          /\ links \in [Users -> SUBSET exists]
          /\ \A f \in {active, scored} :
               f \in [Users -> SUBSET Targets] /\ \A u \in Users : f[u] \subseteq links[u]
          /\ chosen \in [Users -> SUBSET Targets]
          /\ chosenActive \in [Users -> SUBSET Targets]
          /\ raced \in [Users -> SUBSET Targets]
          /\ strays \in SUBSET Targets
          /\ tasks \in SUBSET Task

(* A sponsored row is never deleted, followers or not (#543).                *)
SponsoredStay == Sponsored \subseteq exists

(* No user ever holds more active targets than the plan allows, however the  *)
(* screens that can switch one on race (activate_user_target's contract).    *)
ActiveCap == \A u \in Users : Cardinality(active[u]) <= Cap[u]

(* The memberships of u that a reap took: followed after its snapshot.       *)
Lost(u) == raced[u] \ links[u]

(* A membership is there exactly when its user asked for it and has not      *)
(* removed it, but for one a reap took that was past its snapshot when the   *)
(* user followed: no background write brings a removed target back (#1097),  *)
(* and no delete by another user takes an earlier follow.                    *)
NothingResurrected == \A u \in Users : links[u] = chosen[u] \ Lost(u)

(* A membership is active exactly when its user left it so, but for those a  *)
(* reap took: no follow, fit score or lost create race switches a target off *)
(* or on (#1089).                                                            *)
NothingSwitchedOff == \A u \in Users : active[u] = chosenActive[u] \ Lost(u)

(* No row is left unreachable: one without followers or sponsorship is about *)
(* to be reaped, or its reap failed, or an operator made it bare (#667).     *)
OrphansAreReaped ==
  \A t \in Orphans : t \in strays \/ \E x \in tasks : Reaping(x) /\ x.target = t

(* A stored fit score stays as long as its membership does: a bare follow or *)
(* activation never blanks it (the COALESCEs of activate_user_target).       *)
ScoresKept == [][\A u \in Users : scored[u] \intersect links'[u] \subseteq scored'[u]]_vars

=============================================================================
