------------------------------ MODULE PollLock ------------------------------
(* The advisory lock around the poll cycle (services/poll_lock.py) and its   *)
(* two callers in scheduler.py: the scheduled tick, at most one at a time on *)
(* each replica, and the forced polls of POST /poll.  The lock belongs to a  *)
(* database session; every RPC runs on whichever pooled session is free.     *)
EXTENDS Naturals, FiniteSets

CONSTANTS Ticks,        \* the scheduler's poll job, one for each replica
          Forces,       \* detached run_force_poll_locked tasks
          Replica,      \* worker -> the API process it runs in
          Sessions,     \* PostgREST's pooled database sessions
          MaxFailures   \* bound on the holds that lose their holder

Workers == Ticks \union Forces

ASSUME WorkersAssumption == IsFiniteSet(Workers) /\ Ticks \intersect Forces = {}
ASSUME BoundAssumption == MaxFailures \in Nat

VARIABLES
  pc,        \* where each worker is
  holds,     \* session -> how often it holds the advisory lock
  fresh,     \* some source was stamped less than the stale threshold ago
  alarm,     \* what the last health check that got to an answer said of the lock
  failures   \* history: holds whose holder lost the answer, the session or its life

vars == <<pc, holds, fresh, alarm, failures>>

(* "releasing" comes after a poll that ran its course, "unwinding" after an  *)
(* exception; a forced poll's release always ends it, so it only unwinds.    *)
Places == {"idle", "down", "polling", "releasing", "unwinding", "checking"}
Held == \E s \in Sessions : holds[s] > 0

(* The workers that own a hold they will still release.                      *)
Owners == {w \in Workers : \/ pc[w] \in {"polling", "releasing", "unwinding"}
                           \/ w \in Forces /\ pc[w] = "checking"}
Goto(w, place) == pc' = [pc EXCEPT ![w] = place]
Lose(n) == failures + n <= MaxFailures /\ failures' = failures + n

Init == /\ pc = [w \in Workers |-> "idle"]
        /\ holds = [s \in Sessions |-> 0]
        /\ fresh \in BOOLEAN
        /\ alarm = FALSE
        /\ failures = 0
-----------------------------------------------------------------------------
(* pg_try_advisory_lock on session s: it is refused only while ANOTHER       *)
(* session holds the lock, and counts up when s has it already.              *)
Grants(s) == \A o \in Sessions \ {s} : holds[o] = 0
Refuses(s) == \E o \in Sessions \ {s} : holds[o] > 0

(* A worker without the lock: the tick goes on to its health check, the      *)
(* forced poll returns.                                                      *)
Skips(w) == Goto(w, IF w \in Ticks THEN "checking" ELSE "idle")

Acquire(w, s) ==
  /\ pc[w] = "idle" /\ Grants(s)
  /\ holds' = [holds EXCEPT ![s] = @ + 1]
  /\ Goto(w, "polling")
  /\ UNCHANGED <<fresh, alarm, failures>>

AcquireRefused(w, s) ==
  /\ pc[w] = "idle" /\ Refuses(s)
  /\ Skips(w)
  /\ UNCHANGED <<holds, fresh, alarm, failures>>

(* The RPC raises before it reaches the database, or after it took the lock. *)
AcquireFails(w) ==
  /\ pc[w] = "idle"
  /\ Skips(w)
  /\ UNCHANGED <<holds, fresh, alarm, failures>>
AcquireAnswerLost(w, s) ==
  /\ pc[w] = "idle" /\ Grants(s) /\ Lose(1)
  /\ holds' = [holds EXCEPT ![s] = @ + 1]
  /\ Skips(w)
  /\ UNCHANGED <<fresh, alarm>>

(* The cycle stamps last_polled_at of a source.                              *)
PollStamps(w) ==
  /\ pc[w] = "polling"
  /\ fresh' = TRUE
  /\ UNCHANGED <<pc, holds, alarm, failures>>

(* Polls that take no lock stamp as well: the poll of an activated target    *)
(* and the cycle of POST /poll/due.                                          *)
StampsWithoutLock ==
  /\ fresh' = TRUE
  /\ UNCHANGED <<pc, holds, alarm, failures>>

(* The cycle returns, or the watchdog aborts it: the tick releases and then  *)
(* checks, the forced poll checks while it still holds the lock.             *)
AfterPoll(w) == /\ pc[w] = "polling"
                /\ Goto(w, IF w \in Ticks THEN "releasing" ELSE "checking")
                /\ UNCHANGED <<holds, fresh, alarm, failures>>
PollReturns(w) == AfterPoll(w)

(* A faulty watchdog switched off (poll_cycle_timeout_seconds = 0).          *)
WatchdogDisabled(w) == FALSE /\ UNCHANGED vars

(* A faulty watchdog whose abort leaves the lock's context without a finally.*)
WatchdogSkipsRelease(w) ==
  /\ pc[w] = "polling"
  /\ Goto(w, "checking")
  /\ UNCHANGED <<holds, fresh, alarm, failures>>

WatchdogFires(w) == AfterPoll(w)

(* The cycle raises: the lock's finally runs, the outer handler logs.        *)
PollRaises(w) ==
  /\ pc[w] = "polling"
  /\ Goto(w, "unwinding")
  /\ UNCHANGED <<holds, fresh, alarm, failures>>

AfterRelease(w) == Goto(w, IF pc[w] = "releasing" THEN "checking" ELSE "idle")
Releasing(w) == pc[w] \in {"releasing", "unwinding"}

(* A faulty unlock that counts down whether or not the session holds it.     *)
ReleaseUnmatched(w, s) ==
  /\ Releasing(w)
  /\ holds' = [holds EXCEPT ![s] = @ - 1]
  /\ AfterRelease(w)
  /\ UNCHANGED <<fresh, alarm, failures>>

(* pg_advisory_unlock on session s: it does nothing where there is no hold.  *)
Release(w, s) ==
  /\ Releasing(w)
  /\ IF holds[s] > 0
     THEN holds' = [holds EXCEPT ![s] = @ - 1] /\ UNCHANGED failures
     ELSE UNCHANGED holds /\ (IF Held THEN Lose(1) ELSE UNCHANGED failures)
  /\ AfterRelease(w)
  /\ UNCHANGED <<fresh, alarm>>

(* The release RPC raises, and is not tried again.                           *)
ReleaseFails(w) ==
  /\ Releasing(w) /\ Lose(1)
  /\ AfterRelease(w)
  /\ UNCHANGED <<holds, fresh, alarm>>

(* A faulty health check that compares the newest stamp with the threshold   *)
(* the wrong way round.                                                      *)
HealthCheckInverted(w) ==
  /\ pc[w] = "checking"
  /\ alarm' = (Held /\ fresh)
  /\ Goto(w, IF w \in Ticks THEN "idle" ELSE "unwinding")
  /\ UNCHANGED <<holds, fresh, failures>>

(* check_ingestion_health: a held lock while the stamps are stale is an      *)
(* alarm.                                                                    *)
HealthCheck(w) ==
  /\ pc[w] = "checking"
  /\ alarm' = (Held /\ ~fresh)
  /\ Goto(w, IF w \in Ticks THEN "idle" ELSE "unwinding")
  /\ UNCHANGED <<holds, fresh, failures>>

(* One of its reads raises: the check logs it and says nothing of the lock.  *)
HealthCheckFails(w) ==
  /\ pc[w] = "checking"
  /\ Goto(w, IF w \in Ticks THEN "idle" ELSE "unwinding")
  /\ UNCHANGED <<holds, fresh, alarm, failures>>

(* The newest stamp passes the stale threshold.                              *)
StampsAge ==
  /\ fresh
  /\ fresh' = FALSE
  /\ UNCHANGED <<pc, holds, alarm, failures>>

(* A replica dies, and its sessions in the pool outlive it; it boots again.  *)
Crash(r) ==
  LET dying == {w \in Workers : Replica[w] = r /\ pc[w] # "down"}
  IN  /\ dying # {}
      /\ Lose(Cardinality(dying \intersect Owners))
      /\ pc' = [w \in Workers |-> IF w \in dying THEN "down" ELSE pc[w]]
      /\ UNCHANGED <<holds, fresh, alarm>>
Boot(r) ==
  /\ \E w \in Workers : Replica[w] = r /\ pc[w] = "down"
  /\ pc' = [w \in Workers |-> IF Replica[w] = r /\ pc[w] = "down" THEN "idle" ELSE pc[w]]
  /\ UNCHANGED <<holds, fresh, alarm, failures>>

(* The pool recycles a session, or an operator terminates its backend.       *)
SessionEnds(s) ==
  /\ holds[s] > 0
  /\ holds' = [holds EXCEPT ![s] = 0]
  /\ UNCHANGED <<pc, fresh, alarm, failures>>

Starts(w) == \/ \E s \in Sessions : Acquire(w, s) \/ AcquireRefused(w, s) \/ AcquireAnswerLost(w, s)
             \/ AcquireFails(w)
Ends(w) == \/ PollReturns(w) \/ WatchdogFires(w) \/ PollRaises(w)
           \/ \E s \in Sessions : Release(w, s)
           \/ ReleaseFails(w) \/ HealthCheck(w) \/ HealthCheckFails(w)

Next == \/ \E w \in Workers : Starts(w) \/ PollStamps(w) \/ Ends(w)
        \/ StampsWithoutLock \/ StampsAge
        \/ \E r \in {Replica[w] : w \in Workers} : Crash(r) \/ Boot(r)
        \/ \E s \in Sessions : SessionEnds(s)

Spec == Init /\ [][Next]_vars

(* Fairness: the interval trigger fires and its tick gets through now and    *)
(* then, however often replicas are restarted; the watchdog fires on a cycle *)
(* that never returns; RPCs return or raise, and the reads of a tick's check *)
(* do not raise for ever; a dead replica is booted, and stamps that nothing  *)
(* renews grow old.  A cycle itself may hang.                                *)
Unhung(w) == \/ WatchdogFires(w) \/ (\E s \in Sessions : Release(w, s))
             \/ ReleaseFails(w) \/ HealthCheck(w) \/ HealthCheckFails(w)
FairSpec == /\ Spec
            /\ \A w \in Ticks : /\ SF_vars(Starts(w)) /\ SF_vars(Unhung(w))
                                /\ SF_vars(HealthCheck(w))
            /\ \A w \in Forces : WF_vars(Unhung(w))
            /\ \A w \in Workers : WF_vars(Boot(Replica[w]))
            /\ WF_vars(StampsAge)
-----------------------------------------------------------------------------
TypeOK == /\ pc \in [Workers -> Places]
          /\ holds \in [Sessions -> Nat]
          /\ fresh \in BOOLEAN /\ alarm \in BOOLEAN
          /\ failures \in 0 .. MaxFailures

(* One session at a time holds the lock, and every hold has a worker that    *)
(* will release it, except the ones a failure of the database or of the      *)
(* process cost its holder: each way out of a poll goes through the release, *)
(* and a tick's health check never counts that tick's own hold.              *)
HoldsAreAccountedFor ==
  /\ \A s, o \in Sessions : holds[s] > 0 /\ holds[o] > 0 => s = o
  /\ \A s \in Sessions : holds[s] <= Cardinality(Owners) + failures

(* Stale stamps are renewed while no holder of the lock polls.               *)
RenewedOutside == ~fresh /\ fresh' /\ \A w \in Workers : pc[w] # "polling"

(* A leaked lock does not go unnoticed (#350): if it is held and nobody      *)
(* polls under it, a health check reports it, or it goes away, or a poll     *)
(* runs again.  Only if the polls that need no lock stop renewing the        *)
(* stamps: while they do the check takes the leak for a poll in progress.    *)
LeakIsReported ==
  <>[][~RenewedOutside]_vars =>
    ((Held /\ Owners = {}) ~> (alarm \/ ~Held \/ Owners # {}))

(* A tick that polls lets the next tick of its replica start, even when its  *)
(* cycle hangs (max_instances=1 holds it back until then).                   *)
TicksRecover == \A w \in Ticks : pc[w] = "polling" ~> pc[w] = "idle"

(* "only one poll runs at a time across every replica" (_run_scheduled_poll).*)
OnePollAtATime == \A v, w \in Workers : pc[v] = "polling" /\ pc[w] = "polling" => v = w
=============================================================================
