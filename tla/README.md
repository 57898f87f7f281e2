# WyrdFold: specifications, model checking and proofs

TLA+ modules for the stateful core of the WyrdFold API
(`src/apps/wyrdfold-api/app`, called `app/` below), the TLC configurations that
check them on small instances, and theorems that TLAPS proves for all of them.
Every definition is translated from the code at the lines `PROJECT.json` names
under `map`.  The schema and the database functions are those of
`src/supabase/migrations`, at the last migration that defines each of them.

## 1. The system

WyrdFold polls public job boards, judges each posting against the *targets*
(roles) its users follow, and helps with applications.  One FastAPI process for
each replica serves the routes, runs an APScheduler job that polls, and runs
detached asyncio tasks; all durable state is in Postgres, reached through
PostgREST over pooled sessions.  There are no transactions across calls: a
route that makes three calls can be interleaved with anything, and can stop,
between any two of them.  LLM calls take seconds to a minute, so most races are
between a slow background task and a quick route.

| Component | State | Operations | Meets |
|---|---|---|---|
| Poll lock and poll jobs (`services/poll_lock.py`, `scheduler.py`) | a Postgres advisory lock, held by a *session* | acquire, release, watchdog, leaked-lock check | every replica, the session pool |
| Poll cycle (`services/poller.py`) | `last_polled_at` of each source, the batch and the slots of a cycle | read the due sources, cut, poll, stamp, watchdog | the lock, targeted polls, operators |
| Source health (`services/poller.py`, `source_redetect.py`) | `sources`: failure counts, enabled, disabled, retired | poll, record failure, re-detect, recover, park, operator's toggle | board APIs |
| Phase-1 triage coalescer (`services/relevance/triage_coalescer.py`) | per cycle: waiters and a debounce timer for each target, flush tasks | submit, timer, flush, drain | all sources of a cycle, the LLM, `llm_costs` |
| Memberships (`routers/targets.py`, `services/targets/*`, database functions) | `user_targets`: followed, active, fit score; existence of the shared `targets` row | follow, create or link, activate, swap, deactivate, delete, reap, idle sweep | several users of one row; detached fit scores |
| Activation (`routers/targets.py`, `services/targets/{from_input,crud,activation}.py`) | `activation_status`, `activation_error`, whether there is a profile | create or link, derive, activate pipeline, stalled sweep | memberships (the row may go), the poll of one target |
| Shared profile (`routers/targets.py`, `services/targets/{profile_writes,votes,merge}.py`, `services/llm_learner.py`) | `scoring_profile` and its version, `reference_jds`, votes, the learning log | add, contribute, delete, vote, merge, quarantine, review, learn, derive | all followers of a target, the LLM |
| Ledger buffer (`services/llm/cost_log_buffer.py`) | rows in memory | enqueue from threads, drain, insert, re-queue, stop | every LLM call; the budget reads the table |
| Job analyses (`services/run_registry.py`, `routers/analysis.py`, `services/analysis/*`) | runs in flight in memory, `analyses`, `llm_costs`, the ranking | POST, polling GET, detached run, expiry | the daily limit, restarts |
| Tailoring runs, budgets and breaker, account deletion | | | planned, section 5 |
| Everything else | postings, scores, documents, the web application | | section 7 |

What is hard in it:

* **Interleaving of requests and detached tasks.**  Two users create the same
  label at once; a fit score arrives after its membership was removed; a link
  commits while the reap of the same row waits for a lock; two merges of one
  profile are computed from different sets of reference JDs.
* **Stale reads.**  A learner works for a minute on a copy of a profile; a
  failure write is computed from the row its cycle read; a claim is checked
  after an await.
* **Cancellation.**  A source's wall-clock budget and the cycle's watchdog
  cancel coroutines that share an LLM call with others, and cut batches short.
* **Crashes.**  A process that dies leaves a status that says "deriving", a
  lock held by a session that lives on, a row that nobody will reap, a JD that
  nobody will merge.
* **Lost answers.**  The acquire or release of the lock, or an insert of ledger
  rows, may take effect without its caller knowing.
* **Limits.**  Plans cap active targets, triage calls take a bounded number of
  titles, a cycle takes a bounded number of sources, a buffer drops rows at its
  ceiling, a day has a limit of analyses that are only counted when they end.

What makes each component correct, with the name of the property that says so
(those marked + are proved and need no run):

* *Coalescer*: a waiter is always held somewhere that will answer it
  (`NobodyForgotten`, `EveryCallerAnswered`); it is answered about its own
  titles (`VerdictsAreOwn`); a billed call whose reply is used keeps its cost
  row through cancellations (`BilledCallsAreOwned`); nothing outlives its cycle
  (`CycleLeavesNothing`); no call is put together too large
  (`CallsFitTheCap`+); callers cannot tell it from un-coalesced triage
  (`DirectSpec`).
* *Memberships*: the cap holds (`ActiveCap`); memberships and their activity are
  exactly what the user asked for, but for a follow that a reap under way took
  (`NothingResurrected`, `NothingSwitchedOff`); stored scores stay
  (`ScoresKept`+); rows nobody can reach are reaped (`OrphansAreReaped`),
  sponsored ones never (`SponsoredStay`+).
* *Activation*: an in-flight status has somebody working on it
  (`InFlightIsOwned`); if that somebody is lost it does not stay so
  (`StrandedIsReclaimed`); an error says why (`ErrorHasReason`).
* *Poll lock*: every hold has somebody who will release it
  (`HoldsAreAccountedFor`); a leak is reported, once the polls that take no
  lock pause (`LeakIsReported`); a hung cycle does not stop the scheduler
  (`TicksRecover`).
* *Poll cycle*: a cycle that must choose does not let anybody overtake twice
  (`NoOvertaking`), and every due source gets its turn (`EverySourceRotates`).
* *Source health*: only an operator revives a retired source (`RetiredIsOff`+);
  nothing goes dark for ever by itself (`OffHasAWayBack`, `OutageEnds`); only
  rejections park a source (`ParkingIsEarned`), and a board that rejects every
  fetch and answers no probe is left alone in the end
  (`DeadBoardIsLeftAlone`).
* *Shared profile*: where profile and JDs disagree somebody is on the way to
  bring them together (`MergesAreOwned`); a patch takes nothing away but what a
  derivation wrote under it (`PatchesKeepTheRest`); what was rejected is not
  applied (`RejectedStaysOut`).
* *Ledger buffer*: no row disappears (`Accounted`) or is counted twice
  (`WrittenOnce`); the oldest go first (`OldestFirst`+); a full buffer wakes
  the task (`FullBufferWakes`); a stop flushes (`StopLeavesNothing`); rows get
  to the table in the end (`RowsGetWritten`); all this is what a bounded queue
  promises (`BoundedLedgerSpec`).
* *Job analyses*: a poll never waits for a run that is not there
  (`ClaimHasARun`); a key runs once at a time (`OneRunPerKey`); a burst does not
  pass the limit (`DailyLimitHolds`); analyses land (`AnalysisLands`); and a
  record that the ranking lacks has a run that will blend it, or a named reason
  why not (`RankingIsOwned`).

## 2. Modules

| Module | Models | Extends / uses |
|---|---|---|
| `TriageRequests` | abstract: un-coalesced triage as one caller sees it | |
| `TriageCoalescer` | the coalescer and the end of its cycle | implements `TriageRequests` |
| `Memberships` | `user_targets` and the existence of `targets` rows | |
| `Activation` | the lifecycle columns of one `targets` row | |
| `SharedProfile` | the profile of one target, its reference JDs, votes and patches | |
| `PollLock` | the advisory lock, its two callers, crashes, sessions | |
| `PollQueue` | who a cycle polls, and the stamps | |
| `SourceHealth` | the health columns of one `sources` row | |
| `BoundedLedger` | abstract: rows behind a bounded queue | |
| `LedgerBuffer` | the buffer, its task, `stop()` and deaths | implements `BoundedLedger` |
| `RunRegistry` | the registry of runs in flight | |
| `AnalysisRuns` | analyses of one user | extends `RunRegistry` |
| `PollCycle_proofs` | the theorems of `PollLock` and `PollQueue` | both |
| other `*_proofs` | the theorems of the module they are named for | that module |
| `MC*` | the instances TLC checks | that module |

Operators whose comment begins "A faulty ..." are not part of any
specification: each is a plausible bug of the definition after it (several are
bugs the repository's history names), and a run has to find its property broken
when the definition is replaced by it.

How the models fit together: `PollLock` says when cycles run, `PollQueue` whom
they poll and `SourceHealth` what a poll does to its row; in `PollQueue` the
end of a poll may disable its source and a read may recover one, which is all
it needs of `SourceHealth`, and its fairness of `Read` rests on `TicksRecover`.
`TriageCoalescer` is the inside of one cycle.  `Memberships` decides whether a
`targets` row exists, which `Activation` takes as `Reaped`; `SharedProfile` is
about a row that exists, and a request that has lost it ends as `Fails`.
`LedgerBuffer` is a queue in front of a table that `AnalysisRuns` writes to
directly, as its code does.

### TriageCoalescer

`pending`, `timer` and `flushing` are the fields of the class: the buffer of
each target, the armed debounce timers, and the set `_flushing` of tasks, each
with the groups it has left and whether it awaits the LLM or its cost row.
`status`, `size` and `verdicts` are the callers' futures.  `Submit` is the
synchronous body of `submit`, up to its await; `TimerFires` is `_spawn_flush`;
`CallAnswers`, `CallFails`, `CallMalformed` and `Resolve` are the segments of
`_run_group` between its awaits: the call gives a reply, is never billed, or is
billed for a reply that `complete_json` cannot use; `GroupDone` is the loop of
`_flush`.  A title is the pair of its caller and its index, so that a verdict
says whom it is about and the slicing of a merged reply can go wrong.  The loops
of the code are recursive functions on the number of turns: `Totals` are the
running sums behind `title_count` and the offsets of `_run_group`, `Cuts` what
`_chunk_waiters` has after each waiter, with `Put` the body of its loop.
`CancelCaller` is the budget of `_poll_one_source_budgeted`, `WaitExpires` the
`max_wait` of `submit`, `WatchdogFires` and `WatchdogFiresInDrain` the cycle
watchdog of `scheduler.py` before and during the `drain` in `_cycle_coalescer`'s
`finally`.  `cost` and `judged` are history: what became of each call's row
("unlogged" after `CallMalformed`, which tries none), and which titles the model
returned a verdict for.

`DirectSpec` is the refinement: with `size`, `status` and `verdicts` as they
are, every step is a step of `TriageRequests` or changes nothing a caller sees.

### Memberships

`links`, `active` and `scored` are the rows of `user_targets`, `exists` the
labels with a row in `targets` (a label is normalised and unique).  One action
is one database transaction.  A request that makes several is a record in
`tasks`, which holds its stage and whether the row whose id it holds is still
there (`live`); a row created again under the same label has another id.
`RequestFollow`, `RequestPosting`, `RequestLink` are the catalog match and
advisory cap check of the flows in `from_input.py` and `routers/targets.py`;
`Attach`, `Create`, `CreateActive` and `AttachActive` their writes; `Enable` is
the database function that all activations end in, with the count under the
per-user lock (`Room`); `StoreFitScore` is the late write of the detached fit
score.  `DeleteTarget` is the first of two calls and `ReapSnapshot` and
`ReapDelete` the second: the two halves of one SQL statement are separate
because a DELETE that waits for a row's key-share lock does not evaluate its
NOT EXISTS again.  `chosen` and `chosenActive` are history: the user's own
wishes, changed only by the user's own actions and the idle sweep, and never by
the reap, whose cascade takes `links`, `active` and `scored` alone.  `raced` is
history too: what a user followed while it was `Doomed`, past the snapshot of a
reap; those of them that have no row are `Lost`.  `strays`
are rows whose reap failed or died, or that an operator made bare.

### Activation

One row is enough: the columns of different targets share nothing.  The stages
of a task are the awaits of `derive_manual_target_bg`, `derive_url_target_bg`,
`_activate_pipeline` and the from-posting route.  `Settling` stages still have
a status to write whatever happens, `Trailing` ones only if they fail.
`WriteStatus` is `build_update_fields`; `ConflictRow` and `Sweep` are the two
writers that do not go through it.  `stale` says that `updated_at` is older
than the sweep's cutoff, `abandoned` is history: the status is in flight and
the task that would settle it is gone.  `Reaped` is the deletion that
`Memberships` explains.

### SharedProfile

A profile is the set of what went into it: reference JDs, learned patches, or
the label alone.  `present` and `suppressed` are the rows of `reference_jds` and
their flag, `down` and `up` the votes, `log` the status of the learning-log row
of an item.  A request is a record: its `kind` (the route or background flow it
is), the `item` it is about, the call or LLM answer it is `at`, and the profile
it will write (`list`).  The version column is not a number but what the
database functions use it for: `fresh` says that the version a request expects
is still that of the row.  `Write` and `Conflict` are the two answers of
`apply_target_profile_merge` and `apply_target_profile_patch`, `RawWrite` the
writes of derivations, which neither check nor change the version; `overtaken`
marks a request whose expected version still matches although such a write came
in between.  `AddStarts`, `ContributeStarts`, `DeleteStarts`, `VoteStarts`,
`LearnStarts`, `ApplyStarts` and `DeriveStarts` begin the routes and flows;
`Insert`, `Remove`, `Count`, `ReadTarget`, `List`, `Quarantine`, `Stage`,
`Learned`, `Lift` and `LogApplied` are their later calls.  `adrift` and
`unlogged` are history, and name exactly the circumstances in which the code
leaves a JD unmerged or a patch unlogged: each is entered by name, and a JD
leaves `adrift` as soon as the profile is right about it.

### PollLock

`pc` places each worker: the scheduler's job of a replica (at most one at a
time, `max_instances=1`) or a forced poll.  `holds` counts the advisory lock of
each pooled session, which is re-entrant.  An RPC runs on any session:
`Acquire` and `Release` choose one.  `AcquireAnswerLost` is a grant whose answer
does not arrive, `Release` on a session without a hold and `ReleaseFails` leave
a leak.  The cycle may return, raise, be aborted or hang; a tick releases and
then checks the health, a forced poll checks while it holds, and either check
may swallow an exception and report nothing (`HealthCheckFails`).  `fresh` says
that some source was stamped within the stale threshold, by a holder
(`PollStamps`) or by a poll that takes no lock (`StampsWithoutLock`: that of an
activated target, and `POST /poll/due`), and `alarm` what the last health check
reported of the lock.  `failures` counts the holds that lost their
holder.

### PollQueue

`older[s]` is the set of sources with an earlier `last_polled_at` than `s`, and
`resting` those whose interval has not passed: the order and the comparison are
all the code uses of a time stamp, and they keep the model finite.  `Read` is
the start of `poll_due_sources`: recovery, the read of the enabled rows, the
filter on paid sources, `_is_due`, and, over the cap only, the sort and the cut.
Below the cap the batch has the order of the read, which is any.  `Start` is the
semaphore; `Polled` is every end of a poll that stamps (clean, failed, out of
budget), `Unstamped` those that do not (no fetcher, a refused write). `Watchdog`
cuts a cycle short once its first wave is over, because the budget of one source
is well under the watchdog's; `Restart` may come at any time. `PollForTarget` is
the poll of an activated target, which stamps sources that are not in its cycle,
as those of `POST /poll/due` do.  `passed` is history: who was polled since a
source began to wait.

### SourceHealth

`enabled`, `failures`, `disabledAt`, `rounds` and `retired` are the columns
`enabled`, `consecutive_failures`, `disabled_at`, `auto_disables` and
`retired_reason` of one row.  `poll` is the poll in flight with the copy of the
row its cycle read: `StartPoll` takes the copy, `CleanPoll` and `PollFails` are
the ends of `_poll_one_source`, `Probe` and `Repoint` the outcomes of
`_redetect_before_disabling`, and `Record` is the one write of
`_record_source_failure`, computed from the copy.  `Recover` is
`recover_stale_sources`, which runs before a cycle reads its rows.  The
operator's toggle reads (`ToggleReads`) and then writes the opposite of what it
read (`ToggleOff`, `ToggleOn`), with anything in between.  `board` is what the
company's board does to the fetch of a poll and to the light request of a probe
(an "answering" one serves the second and not the first) and `cooled` the memo
of a probe that answered.
`operatorOff` and `strikes` are history: the operator's last word, and the
disabling rounds since the last fresh start in which the board itself rejected
the poll.  One poll at a time is `PollLock`'s intent; where two cycles run at
once, since the lock lets both through (`poll_twice`) or one is that of
`POST /poll/due`, this module does not apply.  `failures` and
`rounds` are only compared with their limits, so they stop there.

### LedgerBuffer

Rows are numbers in the order of their arrival.  `rows` is `_rows`, under the
lock; `batch` and `start` the list that the flush in progress drained and the
place of the chunk it is inserting; `task` what the background task, and after
it `stop()`, is doing.  `wakeup` is the event and `nudged` a
`call_soon_threadsafe` that is on its way to set it.  `Enqueue` is
`_append_locked` with its ceiling and the nudge, from any thread and at any
time; `Wake` is the end of `wait_for`, by the event or the timeout, with the
clear and the drain; `InsertOk` and `InsertFails` are the answers of one chunk,
the latter with `_requeue`, and with a commit whose answer was lost; `Stop` and
`Close` are the two halves of `stop()`; `Exit` is a death of the process, or its
end.  `ledger` counts the table's copies of each row.  `dropped`, `lost`,
`doubtful`, `failed`, `looked` and `asked` are history.

`BoundedLedgerSpec` is the refinement: with what memory holds as `waiting` and
the table as `written`, every step is a step of a bounded queue that writes in
order, gives up only rows with a full buffer of newer ones behind them, and
writes again only what it could not know to be written.

### RunRegistry and AnalysisRuns

`runs` is `_runs`: what each key's entry says; `stale` the running entries past
`running_ttl_s`, which are there until something sweeps.  `Begin`, `Finish`,
`Fail`, `Sweep` and `IsRunning` are the methods; `is_running` is the one that
does not sweep.  An error past `error_ttl_s` is dropped at once, since the one
read that does not sweep takes an error for no entry.

`at[r]` is the await that a POST, and later the detached task it started, is at.
`View` is the POST that finds a stored record and blends it into the ranking (a
GET that finds one changes nothing), `Post` the one that finds none; `Join` and
`Claim` are the synchronous step after that await; `Count` and `Refuse` the
limit, `Detach` the loads and the hand-over; `Answer`, `Persist`, `Fails`, `Log`
and `Done` the task; `Poll` the GET.  `others` is `other_in_flight`, taken when
the key is claimed and used when the rows are counted.  `before` is history that
only the proof needs: the runs that claimed earlier and still run; `unguarded`
is history: keys whose run went on without an entry, because it outlived its
time to live or the table was full; `unranked` the stored records whose run has
left the ranking as it was.

## 3. Runs

| Run | Instance | Shows |
|---|---|---|
| `triage` | 3 callers on 2 targets, at most 2 titles a call; 406k states | packing, slicing, cost rows, the end of the cycle, that everybody is answered, refinement of `TriageRequests` |
| `memberships` | 2 users with a cap of one, an ordinary and a sponsored target, 2 tasks; 612k states up to symmetry | wishes and rows agree but for the follows a reap took, the cap holds, orphans are reaped, under failures and restarts |
| `activation` | 3 tasks on one row; 395k states | the lifecycle, lost tasks and the sweep |
| `shared_profile` | 2 requests at a time over two JDs or a JD and a patch, 1 voter; 1.24M states | merges, votes, quarantine, review, patches and derivations against each other |
| `poll_lock` | 2 replicas, a forced poll, 2 sessions, 2 failures; 10k states | holds, leaks, alarms, hung cycles |
| `poll_queue` | 3 sources, one without a fetcher and one paid, cap 2, one slot; 14k states | the order of a cycle and the turn of every source |
| `source_health` | threshold 2, parking after 1 recovery; 15k states | outages, dead boards, retirement and parking under polls, recoveries and toggles |
| `ledger_buffer` | 5 rows, ceiling 3, early flush at 2, chunks of 2, one lost answer; 96k states | rows, wakeups, stop and retries, refinement of `BoundedLedger` |
| `analysis_runs` | 2 keys, 2 requests, limit 2, one trouble; 138k states | claims, the limit, errors, the ranking, expiries and restarts |
| `poll_twice`, `source_toggle`, `quarantine_vote` | as small as the disagreement allows | a sentence of the code's own comments that the code does not keep (section 6) |

Bounds, and why they are enough:

* *Triage.*  Two callers of one target is the least that shares a call, a third
  on another target the least that shares the cycle but not the call.  With two
  titles a call and one or two a caller (`MostTitles`) a buffer may be under, at
  and over the cap, so `Chunk` cuts.  A caller submits once: the poller's
  sources do.
* *Memberships.*  The interference is pairwise: one user removes or activates
  what another, or an older task of the same user, is writing.  The two targets
  let one user's two activations meet a cap of one, and a swap exchange them.
  Symmetry is sound: no liveness, both users have the same cap, and users and
  tasks are interchangeable.
  The theorems carry the safety properties to any number.
* *Activation.*  Every pair of writers is there with two tasks, and a third lets
  a new request meet the leftovers of two; sweep, reap, restart and merges need
  no task.
* *SharedProfile.*  Two requests are the least that race; `Mixes` says which
  items come up together: two JDs (merges that leave each other out) or a JD
  and a patch.  Each item is added or learned once.  With one voter and a
  quorum of one every flip of the flag is there; an up-vote then does no more
  than taking a vote back, so `Ballots` leaves it out, and `quarantine_vote` has
  two voters and all ballots.  Symmetry is sound: no liveness, and requests and
  JDs are interchangeable.
* *PollLock.*  Two sessions separate "held here" from "held elsewhere"; two
  replicas and a forced poll give every pair of callers; `MaxFailures` bounds
  leaks only, and two leaks can stack on one session.
* *PollQueue.*  Three sources for two places leave one out, so the cut chooses;
  one place is taken by a source that is never stamped, the worst that the
  premise of `EverySourceRotates` admits; one slot makes the second wait for
  the first.  `NoOvertaking` is proved for any of these numbers.
* *SourceHealth.*  A threshold of 2 has a failure below it and one at it, one
  recovery before parking has a round that counts and one that parks; the
  counters have no other thresholds, and the theorems carry the invariants to
  any of them.
* *LedgerBuffer.*  A ceiling of 3 is two chunks, one of them short; five rows
  fill the buffer while a full list is being flushed, so that a re-queue evicts;
  `MaxDoubts` bounds lost answers, and the rules for one row are those for
  all.  The theorems have no bounds but `Arrivals`, which is any number.
* *AnalysisRuns.*  Two keys and two requests give two runs of one key and two
  runs under one limit; a limit of 2 is below, at and past it.  With two keys
  the ceiling `MaxEntries` does not bite in TLC; the proofs cover tables of any
  size.  `MaxTroubles` bounds what only makes things worse: a run that outlives
  its entry, a cost row that fails, a restart.
* The deadlock check is off in `triage`, where a cycle that is closed is over,
  and in `shared_profile` and `quarantine_vote`, where each item is used once
  and no request need come after the last.

Fairness:

* *Triage*: the event loop runs due timers and ready tasks, and every LLM call
  and cost write returns or raises, as both clients have timeouts.  Nothing is
  assumed of callers, budgets, the watchdog or `max_wait`.
* *Memberships* and *SharedProfile*: none.  Their properties are safety, and
  requests need not happen.
* *Activation*: the sweep keeps running (a step of the poll cycle) and rows
  nobody writes to grow old.  Nothing is assumed of tasks.
  `StrandedIsReclaimed` has a premise about users, `QuietRow`: any write
  touches `updated_at`, so a row written to for ever is never stale.
* *PollLock*: strong fairness of a replica's ticks, since a restart interrupts
  them and they get through now and then all the same, and of their health
  checks, whose reads do not raise for ever; weak fairness of booting and
  ageing; a cycle may hang, and only the watchdog (which is on by default) is
  fair.  `LeakIsReported` has a premise about the polls that take no lock: from
  some time on they renew no stamps that have gone stale while nobody polls
  under the lock.  As long as they do, the check takes a leak for a poll in
  progress.
* *PollQueue*: ticks come (this is `TicksRecover`), slots that are free are
  taken, polls end (each has a wall-clock budget) and intervals pass.
  `EverySourceRotates` states its premises: fewer sources without a fetcher
  than a batch has places (any more would block every batch); from some time on
  no restarts, no refused stamps and no targeted polls (`Quiet`); and cycles
  are either let to finish or always have more due than they take (`Drains`),
  since a batch that is not cut is not sorted either, and its tail may be lost
  to the watchdog each time.
* *SourceHealth*: cycles keep coming and the clock advances (weak fairness of
  `StartPoll`, `Recover`, `Age`, `CooldownEnds`); a poll is not cut short at
  the same stage every time (strong fairness of its stages), since its budget
  is minutes and the watchdog and restarts are rare.  Nothing is assumed of
  boards and operators: `DeadBoardIsLeftAlone` has them as premises.
* *LedgerBuffer*: the lifespan starts the task, the loop runs callbacks, the
  wait has a timeout and inserts return or raise.  `RowsGetWritten` has the
  premise that the database accepts an insert again and again.
* *AnalysisRuns*: the tasks and requests of the event loop go on, calls and
  writes return or raise, and the client whose POST found nothing asks again
  (strong fairness of `Post`).  `AnalysisLands` has the premise that calls stop
  failing some day.

## 4. Theorems

All are proved for any constants that meet the named assumptions, which TLC
evaluates in the runs: a finite set of targets with the sponsored ones among
them and a cap that is a natural number for each user; finitely many workers,
ticks and forced polls apart, and a natural `MaxFailures`; a positive threshold
and parking limit; finitely many sources, any cap and a positive number of
slots; positive sizes of buffer and chunk; finitely many keys, requests and
voters, a positive limit and quorum; JDs and patches apart; a positive batch
size, callers that each have a target and bring at most a batch, as
`phase1_batch_size()` cuts them to.  `Activation` assumes nothing of `Tasks`,
and the coalescer nothing of how many callers and targets there are.

* `TriageCoalescer_proofs`: `TypesHold`, `NobodyIsForgotten`, `VerdictsGoHome`,
  `BillsHaveTasks`, `NothingIsLeft`, the refinement `Refinement` of
  un-coalesced triage, and `CallsAlwaysFit`: no call exceeds what
  `triage_titles` takes, which would raise.  Two layers of lemmas carry them.

  The first says what the loops compute.  The library's induction theorems take
  an operator, which the provers cannot instantiate, but
  `FS_StrictSubsetOrderingWellFounded` takes none: if a set held 0, and k
  whenever it holds k - 1, but not all of `0 .. N`, there would be a least
  `0 .. x` with x outside it.  This is `Induction`; with it `Recursion` (a
  recursive function on `0 .. N` exists) gives `TotalsDefined`, `FlattenIsFold`
  and `CutsDefined`.  `TitlesPlaced` then says where a waiter's titles stand in
  a merged call, `SliceIsOwn` that cutting a reply there and moving the cut back
  gives each waiter its own verdicts, and `ChunkPacks` that the groups hold each
  waiter once, drop nobody and fit the batch.

  The second is the invariant.  A waiter has one place at most: one position of
  one buffer, or of one group of one task (`BuffersOK`, `PlacesOK`), and one at
  least while it waits (`WaitersOK`).  A title is judged only once its caller's
  call has an answer, and while the answer is being handed out it is judged if
  and only if it is in the reply (`RepliesOK`).  `VerdictsAreOwn` is not
  inductive without that: it has to be known that no later call judges more
  titles of a caller that was served.  That needs places to be unique, and so
  that `Chunk`, when a buffer is flushed, repeats nobody.  `BillsOK` says only
  that a billed call has a task; that it has just one is uniqueness again.
  `BillsHaveTasks` is about calls whose reply is used: one that was billed for a
  malformed reply is unlogged from then on.  In
  the refinement, `TriageRequests` chooses for each caller the titles in
  `JudgedOf`.
* `Memberships_proofs`: `MembershipsTypeOK`, `CapHolds`, `NothingIsResurrected`,
  `NothingIsSwitchedOff`, `SponsoredAlwaysStay`, `OrphansAreAlwaysReaped`, and
  the action property `ScoresAreKept`. The invariant is the conjunction of
  these, of `HasRow` and of `LateOnly`. `HasRow`: a task that holds a live id
  holds the id of a row that exists.  It is needed because the foreign key, and
  so the type of `links`, rests on it: without it a follow could link a row that
  is gone.  `LateOnly`: whoever is linked to a row that a reap is past the
  snapshot of has followed it since, so that what the cascade takes is in
  `raced` and nobody else's membership goes.  `ActiveCap` rests on
  `RoomMeansRoom`, which turns the count of the *other* active targets below the
  cap into a count within it.
* `Activation_proofs`: `ActivationTypeOK`, `ErrorAlwaysHasReason`,
  `InFlightAlwaysOwned`.  `InFlightIsOwned` is not inductive without
  `LiveTasksHaveRow`: a task with a live id on a row that is gone would write
  a status where there is no row.  The argument: whoever writes an in-flight
  status goes on in a `Settling` stage, and a task leaves `Settling` only by
  writing a settled status or by being lost.
* `SharedProfile_proofs`: `ProfileTypes`, `MergesOwned`, `PatchesAddOnly`,
  `RejectedPatchesStayOut`. The invariant of `MergesOwned` has two halves.
  Where the profile and the rows differ about a JD, somebody owns it or it is
  adrift; and where a request with the right version is about to write something
  wrong about a JD, somebody *else* owns it or it is adrift.  Neither is
  inductive alone: a write makes the first true from the second, and a read of
  the version makes the second from the first.  `PatchesAddOnly` needs that a
  patcher with the right version, not overtaken, still has the whole profile in
  its copy; an overtaken one passes the version check too and does not, which
  the theorem leaves out by name.  The last one rests on `Logs`: a patch is
  learned once, by a request that has it to itself, so that any other request
  can carry it only in a copy of a profile it was written to; and by then the
  log knows of it, is about to, or its request died.
* `PollCycle_proofs`, the lock: `PollLockTypeOK`, `HoldsAlwaysAccountedFor`.
  The invariant is their conjunction.  The argument is arithmetic: an acquire
  adds one hold and one owner, a release takes one of each or spends a failure,
  and a crash takes owners and spends as many failures; `OneMore` and `OneLess`
  are the lemmas on cardinality it rests on.
* `PollCycle_proofs`, the queue: `QueueTypes`, `NobodyOvertakenTwice`.  The
  invariant adds that whoever was polled since a source began to wait has a
  later stamp than it (`PassedIsYounger`), and that in a batch that was cut a
  source stands behind all those it has passed (`InTurn`); so the head of the
  batch, the next to get a slot, has passed nobody.
* `SourceHealth_proofs`: `SourceHealthTypeOK`, `RetiredAlwaysOff`,
  `AlwaysAWayBack`, `ParkingAlwaysEarned`.  `ParkingIsEarned` is not inductive:
  the failure write decides from the poll's copy, so the invariant adds
  `RoundsWereStrikes` (the rounds in the row, and in the copy, were all
  rejections) and `PolledIsNotRetired`, without which a clean poll would forget
  the strikes of a row that stays retired.
* `LedgerBuffer_proofs`: `TypeCorrect`, `RowsAccounted`, `OldestGoFirst`,
  `RowsWrittenOnce`, `WakeupIsNotLost`, `StopFlushes`, and the refinement
  `ImplementsBoundedLedger`.  `Books` is the
  conjunction of the accounting properties with the order of `Memory`, because
  "no row twice" needs that the list has none twice and that a new row is later
  than all of it; `Awake` adds what is known of the event while a flush runs;
  `Shut` what the task, and then `stop()`, has drained at each stage of an end.
  The refinement has a lemma for each action of `BoundedLedger`; that a row may
  be given up there is an injection of the full list into the rows newer than it
  (`GivenUp`).
* `AnalysisRuns_proofs`: `AnalysisTypes`, `NoPhantomRuns`, `NoDoubleRuns`,
  `RankingFollows`, `LimitNotPassed`.  The last is the deepest: a request counts
  claims at one moment and rows at a later one, so the invariant speaks of the
  queue of runs by the time of their claims (`before`, a strict total order on
  what runs): each run past the gate sees, in the runs ahead of it and the rows
  written, less than the limit.  A run that ends turns from one into the other,
  and the last of the queue bounds them all.

Each proof has a lemma for each group of actions, one lemma collects them, and
the temporal step is one use of `PTL`.

Model-checked only: liveness under fairness, which is out of the prover's reach
(`EveryCallerAnswered`, `StrandedIsReclaimed`, `LeakIsReported`, `TicksRecover`,
`EverySourceRotates`, `DeadBoardIsLeftAlone`, `OutageEnds`, `RowsGetWritten`,
`AnalysisLands`).  Every invariant and every action property
that a passing run checks, and both refinements, are proved.

## 5. Plan

What is left, the most important behaviour first:

1. `TailorRuns`: tailoring on `RunRegistry`, under a limit of concurrent runs,
   with a poll that tells a run from its predecessor's row.
2. The budget gate: a check that reads spend which is logged only when the call
   returns, over `LedgerBuffer`'s delay; spend exceeds a budget at most by what
   was in flight and in the buffer.
3. Account deletion, whose cascade removes memberships past the route that
   reaps, in a composition of `Memberships` with `Activation` through the row
   they share, in place of `Reaped`.

## 6. Where the code and its words differ

Three runs end in a violation.  Each checks one sentence of a comment or
docstring, quoted under `findings` in `PROJECT.json`:

* `poll_twice`: the advisory lock is re-entrant, so two workers whose calls run
  on one pooled session both hold it.
* `source_toggle`: the toggle leaves the stamp of an earlier automatic disable,
  and the failure write of a poll in flight sets it on a row switched off
  meanwhile; either way recovery turns on a source that an operator turned off.
* `quarantine_vote`: the count of votes sets the flag whatever set it before, so
  the first vote on a quarantined JD, even a down-vote below the quorum, lifts
  the quarantine and the handler merges the JD.

Others are in the models, or beside them, without a run of their own.  Where a
property makes an exception for one, its comment names it.

In the triage, poll and source code:

* A watchdog that fires while `drain` awaits cancels calls that were billed, and
  their rows are never written (`WatchdogFiresInDrain`; the docstring of
  `triage_coalescer.py` promises one row for each call).
* A call that is billed for a reply which fails validation has no row either
  (`CallMalformed`): `complete_json` raises after the provider's answer,
  `triage_titles` returns `({}, None)`, and `_run_group` records nothing, where
  lines 37-38 of `triage_coalescer.py` promise exactly one row for each real
  call.
* A cycle that raises takes its tick past the health check (`PollRaises`;
  `scheduler.py` says that it runs on every tick).
* A batch under the cap is not sorted, so the same tail may be lost to every
  watchdog (the premise `Drains`); the poll of an activated target stamps
  `last_polled_at` of sources it polled for one target only, and postpones their
  full poll (`Quiet`); as many enabled sources without a fetcher as a batch has
  places would block every batch; with the threshold switched off failing
  sources are not stamped either.
* `POST /poll/due` (`routers/poll.py`) runs a cycle without the lock and without
  the watchdog.  Its stamps, and those of the poll of an activated target, keep
  the newest stamp fresh while a leaked lock stops every scheduled cycle, and so
  mute the alarm that is there to tell of it (`StampsWithoutLock`).
* A health check that raises is logged as such and says nothing of the lock
  (`HealthCheckFails`).
* A source whose probe answers while its fetch fails every time is never
  disabled and never parked: each round that would disable it is suppressed
  (`Probe` with an "answering" board; `source_redetect.py` lines 83-91 want it
  so, and put up with the failing polls).
* The operator's toggle clears the rounds for a fresh start
  (`routers/sources.py` lines 93-95), but a poll that is under way still writes
  what it computed from its copy, and so may park the source in that start
  (`strikes` then keeps those of before).

In the code of targets:

* A link that commits while the reap's DELETE waits is removed by the cascade
  (`ReapSnapshot`, `ReapDelete`): its user has followed the target, was told so,
  and has no membership (`Lost`), where lines 49-50 of
  `20260809100000_reap_orphaned_targets.sql` say that it cannot slip in.
* A lost create race leaves the reason of an earlier error on a row that is
  deriving again (`ConflictRow`; `crud.py` says that a status that is not an
  error clears it).
* The flows of `from_input.py` discard `_was_created`: the loser of a create
  race derives the row that another request created, and is deriving, once more
  (`CreateDeriving`).

In the shared profile:

* A JD is inserted with the flag off and flagged only after its merge was
  judged, so another merge in between includes it, although
  `routers/targets.py` calls it suppressed at birth.
* A merge rebuilds the profile from reference JDs alone, and so drops the
  learned patches and the derivation from the label.
* A derivation writes the profile and leaves its version, so a patch computed
  before passes the version check and erases it (`overtaken`), where lines 18-22
  of `20260703090000` say that a patch computed against a stale profile never
  clobbers a newer one.
* After two conflicts a stored JD stays unmerged until the next merge
  (`adrift`); an approval lifts the flag after its merge, so a merge in between
  leaves the JD out again; whoever contributed a JD may approve its merge.
* Two simultaneous approvals apply one staged patch twice, since the status is
  checked before the write and logged after it; a learner that dies between
  the two is run again (`unlogged`).

In the analyses:

* A POST reads the cache, and asks the registry one await later: a run that
  finished in between is paid for again (`Post`, `Claim`), where `begin` of
  `run_registry.py` promises no double spend and `analysis/persistence.py` that
  the LLM runs at most once.
* `analysis/run_registry.py` calls the timeout of the LLM far shorter than the
  300 s of `running_ttl_s`; `config.py` has it at 600 s, so a run may outlive
  its entry (`Expire`).
* With one analysis left of the day, two POSTs at the same moment may both be
  refused: each counts the other's claim.
* The GET's docstring says that a record it returns is already in the ranking;
  the GET reads the record, which is stored before it is ranked (`Persist`,
  `Done`).  If the blend fails, or the process stops before it, the GET goes on
  returning a record that is not ranked, for as long as no POST asks for it
  again (`unranked`).

## 7. What is not modelled

Of modelled parts:

* Memberships: changes of plan (`Cap` is a constant), the hard ceiling on
  memberships, an operator's change of `app_active`.
* Shared profile: the weights inside it and the search keywords written with
  it, the cap of contributed JDs, the recomputation of postings after a merge.
* Triage: prompts and replies beyond which title a verdict is about, cost
  amounts, more than one submission for each caller.
* Sources: adding and removing a row, switches that turn a mechanism off (no
  threshold, no re-detection, no recovery, no parking), the length of
  intervals, and the work of a cycle beyond its stamps and triage.
* Ledger: amounts.  Analyses: the text, and the budget in front of the route.
  Requests are taken to run to their end or to raise: the server does not
  cancel a handler whose client has left.
* Retries inside `db_write.py`: the statements are idempotent, and a call is
  taken as its final outcome.

Whole parts: tailoring runs, the budget and breaker, and account deletion
(planned); scoring, qualification, tagging, embeddings and recency, which are
functions of one posting; board fetchers, parsing, rendering and mail, which
are I/O; billing, which mirrors an external service and enters as the cap it
results in; alerts and the career conversation, whose rows have one writer;
the web application and the evaluation scripts, which present or measure what
the API does.  Most lines of the repository are of this kind: prompts, parsing
of foreign formats, scoring of text, response shapes and pages.  They have no
state that two actors change and no order of steps that could go wrong, so
tests reach them and a model would repeat them; the lines that the map names
are those where a step of another actor, a crash or a lost answer matters.
