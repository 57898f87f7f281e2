------------------------------ MODULE PollQueue ------------------------------
(* Who gets polled (poll_due_sources of services/poller.py): a cycle reads   *)
(* the enabled sources, takes the most overdue of those that are due, polls  *)
(* them a few at a time, and stamps last_polled_at on each as it is done; a  *)
(* watchdog may cut the cycle short.  The stamp decides both whether a       *)
(* source is due and where it stands in the next batch.                      *)
EXTENDS Naturals, Sequences, FiniteSets, SequencesExt

CONSTANTS
    Sources,
    Unknown,        \* sources whose provider has no fetcher: never stamped
    Paid,           \* crawl sources, not polled while no target is active
    Cap,            \* poll_max_sources_per_cycle, 0 for none
    Concurrency     \* POLL_CONCURRENCY

ASSUME QueueAssumption ==
    /\ IsFiniteSet(Sources)
    /\ Unknown \subseteq Sources /\ Paid \subseteq Sources
    /\ Cap \in Nat /\ Concurrency \in Nat \ {0}

VARIABLES
    enabled,        \* the enabled rows
    older,          \* the sources with an earlier last_polled_at than each
    resting,        \* the sources whose interval has not passed
    wanted,         \* whether a target is active
    batch,          \* the sources of the cycle that wait for a slot
    polling,        \* those that have one
    first,          \* those of the first wave that are not done
    capped,         \* whether the batch was cut at Cap, most overdue first
    passed          \* history: who was polled since a source began to wait for a slot

rows == <<enabled, older, resting>>
cycle == <<batch, polling, first, capped>>
queueVars == <<rows, wanted, cycle, passed>>

\* _is_due of a row that a cycle would take.
Waits(s) ==
    /\ s \in enabled \ resting
    /\ wanted \/ s \notin Paid

QueueInit ==
    /\ enabled = Sources
    /\ older = [s \in Sources |-> {}]
    /\ resting = {}
    /\ wanted = TRUE
    /\ batch = <<>> /\ polling = {} /\ first = {} /\ capped = FALSE
    /\ passed = [s \in Sources |-> {}]

\* Only a source that waits remembers who went before it.
Remember(t) ==
    passed' = [s \in Sources |-> IF ~Waits(s)' THEN {}
                                 ELSE IF t = s THEN passed[s]
                                 ELSE passed[s] \union {t}]
Forget == passed' = [s \in Sources |-> IF Waits(s)' THEN passed[s] ELSE {}]

Stamp(s) ==
    /\ older' = [t \in Sources |-> IF t = s THEN Sources \ {s} ELSE older[t] \ {s}]
    /\ resting' = resting \union {s}

-----------------------------------------------------------------------------

\* The orders in which the rows of S may have been read.
Orders(S) == SetToSeqs(S)

\* A faulty cut, in the order of the read.
FirstRead(S, n) == {SubSeq(q, 1, n) : q \in Orders(S)}

\* Batches of the n most overdue of S, never polled at the very front.
MostOverdue(S, n) ==
    {SubSeq(q, 1, n) : q \in {o \in Orders(S) :
        \A i, j \in DOMAIN o : i < j => o[j] \notin older[o[i]]}}

\* Those that get a slot at once: a source without a fetcher gives its own back.
FirstWave(q) ==
    {q[i] : i \in {j \in DOMAIN q :
        q[j] \notin Unknown /\ Cardinality({k \in 1 .. j : q[k] \notin Unknown}) <= Concurrency}}

Idle == batch = <<>> /\ polling = {}

(* A cycle recovers some of the sources that were disabled, reads what is    *)
(* enabled, leaves out paid sources that nobody consumes, and cuts the rest  *)
(* at the cap.  All that have a slot at once start together.                 *)
Read ==
    /\ Idle
    /\ \E R \in SUBSET (Sources \ enabled) : enabled' = enabled \union R
    /\ LET due == {s \in enabled' \ resting : wanted \/ s \notin Paid}
       IN  /\ due # {}
           /\ capped' = (Cap > 0 /\ Cardinality(due) > Cap)
           /\ batch' \in IF capped' THEN MostOverdue(due, Cap) ELSE Orders(due)
    /\ first' = FirstWave(batch')
    /\ UNCHANGED <<older, resting, wanted, polling>>
    /\ Forget

(* The next source of the batch gets a slot.                                 *)
Start(s) ==
    /\ batch # <<>> /\ s = Head(batch)
    /\ Cardinality(polling) < Concurrency
    /\ batch' = Tail(batch)
    /\ polling' = polling \union {s}
    /\ passed' = [passed EXCEPT ![s] = {}]
    /\ UNCHANGED <<rows, wanted, first, capped>>

Leaves(s) ==
    /\ s \in polling
    /\ polling' = polling \ {s}
    /\ first' = first \ {s}
    /\ UNCHANGED <<batch, capped>>

\* A faulty poll, which stamps only when it was clean.
CleanPolled(s) ==
    /\ Leaves(s)
    /\ s \notin Unknown
    /\ UNCHANGED wanted
    /\ \/ /\ Stamp(s) /\ enabled' = enabled /\ Remember(s)
       \/ /\ UNCHANGED <<older, resting>> /\ enabled' \in {enabled, enabled \ {s}}
          /\ Forget

(* A poll ends with a stamp: it was clean, or failed and may have disabled   *)
(* its source, or ran out of its budget.                                     *)
Polled(s) ==
    /\ Leaves(s)
    /\ s \notin Unknown
    /\ Stamp(s)
    /\ enabled' \in {enabled, enabled \ {s}}
    /\ UNCHANGED wanted
    /\ Remember(s)

(* A poll ends without one: there is no fetcher, or the write failed.        *)
Unstamped(s) ==
    /\ Leaves(s)
    /\ UNCHANGED <<rows, wanted, passed>>

(* The cycle is cut short.  A poll has a budget well under the watchdog's,   *)
(* so the first wave is over by then.                                        *)
Watchdog ==
    /\ ~Idle
    /\ first = {}
    /\ batch' = <<>> /\ polling' = {}
    /\ UNCHANGED <<rows, wanted, first, capped, passed>>

(* The process restarts.                                                     *)
Restart ==
    /\ ~Idle
    /\ batch' = <<>> /\ polling' = {} /\ first' = {}
    /\ UNCHANGED <<rows, wanted, capped, passed>>

(* A target is activated: its own poll of every source stamps them too,      *)
(* whatever a cycle does meanwhile.                                          *)
PollForTarget(s) ==
    /\ s \in enabled \ Unknown
    /\ Stamp(s)
    /\ UNCHANGED <<enabled, wanted, cycle>>
    /\ Forget

(* The interval of a source passes.                                          *)
Elapse(s) ==
    /\ s \in resting
    /\ resting' = resting \ {s}
    /\ UNCHANGED <<enabled, older, wanted, cycle>>
    /\ Forget

(* An operator, or the last active target, switches something.               *)
Toggle(s) ==
    /\ enabled' = IF s \in enabled THEN enabled \ {s} ELSE enabled \union {s}
    /\ UNCHANGED <<older, resting, wanted, cycle>>
    /\ Forget

TargetsChange ==
    /\ wanted' = ~wanted
    /\ UNCHANGED <<rows, cycle>>
    /\ Forget

QueueNext ==
    \/ Read \/ Watchdog \/ Restart \/ TargetsChange
    \/ \E s \in Sources :
         \/ Start(s) \/ Polled(s) \/ Unstamped(s)
         \/ PollForTarget(s) \/ Elapse(s) \/ Toggle(s)

QueueSpec == QueueInit /\ [][QueueNext]_queueVars

\* Ticks come, slots are taken, polls end within their budgets, and clocks
\* advance.
QueueFairSpec ==
    /\ QueueSpec
    /\ WF_queueVars(Read)
    /\ WF_queueVars(\E s \in Sources : Start(s))
    /\ \A s \in Sources : WF_queueVars(Polled(s) \/ Unstamped(s)) /\ WF_queueVars(Elapse(s))

-----------------------------------------------------------------------------

QueueTypeOK ==
    /\ enabled \subseteq Sources /\ resting \subseteq Sources
    /\ older \in [Sources -> SUBSET Sources]
    /\ \A s, t \in Sources : s \in older[t] => t \notin older[s]
    /\ wanted \in BOOLEAN /\ capped \in BOOLEAN
    /\ batch \in Seq(Sources)
    /\ \A i, j \in DOMAIN batch : i # j => batch[i] # batch[j]
    /\ polling \subseteq Sources /\ Cardinality(polling) <= Concurrency
    /\ \A i \in DOMAIN batch : batch[i] \notin polling
    /\ first \subseteq Sources
    /\ passed \in [Sources -> SUBSET Sources]

\* Nobody is overtaken twice: a cycle that has to choose gives no slot to a
\* source that was polled since another one began to wait for its own.
NoOvertaking ==
    [][\A s, t \in Sources : Start(t) /\ capped => t \notin passed[s]]_queueVars

\* Nothing goes wrong any more that would cost a source its stamp, and only the
\* cycles poll.
Quiet ==
    [][/\ ~Restart
       /\ \A s \in Sources : ~PollForTarget(s) /\ (Unstamped(s) => s \in Unknown)]_queueVars

\* Cycles are let to finish, or they are cut short but always have more due
\* than they take.
Drains == <>[][~Watchdog]_queueVars \/ <>[][Read => capped']_queueVars

\* Every source gets its turn, with fewer misconfigured sources than places in
\* a batch.
EverySourceRotates ==
    Cardinality(Unknown) < Cap /\ <>Quiet /\ Drains =>
        \A s \in Sources \ Unknown : Waits(s) ~> ~Waits(s)
=============================================================================
