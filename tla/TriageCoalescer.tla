--------------------------- MODULE TriageCoalescer --------------------------
(* services/relevance/triage_coalescer.py, one poll cycle's instance of it.  *)
(* Callers (the per-source batches of poller.py) submit titles for a target; *)
(* the coalescer buffers them per target for a debounce window, packs them   *)
(* into LLM calls of at most BatchSize titles, writes one cost row per call  *)
(* and splits the verdicts back.  Everything runs on one event loop, so an   *)
(* action is the code between two awaits.                                    *)
EXTENDS Naturals, Sequences, FiniteSets, SequencesExt

CONSTANTS Callers,      \* the batches submitted in the cycle
          Targets,      \* the targets being triaged
          TargetOf,     \* Callers -> Targets
          BatchSize,    \* phase1_batch_size(): most titles one call may carry
          MostTitles    \* Callers -> the most titles each submits

ASSUME CallersAssumption == TargetOf \in [Callers -> Targets]
ASSUME BatchSizeAssumption ==
  BatchSize \in Nat \ {0} /\ MostTitles \in [Callers -> 1 .. BatchSize]

VARIABLES
  size,       \* titles of each caller, 0 before it submits
  status,     \* the caller's own view: idle, waiting, served, deferred, gone
  verdicts,   \* what the caller was handed: local index -> title
  pending,    \* target -> the waiters buffered for it, oldest first
  timer,      \* targets whose debounce timer is armed
  flushing,   \* the flush tasks alive, each with the groups it has left
  cost,       \* lead waiter of a call -> "none"; "billed": its row is still
              \* to write; "written"; "lost": on_cost raised; "unlogged": the
              \* provider billed a reply that was unusable, no row is tried
  judged,     \* titles the model really returned a verdict for
  cycle       \* "open"; "draining", or "aborting" once the watchdog has
              \* cancelled the cycle; "closed": _cycle_coalescer's scope

vars == <<size, status, verdicts, pending, timer, flushing, cost, judged, cycle>>

NoVerdicts == [i \in {} |-> <<>>]
Waiting == {r \in Callers : status[r] = "waiting"}

(* The running totals of titles over some waiters, and title_count.          *)
Totals(ws, n) ==
  LET upto[k \in 0 .. Len(ws)] == IF k = 0 THEN 0 ELSE upto[k - 1] + n[ws[k]]
  IN  upto
TitleCount(ws, n) == Totals(ws, n)[Len(ws)]

(* One turn of the loop of _chunk_waiters: the next waiter joins the current *)
(* group, or opens a new one if its titles do not fit.                       *)
Put(acc, w, n) ==
  IF acc.current # <<>> /\ TitleCount(acc.current, n) + n[w] > BatchSize
  THEN [groups |-> Append(acc.groups, acc.current), current |-> <<w>>]
  ELSE [groups |-> acc.groups, current |-> Append(acc.current, w)]

Cuts(ws, n) ==
  LET upto[k \in 0 .. Len(ws)] ==
        IF k = 0 THEN [groups |-> <<>>, current |-> <<>>] ELSE Put(upto[k - 1], ws[k], n)
  IN  upto

(* A faulty Chunk that forgets the last, partial group.                      *)
ChunkDropsTail(ws, n) == Cuts(ws, n)[Len(ws)].groups

(* _chunk_waiters: whole waiters, in order, at most BatchSize titles a group.*)
Chunk(ws, n) ==
  LET end == Cuts(ws, n)[Len(ws)]
  IN  IF end.current = <<>> THEN end.groups ELSE Append(end.groups, end.current)

(* The titles of a group, merged: title i of waiter w is <<w, i>>.           *)
TitlesOf(g) == FlattenSeq([k \in DOMAIN g |-> [i \in 1 .. size[g[k]] |-> <<g[k], i>>]])

(* A faulty Offset that does not advance past a waiter already resolved.     *)
OffsetSkipsGone(g, k) ==
  TitleCount(SelectSeq(SubSeq(g, 1, k - 1), LAMBDA w : status[w] = "waiting"), size)

(* How many merged titles stand before the k-th waiter of a group.           *)
Offset(g, k) == Totals(g, size)[k - 1]

(* A faulty Slice that hands out the call's index space, not the caller's.   *)
SliceNotRebased(reply, g, k) ==
  LET o == Offset(g, k)
  IN  [idx \in {i \in DOMAIN reply : o < i /\ i <= o + size[g[k]]} |-> reply[idx]]

(* The slice of a reply that belongs to the k-th waiter of its group, in     *)
(* that waiter's own 1-based index space.                                    *)
Slice(reply, g, k) ==
  LET o == Offset(g, k)
      mine == {idx \in DOMAIN reply : o < idx /\ idx <= o + size[g[k]]}
  IN  [i \in {idx - o : idx \in mine} |-> reply[o + i]]

FlushTask(ws, n) == [groups |-> Chunk(ws, n), stage |-> "call", reply |-> NoVerdicts]

Init == /\ size = [r \in Callers |-> 0]
        /\ status = [r \in Callers |-> "idle"]
        /\ verdicts = [r \in Callers |-> NoVerdicts]
        /\ pending = [t \in Targets |-> <<>>]
        /\ timer = {}
        /\ flushing = {}
        /\ cost = [r \in Callers |-> "none"]
        /\ judged = {}
        /\ cycle = "open"

(* submit: queue behind the target's waiters; a full batch flushes now, the  *)
(* first waiter of a buffer arms the debounce timer.                         *)
Submit(r) ==
  LET t == TargetOf[r]
      queue == Append(pending[t], r)
  IN  /\ cycle = "open"
      /\ status[r] = "idle"
      /\ status' = [status EXCEPT ![r] = "waiting"]
      /\ \E n \in 1 .. MostTitles[r] :
           /\ size' = [size EXCEPT ![r] = n]
           /\ IF TitleCount(queue, size') >= BatchSize
              THEN /\ pending' = [pending EXCEPT ![t] = <<>>]
                   /\ timer' = timer \ {t}
                   /\ flushing' = flushing \union {FlushTask(queue, size')}
              ELSE /\ pending' = [pending EXCEPT ![t] = queue]
                   /\ timer' = timer \union {t}
                   /\ UNCHANGED flushing
      /\ UNCHANGED <<verdicts, cost, judged, cycle>>

(* The debounce timer of t runs _spawn_flush.                                *)
TimerFires(t) ==
  /\ t \in timer
  /\ timer' = timer \ {t}
  /\ pending' = [pending EXCEPT ![t] = <<>>]
  /\ flushing' = IF pending[t] = <<>> THEN flushing
                 ELSE flushing \union {FlushTask(pending[t], size)}
  /\ UNCHANGED <<size, status, verdicts, cost, judged, cycle>>

(* A faulty GroupDone that keeps a task with nothing left to do.             *)
GroupKeepsTask(f) ==
  flushing' = (flushing \ {f}) \union
                {[groups |-> Tail(f.groups), stage |-> "call", reply |-> NoVerdicts]}

(* The task goes on with its next group, or is done and leaves _flushing.    *)
GroupDone(f) ==
  flushing' = (flushing \ {f}) \union
                (IF Len(f.groups) = 1 THEN {}
                 ELSE {[groups |-> Tail(f.groups), stage |-> "call", reply |-> NoVerdicts]})

(* The LLM call of the task's first group returns, with a verdict for some   *)
(* of the merged titles; the provider has billed it.                         *)
CallAnswers(f) ==
  LET g == Head(f.groups)
      titles == TitlesOf(g)
  IN  /\ f \in flushing /\ f.stage = "call"
      /\ \E D \in SUBSET (DOMAIN titles) :
           /\ flushing' = (flushing \ {f}) \union
                {[f EXCEPT !.stage = "cost", !.reply = [idx \in D |-> titles[idx]]]}
           /\ judged' = judged \union {titles[idx] : idx \in D}
      /\ cost' = [cost EXCEPT ![Head(g)] = "billed"]
      /\ UNCHANGED <<size, status, verdicts, pending, timer, cycle>>

(* A faulty failure path that resolves nobody.                               *)
FailSilently(f) ==
  /\ f \in flushing /\ f.stage = "call"
  /\ GroupDone(f)
  /\ UNCHANGED <<size, status, verdicts, pending, timer, judged, cycle>>

(* _fail: every waiter of the group that still waits is told to defer.       *)
Fail(f) ==
  /\ f \in flushing /\ f.stage = "call"
  /\ status' = [r \in Callers |-> IF r \in ToSet(Head(f.groups)) /\ status[r] = "waiting"
                                  THEN "deferred" ELSE status[r]]
  /\ GroupDone(f)
  /\ UNCHANGED <<size, verdicts, pending, timer, judged, cycle>>

(* The call fails before the provider answers it: nothing is billed.         *)
CallFails(f) == Fail(f) /\ UNCHANGED cost

(* The provider answers, and bills, what complete_json cannot use (prose, a  *)
(* truncated or an invalid payload): it raises, triage_titles returns        *)
(* ({}, None), and _run_group, without a result, records no cost.            *)
CallMalformed(f) == Fail(f) /\ cost' = [cost EXCEPT ![Head(Head(f.groups))] = "unlogged"]

(* on_cost returns (o = "written") or raises and is swallowed (o = "lost");  *)
(* either way every waiter of the group that still waits gets its slice.     *)
Resolve(f, o) ==
  LET g == Head(f.groups)
      live == {k \in DOMAIN g : status[g[k]] = "waiting"}
  IN  /\ f \in flushing /\ f.stage = "cost"
      /\ cost' = [cost EXCEPT ![Head(g)] = o]
      /\ status' = [r \in Callers |-> IF \E k \in live : g[k] = r THEN "served" ELSE status[r]]
      /\ verdicts' = [r \in Callers |->
                        IF \E k \in live : g[k] = r
                        THEN Slice(f.reply, g, CHOOSE k \in live : g[k] = r)
                        ELSE verdicts[r]]
      /\ GroupDone(f)
      /\ UNCHANGED <<size, pending, timer, judged, cycle>>

(* A faulty design in which the flush belongs to the callers: cancelling one *)
(* of them cancels the task that carries its titles.                         *)
CancelCallerKillsFlush(r) ==
  /\ status[r] = "waiting"
  /\ status' = [status EXCEPT ![r] = "gone"]
  /\ flushing' = {f \in flushing : r \notin ToSet(Head(f.groups))}
  /\ UNCHANGED <<size, verdicts, pending, timer, cost, judged, cycle>>

(* The source of r exceeds its wall-clock budget: the wait is cancelled, its *)
(* titles stay where they are.                                               *)
CancelCaller(r) ==
  /\ status[r] = "waiting"
  /\ status' = [status EXCEPT ![r] = "gone"]
  /\ UNCHANGED <<size, verdicts, pending, timer, flushing, cost, judged, cycle>>

(* max_wait_seconds elapses for r.                                           *)
WaitExpires(r) ==
  /\ status[r] = "waiting"
  /\ status' = [status EXCEPT ![r] = "deferred"]
  /\ UNCHANGED <<size, verdicts, pending, timer, flushing, cost, judged, cycle>>

(* drain: flush every buffer; _cycle_coalescer runs it in its finally.       *)
DrainBuffers ==
  /\ timer' = {}
  /\ pending' = [t \in Targets |-> <<>>]
  /\ flushing' = flushing \union
       {FlushTask(pending[t], size) : t \in {u \in Targets : pending[u] # <<>>}}

(* Every source of the cycle has finished.                                   *)
SourcesFinish == /\ cycle = "open" /\ Waiting = {}
                 /\ cycle' = "draining"
                 /\ DrainBuffers
                 /\ UNCHANGED <<size, status, verdicts, cost, judged>>

(* The cycle watchdog cancels the gather, and with it every waiting source.  *)
WatchdogFires ==
  /\ cycle = "open"
  /\ cycle' = "aborting"
  /\ status' = [r \in Callers |-> IF status[r] = "waiting" THEN "gone" ELSE status[r]]
  /\ DrainBuffers
  /\ UNCHANGED <<size, verdicts, cost, judged>>

(* The watchdog (it cancels a cycle once) fires while drain waits for its    *)
(* gather: cancelling a gather cancels the flush tasks.  A call in flight    *)
(* may or may not have been billed; a cost write in flight does not happen.  *)
WatchdogFiresInDrain ==
  /\ cycle = "draining" /\ flushing # {}
  /\ \E B \in SUBSET {f \in flushing : f.stage = "call"} :
       cost' = [r \in Callers |-> IF \E f \in B : r = Head(Head(f.groups))
                                  THEN "billed" ELSE cost[r]]
  /\ flushing' = {}
  /\ cycle' = "closed"
  /\ UNCHANGED <<size, status, verdicts, pending, timer, judged>>

(* A faulty drain that does not wait for the calls in flight.                *)
DrainDoesNotWait ==
  /\ cycle \in {"draining", "aborting"}
  /\ cycle' = "closed"
  /\ UNCHANGED <<size, status, verdicts, pending, timer, flushing, cost, judged>>

DrainReturns ==
  /\ cycle \in {"draining", "aborting"} /\ flushing = {}
  /\ cycle' = "closed"
  /\ UNCHANGED <<size, status, verdicts, pending, timer, flushing, cost, judged>>

(* The steps of one flush task.                                              *)
FlushStep(f) == \/ CallAnswers(f) \/ CallFails(f) \/ CallMalformed(f)
                \/ Resolve(f, "written") \/ Resolve(f, "lost")

Next == \/ \E r \in Callers : Submit(r) \/ CancelCaller(r) \/ WaitExpires(r)
        \/ \E t \in Targets : TimerFires(t)
        \/ \E f \in flushing : FlushStep(f)
        \/ SourcesFinish \/ WatchdogFires \/ WatchdogFiresInDrain \/ DrainReturns

(* Fairness: the event loop runs timers that are due and tasks that are      *)
(* ready, and every LLM call and cost write returns or raises (both have     *)
(* client timeouts).  Nothing is assumed of max_wait, of the budgets, or of  *)
(* callers.                                                                  *)
Fairness == /\ \A t \in Targets : WF_vars(TimerFires(t))
            /\ WF_vars(\E f \in flushing : FlushStep(f))
            /\ WF_vars(DrainReturns)

Spec == Init /\ [][Next]_vars /\ Fairness
-----------------------------------------------------------------------------
TypeOK ==
  /\ size \in [Callers -> 0 .. BatchSize]
  /\ status \in [Callers -> {"idle", "waiting", "served", "deferred", "gone"}]
  /\ \A t \in Targets : ToSet(pending[t]) \subseteq {r \in Callers : TargetOf[r] = t}
  /\ timer \subseteq Targets
  /\ \A f \in flushing : f.stage \in {"call", "cost"} /\ f.groups # <<>>
  /\ cost \in [Callers -> {"none", "billed", "written", "lost", "unlogged"}]
  /\ cycle \in {"open", "draining", "aborting", "closed"}

(* The flush tasks and groups that will resolve r.                           *)
GroupsHolding(r) == UNION {{<<f, k>> : k \in {m \in DOMAIN f.groups : r \in ToSet(f.groups[m])}} :
                             f \in flushing}

(* A caller that waits is held in exactly one place that will answer it: its *)
(* target's buffer, once, with the timer armed, or one group of one task     *)
(* (submit's comment on a lost flush hanging the poll cycle).                *)
NobodyForgotten ==
  \A r \in Waiting :
    LET buffered == {k \in DOMAIN pending[TargetOf[r]] : pending[TargetOf[r]][k] = r}
    IN  \/ Cardinality(buffered) = 1 /\ TargetOf[r] \in timer /\ GroupsHolding(r) = {}
        \/ buffered = {} /\ Cardinality(GroupsHolding(r)) = 1

(* A caller only ever gets verdicts about its own titles at their own        *)
(* indices, and gets every one the model returned for them, whoever shared   *)
(* the call and whoever of them was cancelled.                               *)
VerdictsAreOwn ==
  \A r \in Callers : status[r] = "served" =>
    verdicts[r] = [i \in {j \in 1 .. size[r] : <<r, j>> \in judged} |-> <<r, i>>]

(* The one task that will write the row of the call led by r.                *)
HasItsTask(r) == Cardinality({f \in flushing : f.stage = "cost" /\ Head(Head(f.groups)) = r}) = 1

(* While the cycle lives, a call whose reply was used keeps the task that    *)
(* will write its row, whoever of its waiters is cancelled (the module's     *)
(* "COST ACCOUNTING").  It says nothing of a call that was billed for a      *)
(* reply nobody could use: CallMalformed leaves that one without a row.      *)
BilledCallsAreOwned ==
  cycle # "closed" => \A r \in Callers : cost[r] = "billed" => HasItsTask(r)

(* When the cycle is over nothing is buffered, armed or running: a coalescer *)
(* never outlives its cycle (_cycle_coalescer's docstring).                  *)
CycleLeavesNothing ==
  cycle = "closed" => timer = {} /\ flushing = {} /\ \A t \in Targets : pending[t] = <<>>

(* max_wait is only a backstop: without ever relying on it, every caller     *)
(* that waits stops waiting.                                                 *)
EveryCallerAnswered == \A r \in Callers : (status[r] = "waiting") ~> (status[r] # "waiting")

(* Seen from its callers the coalescer is un-coalesced triage.               *)
Direct == INSTANCE TriageRequests WITH MaxTitles <- BatchSize
DirectSpec == Direct!Spec
=============================================================================
