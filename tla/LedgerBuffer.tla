---------------------------- MODULE LedgerBuffer ----------------------------
(* The buffer of ledger rows (services/llm/cost_log_buffer.py): callers on   *)
(* any thread add rows under a lock, one background task drains them and     *)
(* inserts them chunk by chunk, taking back what was not committed, and the  *)
(* end of the process stops it.  Rows are numbered as they arrive.           *)
EXTENDS Naturals, Sequences, FiniteSets, Functions

CONSTANTS
    Arrivals,       \* bound: how many rows arrive
    MaxRows,        \* max_rows, the ceiling
    MaxSize,        \* max_size, at which a row wakes the task
    BatchSize,      \* insert_batch_size
    MaxDoubts       \* bound: how many inserts commit without an answer

ASSUME BufferAssumption ==
    /\ Arrivals \in Nat
    /\ MaxRows \in Nat \ {0}
    /\ MaxSize \in Nat \ {0}
    /\ BatchSize \in Nat \ {0}
    /\ MaxDoubts \in Nat

VARIABLES
    arrived,    \* how many rows were added
    rows,       \* _rows
    batch,      \* the list the flush in progress has drained
    start,      \* where in it the chunk begins that is being inserted
    task,       \* what the background task, and after it stop(), is doing
    stopping,   \* _stopping
    wakeup,     \* the event
    nudged,     \* a call_soon_threadsafe(wakeup.set) is on its way
    ledger,     \* how often the table holds each row
    dropped,    \* history: the rows given up at the ceiling
    lost,       \* history: the rows a process died with
    doubtful,   \* history: the rows of inserts that committed and seemed to fail
    doubts,     \* how many such inserts there were
    failed,     \* history: the last flush failed
    looked,     \* history: what had arrived when the task last started, drained
                \* the buffer or took rows back
    asked       \* history: what had arrived when stop() was called

vars == <<arrived, rows, batch, start, task, stopping, wakeup, nudged, ledger,
          dropped, lost, doubtful, doubts, failed, looked, asked>>

Row == 1 .. Arrivals

\* waiting: in wait_for; inserting: in an insert; ended: stop() is about to
\* flush; closing: in an insert of that flush.
Stage == {"off", "waiting", "inserting", "ended", "closing"}

\* What the flush in progress still has to write.
Rest == SubSeq(batch, start, Len(batch))

Memory == Rest \o rows

Held == Range(Memory)

Init ==
    /\ arrived = 0
    /\ rows = <<>>
    /\ batch = <<>>
    /\ start = 1
    /\ task = "off"
    /\ stopping = FALSE
    /\ wakeup = FALSE
    /\ nudged = FALSE
    /\ ledger = [r \in Row |-> 0]
    /\ dropped = {}
    /\ lost = {}
    /\ doubtful = {}
    /\ doubts = 0
    /\ failed = FALSE
    /\ looked = 0
    /\ asked = 0

-----------------------------------------------------------------------------

\* A faulty ceiling, that of the early flush.
NewestByMaxSize(s) ==
    IF Len(s) > MaxSize THEN SubSeq(s, Len(s) - MaxSize + 1, Len(s)) ELSE s

\* The newest rows of a list, as many as the ceiling admits.
Newest(s) == IF Len(s) > MaxRows THEN SubSeq(s, Len(s) - MaxRows + 1, Len(s)) ELSE s

\* The list under the lock becomes s, less what the ceiling evicts.
Keep(s) ==
    /\ rows' = Newest(s)
    /\ dropped' = dropped \union (Range(s) \ Range(Newest(s)))

\* The event exists, so that there is something to set.
HasEvent == task \in {"waiting", "inserting"}

(* A caller adds a row: appended and the surplus evicted under the lock, the *)
(* event set through the loop if the buffer has become full.                 *)
Enqueue ==
    /\ arrived < Arrivals
    /\ arrived' = arrived + 1
    /\ Keep(Append(rows, arrived + 1))
    /\ nudged' = (nudged \/ (Len(rows') >= MaxSize /\ HasEvent))
    /\ UNCHANGED <<batch, start, task, stopping, wakeup, ledger, lost, doubtful,
                   doubts, failed, looked, asked>>

(* The loop runs the callback that sets the event.                           *)
Nudge ==
    /\ nudged
    /\ nudged' = FALSE
    /\ wakeup' = (wakeup \/ HasEvent)
    /\ UNCHANGED <<arrived, rows, batch, start, task, stopping, ledger, dropped,
                   lost, doubtful, doubts, failed, looked, asked>>

(* The lifespan starts the task of a process.                                *)
Start ==
    /\ task = "off"
    /\ task' = "waiting"
    /\ stopping' = FALSE
    /\ wakeup' = FALSE
    /\ looked' = arrived
    /\ UNCHANGED <<arrived, rows, batch, start, nudged, ledger, dropped, lost,
                   doubtful, doubts, failed, asked>>

\* flush() drains the buffer, and has nothing to do or begins to insert.
Drain(busy, idle) ==
    /\ looked' = arrived
    /\ \/ /\ rows = <<>>
          /\ task' = idle
          /\ UNCHANGED <<rows, batch, start>>
       \/ /\ rows # <<>>
          /\ task' = busy
          /\ batch' = rows
          /\ start' = 1
          /\ rows' = <<>>

\* A faulty wait, which has no timeout.
WakeByEvent ==
    /\ task = "waiting"
    /\ wakeup
    /\ wakeup' = FALSE
    /\ Drain("inserting", IF stopping THEN "ended" ELSE "waiting")
    /\ UNCHANGED <<arrived, stopping, nudged, ledger, dropped, lost, doubtful,
                   doubts, failed, asked>>

(* The wait ends, by the event or by its timeout, and the task flushes.      *)
Wake ==
    /\ task = "waiting"
    /\ wakeup' = FALSE
    /\ Drain("inserting", IF stopping THEN "ended" ELSE "waiting")
    /\ UNCHANGED <<arrived, stopping, nudged, ledger, dropped, lost, doubtful,
                   doubts, failed, asked>>

Inserting == task \in {"inserting", "closing"}

\* Where a flush leaves its caller: the loop of the task, or stop().
AfterFlush ==
    CASE task = "closing" -> "off"
      [] task # "closing" /\ stopping -> "ended"
      [] task # "closing" /\ ~stopping -> "waiting"

\* The chunk of the insert that is under way, and where the next one begins.
NextStart == IF start + BatchSize <= Len(batch) THEN start + BatchSize ELSE Len(batch) + 1
Chunk == SubSeq(batch, start, NextStart - 1)

Committed == [r \in Row |-> IF r \in Range(Chunk) THEN ledger[r] + 1 ELSE ledger[r]]

\* A faulty flush, which clears the event when it is done.
InsertOkClears ==
    /\ Inserting
    /\ ledger' = Committed
    /\ \/ /\ NextStart <= Len(batch)
          /\ start' = NextStart
          /\ UNCHANGED <<batch, task, failed, wakeup>>
       \/ /\ NextStart > Len(batch)
          /\ batch' = <<>>
          /\ start' = 1
          /\ task' = AfterFlush
          /\ failed' = FALSE
          /\ wakeup' = FALSE
    /\ UNCHANGED <<arrived, rows, stopping, nudged, dropped, lost, doubtful,
                   doubts, looked, asked>>

(* A chunk is in the table; the next one follows, or the flush is done.      *)
InsertOk ==
    /\ Inserting
    /\ ledger' = Committed
    /\ \/ /\ NextStart <= Len(batch)
          /\ start' = NextStart
          /\ UNCHANGED <<batch, task, failed>>
       \/ /\ NextStart > Len(batch)
          /\ batch' = <<>>
          /\ start' = 1
          /\ task' = AfterFlush
          /\ failed' = FALSE
    /\ UNCHANGED <<arrived, rows, stopping, wakeup, nudged, dropped, lost,
                   doubtful, doubts, looked, asked>>

\* A faulty _requeue, which takes back what follows the chunk that failed.
RequeueAfter == Keep(SubSeq(batch, NextStart, Len(batch)) \o rows)

\* A faulty _requeue, which takes back the whole of the drained list.
RequeueAll == Keep(batch \o rows)

\* _requeue: the chunk that failed and those after it go back to the front.
Requeue == Keep(Memory)

(* An insert fails, or its answer is lost and it had committed; the error is *)
(* logged and the loop, or stop(), goes on.                                  *)
InsertFails(committed) ==
    /\ Inserting
    /\ \/ /\ committed
          /\ doubts < MaxDoubts
          /\ doubts' = doubts + 1
          /\ ledger' = Committed
          /\ doubtful' = doubtful \union Range(Chunk)
       \/ ~committed /\ UNCHANGED <<doubts, ledger, doubtful>>
    /\ Requeue
    /\ batch' = <<>>
    /\ start' = 1
    /\ task' = AfterFlush
    /\ failed' = TRUE
    /\ looked' = arrived
    /\ UNCHANGED <<arrived, stopping, wakeup, nudged, lost, asked>>

(* stop(): the flag, a nudge, and then it awaits the task ...                *)
Stop ==
    /\ HasEvent
    /\ ~stopping
    /\ stopping' = TRUE
    /\ nudged' = TRUE
    /\ asked' = arrived
    /\ UNCHANGED <<arrived, rows, batch, start, task, wakeup, ledger, dropped,
                   lost, doubtful, doubts, failed, looked>>

\* A faulty stop(), which leaves the last flush to the task.
CloseAtOnce ==
    /\ task = "ended"
    /\ task' = "off"
    /\ UNCHANGED <<arrived, rows, batch, start, stopping, wakeup, nudged, ledger,
                   dropped, lost, doubtful, doubts, failed, looked, asked>>

(* ... and flushes what the task left and what was added meanwhile.          *)
Close ==
    /\ task = "ended"
    /\ Drain("closing", "off")
    /\ UNCHANGED <<arrived, stopping, wakeup, nudged, ledger, dropped, lost,
                   doubtful, doubts, failed, asked>>

(* The process dies, or exits after stop(), with what its memory holds; an   *)
(* insert that was under way may still commit.                               *)
Exit(committed) ==
    /\ \/ committed /\ Inserting /\ ledger' = Committed
       \/ ~committed /\ UNCHANGED ledger
    /\ lost' = lost \union {r \in Held : ledger'[r] = 0}
    /\ rows' = <<>>
    /\ batch' = <<>>
    /\ start' = 1
    /\ task' = "off"
    /\ stopping' = FALSE
    /\ wakeup' = FALSE
    /\ nudged' = FALSE
    /\ UNCHANGED <<arrived, dropped, doubtful, doubts, failed, looked, asked>>

Next ==
    \/ Enqueue \/ Nudge \/ Start \/ Wake \/ InsertOk \/ Stop \/ Close
    \/ \E committed \in BOOLEAN : InsertFails(committed) \/ Exit(committed)

Spec == Init /\ [][Next]_vars

\* The loop runs what is due, and the HTTP client has a timeout.
FairSpec ==
    /\ Spec
    /\ WF_vars(Start) /\ WF_vars(Nudge) /\ WF_vars(Wake) /\ WF_vars(Close)
    /\ WF_vars(InsertOk \/ \E committed \in BOOLEAN : InsertFails(committed))

-----------------------------------------------------------------------------

\* Types, and that a list is drained exactly while an insert is under way.
TypeOK ==
    /\ arrived \in 0 .. Arrivals
    /\ rows \in Seq(Row)
    /\ batch \in Seq(Row)
    /\ start \in 1 .. Len(batch) + 1
    /\ task \in Stage
    /\ stopping \in BOOLEAN
    /\ wakeup \in BOOLEAN
    /\ nudged \in BOOLEAN
    /\ ledger \in [Row -> Nat]
    /\ dropped \subseteq Row
    /\ lost \subseteq Row
    /\ doubtful \subseteq Row
    /\ doubts \in 0 .. MaxDoubts
    /\ failed \in BOOLEAN
    /\ looked \in 0 .. arrived
    /\ asked \in 0 .. arrived
    /\ Inserting <=> start <= Len(batch)
    /\ task = "ended" => stopping

\* No row of spend disappears: one that arrived is in memory, in the table, or
\* among those that the log reported dropped or a process took with it, and
\* memory stays under its ceiling, the list being flushed apart.
Accounted ==
    /\ Len(rows) <= MaxRows /\ Len(batch) <= MaxRows
    /\ \A r \in 1 .. arrived : r \in Held \union dropped \union lost \/ ledger[r] > 0
    /\ Held \cap (dropped \union lost) = {}

\* Retries keep the order, and at the ceiling the oldest rows go, whether a
\* new row or a failed flush filled the buffer: the budget guard needs the
\* recent ones.
OldestFirst ==
    /\ \A i, j \in DOMAIN Memory : i < j => Memory[i] < Memory[j]
    /\ \A r \in dropped, i \in DOMAIN rows : r < rows[i]

\* Spend is counted once: however chunks fail, a row is in the table twice, or
\* in the table and still to be written, only if the answer of an insert that
\* had committed it was lost.
WrittenOnce ==
    \A r \in Row : ledger[r] > (IF r \in Held THEN 0 ELSE 1) => r \in doubtful

\* The wakeup is not lost between threads: when the buffer fills up while the
\* task waits, or filled up during its flush, the event is set or about to be.
FullBufferWakes ==
    task = "waiting" /\ Len(rows) >= MaxSize /\ rows[Len(rows)] > looked
        => wakeup \/ nudged

\* stop() leaves no row in memory that had arrived before it was called,
\* unless its own flush, or the task's last one, failed.
StopLeavesNothing ==
    task = "off" => failed \/ \A i \in DOMAIN rows : rows[i] > asked

\* Callers cannot tell the buffer, with its chunks and retries, from a bounded
\* queue of rows in front of the table.
Bounded == INSTANCE BoundedLedger
             WITH Ceiling <- MaxRows, waiting <- Held, written <- ledger
BoundedLedgerSpec == Bounded!Spec

\* If the database accepts inserts again and again, every row leaves memory.
RowsGetWritten ==
    SF_vars(InsertOk) => \A r \in Row : r \in Held ~> r \notin Held

=============================================================================
