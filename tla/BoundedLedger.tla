---------------------------- MODULE BoundedLedger ---------------------------
(* What an append-only ledger behind a bounded buffer promises its callers,  *)
(* who number their rows as they hand them over: rows are written in that    *)
(* order, one is given up only when a full buffer of newer ones waits, and   *)
(* one is written again only when it could not be known that it was written. *)
EXTENDS Naturals, FiniteSets

CONSTANT Ceiling        \* how many rows may wait

VARIABLES
    arrived,    \* how many rows were handed over; they are 1 .. arrived
    waiting,    \* those that are still to be written
    written     \* how often each row was written

vars == <<arrived, waiting, written>>

Init ==
    /\ arrived = 0
    /\ waiting = {}
    /\ \A r \in DOMAIN written : written[r] = 0

\* A row that may be given up: enough newer ones wait.
Surplus(rows) == {r \in rows : Cardinality({s \in rows : s > r}) >= Ceiling}

Add(gone) ==
    /\ arrived' = arrived + 1
    /\ gone \subseteq Surplus(waiting \union {arrived'})
    /\ waiting' = (waiting \union {arrived'}) \ gone
    /\ UNCHANGED written

GiveUp(gone) ==
    /\ gone \subseteq Surplus(waiting)
    /\ waiting' = waiting \ gone
    /\ UNCHANGED <<arrived, written>>

\* The oldest rows reach the table; `known` says whether the writer knows,
\* and one that does not may have to give rows up as it takes them back.
Write(rows, known, gone) ==
    /\ \A r \in rows, s \in waiting \ rows : r < s
    /\ written' = [r \in DOMAIN written |->
                     IF r \in rows THEN written[r] + 1 ELSE written[r]]
    /\ \/ known /\ waiting' = waiting \ rows
       \/ /\ ~known
          /\ gone \subseteq Surplus(waiting)
          /\ waiting' = waiting \ gone
    /\ UNCHANGED arrived

\* The process ends with the rows it holds, the oldest perhaps just written.
Lose(rows) ==
    /\ waiting' = {}
    /\ written' = [r \in DOMAIN written |->
                     IF r \in rows THEN written[r] + 1 ELSE written[r]]
    /\ UNCHANGED arrived

Next ==
    \/ \E gone \in SUBSET (waiting \union {arrived + 1}) : Add(gone)
    \/ \E gone \in SUBSET waiting : GiveUp(gone)
    \/ \E rows, gone \in SUBSET waiting, known \in BOOLEAN : Write(rows, known, gone)
    \/ \E rows \in SUBSET waiting : Lose(rows)

Spec == Init /\ [][Next]_vars
=============================================================================
