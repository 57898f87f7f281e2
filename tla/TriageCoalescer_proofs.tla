------------------------ MODULE TriageCoalescer_proofs -----------------------
(* What holds of the Phase-1 coalescer for any callers, targets, batch size  *)
(* and reply of the model.                                                   *)
EXTENDS TriageCoalescer, FiniteSetTheorems, SequenceTheorems, TLAPS

(* The inductive invariant.  First types, of tasks and their groups too.     *)
Title == Callers \X Nat
Reply == UNION {[D -> Title] : D \in SUBSET Nat}
Group == Seq(Callers) \ {<<>>}
Task == [groups : Seq(Group) \ {<<>>}, stage : {"call", "cost"}, reply : Reply]

Types ==
  /\ size \in [Callers -> 0 .. BatchSize]
  /\ status \in [Callers -> {"idle", "waiting", "served", "deferred", "gone"}]
  /\ verdicts \in [Callers -> Reply]
  /\ pending \in [Targets -> Seq(Callers)]
  /\ timer \subseteq Targets
  /\ flushing \subseteq Task
  /\ cost \in [Callers -> {"none", "billed", "written", "lost", "unlogged"}]
  /\ judged \subseteq Title
  /\ cycle \in {"open", "draining", "aborting", "closed"}

Injective(s) == \A i, j \in DOMAIN s : s[i] = s[j] => i = j

\* No waiter has two places in some groups.
Distinct(gs) ==
  \A m, n \in DOMAIN gs : \A i \in DOMAIN gs[m], j \in DOMAIN gs[n] :
    gs[m][i] = gs[n][j] => m = n /\ i = j

\* Who stands in some groups, and whom a task holds.
Members(gs) == UNION {ToSet(gs[m]) : m \in DOMAIN gs}
Holds(f, r) == r \in Members(f.groups)
Buffered(r) == r \in ToSet(pending[TargetOf[r]])

\* A buffer is its target's, without repetition, and has a timer.
BuffersOK ==
  \A t \in Targets :
    /\ \A r \in ToSet(pending[t]) : TargetOf[r] = t
    /\ Injective(pending[t])
    /\ pending[t] # <<>> => t \in timer

\* A waiter has one place: in a buffer, or in one group of one task.
PlacesOK ==
  \A f \in flushing :
    /\ Distinct(f.groups)
    /\ \A r \in Callers : Holds(f, r) =>
         /\ ~Buffered(r)
         /\ status[r] \notin {"idle", "served"}
         /\ \A e \in flushing : Holds(e, r) => e = f

\* Whoever is buffered has submitted and was not served; who waits has a place.
WaitersOK ==
  \A r \in Callers :
    /\ Buffered(r) => status[r] \notin {"idle", "served"}
    /\ status[r] = "waiting" => Buffered(r) \/ \E f \in flushing : Holds(f, r)

\* The titles of r that were judged, and what r should be handed for them.
JudgedOf(r) == {j \in 1 .. size[r] : <<r, j>> \in judged}
OwnVerdicts(r) == [i \in JudgedOf(r) |-> <<r, i>>]

\* The call of r is over, or has returned.
Done(r) == status[r] # "idle" /\ ~Buffered(r) /\ \A f \in flushing : ~Holds(f, r)
Answered(r) == \E f \in flushing : f.stage = "cost" /\ r \in ToSet(Head(f.groups))

\* No title is judged before its caller's call, and then just those that the
\* reply is about.
RepliesOK ==
  /\ \A p \in judged : Done(p[1]) \/ Answered(p[1])
  /\ \A f \in flushing : f.stage = "cost" =>
       LET titles == TitlesOf(Head(f.groups))
       IN  /\ DOMAIN f.reply \subseteq DOMAIN titles
           /\ \A idx \in DOMAIN f.reply : f.reply[idx] = titles[idx]
           /\ \A idx \in DOMAIN titles : titles[idx] \in judged <=> idx \in DOMAIN f.reply

EndOK ==
  /\ cycle # "open" => timer = {} /\ Waiting = {} /\ \A t \in Targets : pending[t] = <<>>
  /\ cycle = "closed" => flushing = {}

\* A billed call has its task.
BillsOK ==
  cycle # "closed" =>
    \A r \in Callers : cost[r] = "billed" =>
      \E f \in flushing : f.stage = "cost" /\ Head(Head(f.groups)) = r

-----------------------------------------------------------------------------
(* Induction, by a least counterexample, and the functions it defines.       *)

\* A set that holds 0, and k whenever it holds k - 1, holds 0 .. N: otherwise
\* one of the sets 0 .. x with x outside it would be least under inclusion.
LEMMA Induction ==
  ASSUME NEW N \in Nat, NEW S, 0 \in S, \A k \in 1 .. N : k - 1 \in S => k \in S
  PROVE  \A k \in 0 .. N : k \in S
<1>. DEFINE T == (0 .. N) \ S
            B == {0 .. x : x \in T}
<1>. SUFFICES ASSUME T # {}
              PROVE  FALSE
  OBVIOUS
<1>1. B \subseteq FiniteSubsetsOf(0 .. N) /\ B # {}
  <2>1. FiniteSubsetsOf(0 .. N) = SUBSET (0 .. N)
    <3>1. IsFiniteSet(0 .. N)
      BY FS_Interval
    <3>. QED
      BY <3>1, FS_FiniteSubsetsOfFinite
  <2>2. B \subseteq SUBSET (0 .. N) /\ B # {}
    OBVIOUS
  <2>. QED
    BY <2>1, <2>2
<1>2. IsWellFoundedOn(StrictSubsetOrdering(0 .. N), FiniteSubsetsOf(0 .. N))
  BY FS_StrictSubsetOrderingWellFounded
<1>3. \E b \in B : \A c \in B : <<c, b>> \notin StrictSubsetOrdering(0 .. N)
  <2>. HIDE DEF B
  <2>. QED
    BY <1>1, <1>2, WFMin, Zenon
<1>4. PICK x \in T : \A y \in T : <<0 .. y, 0 .. x>> \notin StrictSubsetOrdering(0 .. N)
  BY <1>3
<1>5. x \in 1 .. N
  OBVIOUS
<1>6. x - 1 \in T
  BY <1>5
<1>7. 0 .. x - 1 \subseteq 0 .. x /\ x \in 0 .. x /\ x \notin 0 .. x - 1 /\ 0 .. x \subseteq 0 .. N
  BY <1>5
<1>. QED
  BY <1>4, <1>6, <1>7 DEF StrictSubsetOrdering

\* h is the fold over 0 .. N of a function F from b.
Folding(h, F, b, N) == h[0] = b /\ \A k \in 1 .. N : h[k] = F[<<k, h[k - 1]>>]

\* The induction on a length that a recursive function needs: the fold exists.
LEMMA Recursion ==
  ASSUME NEW V, NEW N \in Nat, NEW F \in [(1 .. N) \X V -> V], NEW b \in V
  PROVE  \E h \in [0 .. N -> V] : Folding(h, F, b, N)
<1>. DEFINE S == {m \in 0 .. N : \E h \in [0 .. m -> V] :
                    h[0] = b /\ \A k \in 1 .. m : h[k] = F[<<k, h[k - 1]>>]}
<1>1. 0 \in S
  <2>. DEFINE h == [k \in 0 .. 0 |-> b]
  <2>1. h \in [0 .. 0 -> V] /\ h[0] = b /\ \A k \in 1 .. 0 : h[k] = F[<<k, h[k - 1]>>]
    OBVIOUS
  <2>2. 0 \in 0 .. N
    OBVIOUS
  <2>. HIDE DEF h
  <2>. QED
    BY <2>1, <2>2
<1>2. ASSUME NEW m \in 1 .. N, m - 1 \in S
      PROVE  m \in S
  <2>1. PICK h \in [0 .. m - 1 -> V] :
          h[0] = b /\ \A k \in 1 .. m - 1 : h[k] = F[<<k, h[k - 1]>>]
    BY <1>2
  <2>. DEFINE g == [k \in 0 .. m |-> IF k = m THEN F[<<m, h[m - 1]>>] ELSE h[k]]
  <2>2. g \in [0 .. m -> V]
    <3>1. F[<<m, h[m - 1]>>] \in V
      OBVIOUS
    <3>. QED
      BY <3>1
  <2>3. g[0] = b
    BY <2>1
  <2>4. ASSUME NEW k \in 1 .. m
        PROVE  g[k] = F[<<k, g[k - 1]>>]
    <3>1. g[k - 1] = h[k - 1]
      OBVIOUS
    <3>2. CASE k = m
      <4>1. g[k] = F[<<k, h[k - 1]>>]
        BY <3>2
      <4>. QED
        BY <3>1, <4>1
    <3>3. CASE k \in 1 .. m - 1
      <4>1. g[k] = h[k]
        BY <3>3
      <4>. QED
        BY <3>1, <3>3, <4>1, <2>1
    <3>. QED
      BY <3>2, <3>3
  <2>. HIDE DEF g
  <2>5. m \in 0 .. N
    OBVIOUS
  <2>. QED
    BY <2>2, <2>3, <2>4, <2>5
<1>3. N \in S
  <2>. HIDE DEF S
  <2>1. \A k \in 0 .. N : k \in S
    BY <1>1, <1>2, Induction
  <2>. QED
    BY <2>1
<1>. QED
  BY <1>3 DEF Folding

\* The running totals.
LEMMA TotalsDefined ==
  ASSUME NEW ws \in Seq(Callers), NEW n \in [Callers -> Nat]
  PROVE  /\ Totals(ws, n) \in [0 .. Len(ws) -> Nat]
         /\ Totals(ws, n)[0] = 0
         /\ \A k \in 1 .. Len(ws) : Totals(ws, n)[k] = Totals(ws, n)[k - 1] + n[ws[k]]
<1>. DEFINE N == Len(ws)
            F == [p \in (1 .. N) \X Nat |-> p[2] + n[ws[p[1]]]]
            Step(u) == [k \in 0 .. N |-> IF k = 0 THEN 0 ELSE u[k - 1] + n[ws[k]]]
<1>1. N \in Nat /\ \A k \in 1 .. N : ws[k] \in Callers
  OBVIOUS
<1>2. F \in [(1 .. N) \X Nat -> Nat]
  BY <1>1
<1>3. PICK h \in [0 .. N -> Nat] : h[0] = 0 /\ \A k \in 1 .. N : h[k] = F[<<k, h[k - 1]>>]
  <2>. HIDE DEF F, N
  <2>1. \E h \in [0 .. N -> Nat] : Folding(h, F, 0, N)
    BY <1>1, <1>2, Recursion
  <2>. QED
    BY <2>1 DEF Folding
<1>4. \A k \in 1 .. N : h[k] = h[k - 1] + n[ws[k]]
  <2>. SUFFICES ASSUME NEW k \in 1 .. N
                PROVE  h[k] = h[k - 1] + n[ws[k]]
    OBVIOUS
  <2>. k - 1 \in 0 .. N
    BY <1>1
  <2>1. <<k, h[k - 1]>> \in (1 .. N) \X Nat
    OBVIOUS
  <2>2. F[<<k, h[k - 1]>>] = h[k - 1] + n[ws[k]]
    BY <2>1
  <2>. QED
    BY <1>3, <2>2
<1>5. h = Step(h)
  <2>. HIDE DEF F
  <2>. QED
    BY <1>1, <1>3, <1>4
<1>6. Totals(ws, n) = CHOOSE u : u = Step(u)
  BY DEF Totals
<1>7. Totals(ws, n) = Step(Totals(ws, n))
  <2>. HIDE DEF Step
  <2>. QED
    BY <1>5, <1>6
<1>. DEFINE u == Totals(ws, n)
<1>8. u = Step(u)
  BY <1>7
<1>. HIDE DEF u, F
<1>. HIDE DEF N
<1>9. u[0] = 0 /\ \A k \in 1 .. N : u[k] = u[k - 1] + n[ws[k]]
  <2>1. \A k \in 0 .. N : u[k] = IF k = 0 THEN 0 ELSE u[k - 1] + n[ws[k]]
    BY <1>8
  <2>2. 0 \in 0 .. N /\ \A k \in 1 .. N : k \in 0 .. N /\ k # 0
    BY <1>1
  <2>. HIDE DEF Step
  <2>. QED
    BY <2>1, <2>2
<1>10. \A k \in 0 .. N : u[k] = h[k]
  <2>. DEFINE S == {k \in 0 .. N : u[k] = h[k]}
  <2>1. 0 \in S
    BY <1>1, <1>3, <1>9
  <2>2. \A k \in 1 .. N : k - 1 \in S => k \in S
    BY <1>1, <1>4, <1>9
  <2>3. \A k \in 0 .. N : k \in S
    <3>. HIDE DEF S, N
    <3>. QED
      BY <1>1, <2>1, <2>2, Induction
  <2>. QED
    BY <2>3
<1>11. u \in [0 .. N -> Nat]
  <2>1. u = [k \in 0 .. N |-> u[k]]
    BY <1>8
  <2>2. \A k \in 0 .. N : u[k] \in Nat
    BY <1>3, <1>10
  <2>. QED
    BY <2>1, <2>2
<1>. QED
  BY <1>9, <1>11 DEF u, N

\* A function on 1 .. n is a sequence.
LEMMA FunctionIsSeq ==
  ASSUME NEW V, NEW n \in Nat, NEW s \in [1 .. n -> V]
  PROVE  s \in Seq(V) /\ Len(s) = n /\ DOMAIN s = 1 .. n
  OBVIOUS

\* FlattenSeq, by its partial concatenations.
LEMMA FlattenIsFold ==
  ASSUME NEW V, NEW seqs \in Seq(Seq(V)), seqs # <<>>
  PROVE  \E h \in [0 .. Len(seqs) -> Seq(V)] :
           /\ h[0] = <<>>
           /\ \A k \in 1 .. Len(seqs) : h[k] = h[k - 1] \o seqs[k]
           /\ FlattenSeq(seqs) = h[Len(seqs)]
<1>. DEFINE N == Len(seqs)
            F == [p \in (1 .. N) \X Seq(V) |-> p[2] \o seqs[p[1]]]
            Step(u) == [k \in 1 .. N |-> IF k = 1 THEN seqs[k] ELSE u[k - 1] \o seqs[k]]
<1>1. N \in Nat /\ N # 0 /\ \A k \in 1 .. N : seqs[k] \in Seq(V)
  OBVIOUS
<1>2. F \in [(1 .. N) \X Seq(V) -> Seq(V)]
  BY <1>1
<1>3. PICK h \in [0 .. N -> Seq(V)] : Folding(h, F, <<>>, N)
  <2>. HIDE DEF F, N
  <2>. <<>> \in Seq(V)
    OBVIOUS
  <2>. QED
    BY <1>1, <1>2, Recursion
<1>4. h[0] = <<>> /\ \A k \in 1 .. N : h[k] = h[k - 1] \o seqs[k]
  <2>1. h[0] = <<>>
    BY <1>3 DEF Folding
  <2>. SUFFICES ASSUME NEW k \in 1 .. N
                PROVE  h[k] = h[k - 1] \o seqs[k]
    BY <2>1
  <2>. k - 1 \in 0 .. N
    BY <1>1
  <2>2. <<k, h[k - 1]>> \in (1 .. N) \X Seq(V)
    OBVIOUS
  <2>3. F[<<k, h[k - 1]>>] = h[k - 1] \o seqs[k]
    BY <2>2
  <2>. QED
    BY <1>3, <2>3 DEF Folding
<1>. DEFINE r == [k \in 1 .. N |-> h[k]]
<1>5. r = Step(r)
  <2>. SUFFICES ASSUME NEW k \in 1 .. N
                PROVE  r[k] = IF k = 1 THEN seqs[k] ELSE r[k - 1] \o seqs[k]
    <3>. HIDE DEF F
    <3>. QED
      BY <1>1
  <2>1. CASE k = 1
    <3>1. h[1] = <<>> \o seqs[1]
      BY <1>4, <2>1
    <3>2. <<>> \o seqs[1] = seqs[1]
      BY <1>1, <2>1, ConcatEmptySeq
    <3>. QED
      BY <2>1, <3>1, <3>2
  <2>2. CASE k # 1
    <3>1. k - 1 \in 1 .. N
      BY <1>1, <2>2
    <3>2. r[k - 1] = h[k - 1] /\ r[k] = h[k]
      BY <3>1
    <3>. QED
      BY <1>4, <2>2, <3>2
  <2>. QED
    BY <2>1, <2>2
<1>. DEFINE u == CHOOSE u : u = Step(u)
<1>6. u = Step(u)
  <2>. HIDE DEF Step, r
  <2>. QED
    BY <1>5
<1>7. FlattenSeq(seqs) = u[N]
  BY <1>1 DEF FlattenSeq
<1>. HIDE DEF u, F
<1>8. u[N] = h[N]
  <2>. DEFINE S == {k \in 0 .. N : k = 0 \/ u[k] = h[k]}
  <2>1. 0 \in S
    BY <1>1
  <2>2. ASSUME NEW k \in 1 .. N, k - 1 \in S
        PROVE  k \in S
    <3>1. CASE k = 1
      <4>1. u[k] = seqs[k] /\ r[k] = seqs[k] /\ r[k] = h[k]
        BY <1>5, <1>6, <3>1
      <4>. QED
        BY <4>1
    <3>2. CASE k # 1
      <4>1. u[k] = u[k - 1] \o seqs[k]
        BY <1>6, <3>2
      <4>2. u[k - 1] = h[k - 1]
        BY <2>2, <3>2
      <4>3. h[k] = h[k - 1] \o seqs[k]
        BY <1>4
      <4>4. u[k] = h[k]
        BY <4>1, <4>2, <4>3
      <4>. QED
        BY <4>4
    <3>. QED
      BY <3>1, <3>2
  <2>3. N \in S
    <3>. HIDE DEF S, N
    <3>1. \A k \in 0 .. N : k \in S
      BY <1>1, <2>1, <2>2, Induction
    <3>. QED
      BY <1>1, <3>1
  <2>. QED
    BY <1>1, <2>3
<1>. QED
  BY <1>4, <1>7, <1>8

\* The titles of a group: those of its k-th waiter stand together, in their
\* order, after Offset(g, k) others.
LEMMA TitlesPlaced ==
  ASSUME size \in [Callers -> Nat], NEW g \in Group
  PROVE  /\ TitlesOf(g) \in Seq(Title)
         /\ Len(TitlesOf(g)) = TitleCount(g, size)
         /\ \A k \in DOMAIN g : Offset(g, k) \in Nat
         /\ \A k \in DOMAIN g : \A i \in 1 .. size[g[k]] :
              /\ Offset(g, k) + i \in DOMAIN TitlesOf(g)
              /\ TitlesOf(g)[Offset(g, k) + i] = <<g[k], i>>
         /\ \A idx \in DOMAIN TitlesOf(g) :
              \E k \in DOMAIN g : \E i \in 1 .. size[g[k]] : idx = Offset(g, k) + i
<1>. DEFINE N == Len(g)
            T == Totals(g, size)
            Own(k) == [i \in 1 .. size[g[k]] |-> <<g[k], i>>]
            seqs == [k \in 1 .. N |-> Own(k)]
<1>1. g \in Seq(Callers) /\ N \in Nat /\ N # 0 /\ DOMAIN g = 1 .. N /\ \A k \in 1 .. N : g[k] \in Callers
  BY DEF Group
<1>2. /\ T \in [0 .. N -> Nat]
      /\ T[0] = 0
      /\ \A k \in 1 .. N : T[k] = T[k - 1] + size[g[k]]
  BY <1>1, TotalsDefined
<1>3. ASSUME NEW k \in 1 .. N
      PROVE  /\ size[g[k]] \in Nat
             /\ Own(k) \in Seq(Title)
             /\ Len(Own(k)) = size[g[k]]
             /\ \A i \in 1 .. size[g[k]] : Own(k)[i] = <<g[k], i>>
  <2>1. size[g[k]] \in Nat
    BY <1>1
  <2>2. \A i \in 1 .. size[g[k]] : <<g[k], i>> \in Title
    BY <1>1, <2>1 DEF Title
  <2>3. Own(k) \in [1 .. size[g[k]] -> Title]
    BY <2>2
  <2>4. \A i \in 1 .. size[g[k]] : Own(k)[i] = <<g[k], i>>
    OBVIOUS
  <2>. HIDE DEF Own
  <2>. QED
    BY <2>1, <2>3, <2>4, FunctionIsSeq
<1>4. seqs \in Seq(Seq(Title)) /\ Len(seqs) = N /\ seqs # <<>>
  <2>. HIDE DEF Own, N
  <2>1. seqs \in [1 .. N -> Seq(Title)]
    BY <1>3
  <2>. HIDE DEF seqs
  <2>2. seqs \in Seq(Seq(Title)) /\ Len(seqs) = N
    BY <1>1, <2>1, FunctionIsSeq
  <2>. QED
    BY <1>1, <2>2
<1>5. TitlesOf(g) = FlattenSeq(seqs)
  BY <1>1 DEF TitlesOf
<1>6. PICK h \in [0 .. N -> Seq(Title)] :
        /\ h[0] = <<>>
        /\ \A k \in 1 .. N : h[k] = h[k - 1] \o Own(k)
        /\ TitlesOf(g) = h[N]
  <2>. HIDE DEF Own, N
  <2>1. \A k \in 1 .. N : seqs[k] = Own(k)
    OBVIOUS
  <2>. HIDE DEF seqs
  <2>2. \E h \in [0 .. N -> Seq(Title)] :
          /\ h[0] = <<>>
          /\ \A k \in 1 .. N : h[k] = h[k - 1] \o seqs[k]
          /\ FlattenSeq(seqs) = h[N]
    BY <1>4, FlattenIsFold
  <2>. QED
    BY <1>5, <2>1, <2>2
<1>. DEFINE Sized(k) == Len(h[k]) = T[k]
            Placed(k) == \A j \in 1 .. k : \A i \in 1 .. size[g[j]] :
                           T[j - 1] + i \in 1 .. T[k] /\ h[k][T[j - 1] + i] = <<g[j], i>>
            Filled(k) == \A idx \in 1 .. T[k] : \E j \in 1 .. k : \E i \in 1 .. size[g[j]] :
                           idx = T[j - 1] + i
            S == {k \in 0 .. N : Sized(k) /\ Placed(k) /\ Filled(k)}
<1>7. 0 \in S
  BY <1>1, <1>2, <1>6
<1>8. ASSUME NEW k \in 1 .. N, k - 1 \in S
      PROVE  k \in S
  <2>. DEFINE n == size[g[k]]
              a == T[k - 1]
  <2>. HIDE DEF Own, N, T
  <2>0. k - 1 \in 0 .. N /\ k \in 0 .. N /\ k \in Nat
    BY <1>1
  <2>1. T[k] \in Nat /\ a \in Nat /\ n \in Nat
    BY <1>2, <1>3, <2>0
  <2>2. T[k] = a + n /\ h[k] = h[k - 1] \o Own(k)
    BY <1>2, <1>6
  <2>3. Sized(k - 1) /\ Placed(k - 1) /\ Filled(k - 1)
    BY <1>8
  <2>4. /\ Len(h[k]) = T[k]
        /\ \A i \in 1 .. T[k] : h[k][i] = IF i <= a THEN h[k - 1][i] ELSE Own(k)[i - a]
    <3>1. h[k - 1] \in Seq(Title) /\ Len(h[k - 1]) = a
      BY <1>6, <2>0, <2>3
    <3>2. Own(k) \in Seq(Title) /\ Len(Own(k)) = n
      BY <1>3
    <3>. DEFINE s == h[k - 1]
                o == Own(k)
    <3>. HIDE DEF s, o, n, a
    <3>3. /\ Len(s \o o) = Len(s) + Len(o)
          /\ \A i \in 1 .. Len(s) + Len(o) : (s \o o)[i] = IF i <= Len(s) THEN s[i] ELSE o[i - Len(s)]
      BY <3>1, <3>2, ConcatProperties DEF s, o
    <3>. QED
      BY <3>1, <3>2, <3>3, <2>1, <2>2 DEF s, o, a
  <2>5. Placed(k)
    <3>. SUFFICES ASSUME NEW j \in 1 .. k, NEW i \in 1 .. size[g[j]]
                  PROVE  T[j - 1] + i \in 1 .. T[k] /\ h[k][T[j - 1] + i] = <<g[j], i>>
      OBVIOUS
    <3>1. CASE j = k
      <4>1. i \in 1 .. n
        BY <3>1
      <4>2. a + i \in 1 .. T[k] /\ ~(a + i <= a) /\ a + i - a = i
        <5>. HIDE DEF a, n
        <5>. QED
          BY <4>1, <2>1, <2>2
      <4>3. h[k][a + i] = Own(k)[i]
        <5>. DEFINE x == a + i
        <5>. HIDE DEF n, a
        <5>1. x \in 1 .. T[k] /\ ~(x <= a) /\ x - a = i
          BY <2>1, <4>1, <4>2
        <5>. HIDE DEF x
        <5>2. h[k][x] = Own(k)[i]
          BY <5>1, <2>4
        <5>. QED
          BY <5>2 DEF x
      <4>. QED
        BY <3>1, <4>1, <4>2, <4>3, <1>3
    <3>2. CASE j # k
      <4>1. j \in 1 .. k - 1
        BY <3>2, <2>1
      <4>2. T[j - 1] + i \in 1 .. T[k - 1] /\ h[k - 1][T[j - 1] + i] = <<g[j], i>>
        BY <4>1, <2>3
      <4>3. T[j - 1] + i \in 1 .. T[k] /\ T[j - 1] + i <= a
        <5>1. T[j - 1] + i \in 1 .. a
          BY <4>2
        <5>. HIDE DEF a, n
        <5>. QED
          BY <5>1, <2>1, <2>2
      <4>. QED
        BY <4>2, <4>3, <2>4
    <3>. QED
      BY <3>1, <3>2
  <2>6. Filled(k)
    <3>. SUFFICES ASSUME NEW idx \in 1 .. T[k]
                  PROVE  \E j \in 1 .. k : \E i \in 1 .. size[g[j]] : idx = T[j - 1] + i
      OBVIOUS
    <3>1. CASE idx <= a
      <4>1. idx \in 1 .. a
        BY <3>1, <2>1
      <4>2. PICK j \in 1 .. k - 1 : \E i \in 1 .. size[g[j]] : idx = T[j - 1] + i
        BY <4>1, <2>3
      <4>3. j \in 1 .. k
        BY <2>0
      <4>. QED
        BY <4>2, <4>3
    <3>2. CASE ~(idx <= a)
      <4>1. idx - a \in 1 .. n /\ idx = a + (idx - a)
        <5>. HIDE DEF a, n
        <5>. QED
          BY <3>2, <2>1, <2>2
      <4>2. k \in 1 .. k
        BY <2>0
      <4>. QED
        BY <4>1, <4>2
    <3>. QED
      BY <3>1, <3>2
  <2>. QED
    BY <2>0, <2>4, <2>5, <2>6
<1>9. Sized(N) /\ Placed(N) /\ Filled(N)
  <2>. HIDE DEF S, N
  <2>1. N \in S
    <3>1. \A k \in 0 .. N : k \in S
      BY <1>1, <1>7, <1>8, Induction
    <3>. QED
      BY <1>1, <3>1
  <2>. QED
    BY <2>1 DEF S
<1>. HIDE DEF T, N, Own
<1>10. h[N] \in Seq(Title) /\ Len(TitlesOf(g)) = T[N] /\ DOMAIN TitlesOf(g) = 1 .. T[N]
  <2>1. h[N] \in Seq(Title)
    BY <1>1, <1>6
  <2>. QED
    BY <2>1, <1>6, <1>9, LenProperties
<1>11. \A k \in 1 .. N : Offset(g, k) = T[k - 1] /\ k - 1 \in 0 .. N
  BY <1>1 DEF Offset, T
<1>12. TitleCount(g, size) = T[N]
  BY DEF TitleCount, T, N
<1>13. TitlesOf(g) = h[N]
  BY <1>6
<1>14. \A k \in DOMAIN g : Offset(g, k) \in Nat
  BY <1>1, <1>2, <1>11
<1>15. ASSUME NEW k \in DOMAIN g, NEW i \in 1 .. size[g[k]]
       PROVE  Offset(g, k) + i \in DOMAIN TitlesOf(g) /\ TitlesOf(g)[Offset(g, k) + i] = <<g[k], i>>
  BY <1>1, <1>9, <1>10, <1>11, <1>13
<1>16. ASSUME NEW idx \in DOMAIN TitlesOf(g)
       PROVE  \E k \in DOMAIN g : \E i \in 1 .. size[g[k]] : idx = Offset(g, k) + i
  <2>1. PICK j \in 1 .. N : \E i \in 1 .. size[g[j]] : idx = T[j - 1] + i
    BY <1>9, <1>10
  <2>. QED
    BY <1>1, <1>11, <2>1
<1>. QED
  BY <1>10, <1>12, <1>13, <1>14, <1>15, <1>16

\* A waiter's slice of a reply: the verdicts on its own titles, at its own
\* indices, if the call's judged titles are those that the reply is about.
LEMMA SliceIsOwn ==
  ASSUME size \in [Callers -> Nat], NEW g \in Group, NEW reply,
         DOMAIN reply \subseteq DOMAIN TitlesOf(g),
         \A idx \in DOMAIN reply : reply[idx] = TitlesOf(g)[idx],
         \A idx \in DOMAIN TitlesOf(g) : TitlesOf(g)[idx] \in judged <=> idx \in DOMAIN reply,
         NEW k \in DOMAIN g
  PROVE  Slice(reply, g, k) = OwnVerdicts(g[k])
<1>. DEFINE o == Offset(g, k)
            n == size[g[k]]
            mine == {idx \in DOMAIN reply : o < idx /\ idx <= o + n}
            own == {j \in 1 .. n : <<g[k], j>> \in judged}
<1>1. /\ \A i \in 1 .. n : o + i \in DOMAIN TitlesOf(g) /\ TitlesOf(g)[o + i] = <<g[k], i>>
      /\ o \in Nat /\ n \in Nat
      /\ DOMAIN TitlesOf(g) \subseteq Nat
  <2>1. g[k] \in Callers
    BY DEF Group
  <2>2. /\ \A i \in 1 .. n : o + i \in DOMAIN TitlesOf(g) /\ TitlesOf(g)[o + i] = <<g[k], i>>
        /\ o \in Nat
        /\ TitlesOf(g) \in Seq(Title)
    BY TitlesPlaced
  <2>3. DOMAIN TitlesOf(g) \subseteq Nat
    BY <2>2, LenProperties
  <2>. QED
    BY <2>1, <2>2, <2>3
<1>. HIDE DEF o, n
<1>2. {idx - o : idx \in mine} = own
  <2>1. ASSUME NEW idx \in mine
        PROVE  idx - o \in own
    <3>1. idx \in Nat /\ idx \in DOMAIN TitlesOf(g)
      BY <1>1
    <3>2. idx - o \in 1 .. n /\ o + (idx - o) = idx
      BY <1>1, <3>1
    <3>3. TitlesOf(g)[idx] = <<g[k], idx - o>>
      BY <1>1, <3>2
    <3>. QED
      BY <3>1, <3>2, <3>3
  <2>2. ASSUME NEW i \in own
        PROVE  i \in {idx - o : idx \in mine}
    <3>1. o + i \in DOMAIN TitlesOf(g) /\ TitlesOf(g)[o + i] = <<g[k], i>>
      BY <1>1
    <3>2. o + i \in DOMAIN reply
      BY <3>1
    <3>3. o + i \in mine /\ i = (o + i) - o
      BY <1>1, <3>2
    <3>. QED
      BY <3>3
  <2>. QED
    BY <2>1, <2>2
<1>3. ASSUME NEW i \in own
      PROVE  reply[o + i] = <<g[k], i>>
  BY <1>1
<1>4. Slice(reply, g, k) = [i \in own |-> reply[o + i]]
  BY <1>2 DEF Slice, o, n
<1>. QED
  BY <1>3, <1>4 DEF n, OwnVerdicts, JudgedOf

\* title_count grows by the titles of whoever joins.
LEMMA TitleCountAppend ==
  ASSUME NEW n \in [Callers -> Nat], NEW c \in Seq(Callers), NEW w \in Callers
  PROVE  /\ TitleCount(c, n) \in Nat
         /\ TitleCount(Append(c, w), n) = TitleCount(c, n) + n[w]
         /\ TitleCount(<<w>>, n) = n[w]
<1>1. ASSUME NEW s \in Seq(Callers)
      PROVE  /\ TitleCount(s, n) \in Nat
             /\ TitleCount(Append(s, w), n) = TitleCount(s, n) + n[w]
  <2>. DEFINE N == Len(s)
              a == Append(s, w)
              T == Totals(s, n)
              U == Totals(a, n)
              S == {k \in 0 .. N : U[k] = T[k]}
  <2>1. /\ N \in Nat /\ a \in Seq(Callers) /\ Len(a) = N + 1
        /\ \A k \in 1 .. N : a[k] = s[k]
        /\ a[N + 1] = w
    BY AppendProperties
  <2>2. T \in [0 .. N -> Nat] /\ T[0] = 0 /\ \A k \in 1 .. N : T[k] = T[k - 1] + n[s[k]]
    BY TotalsDefined
  <2>3. U[0] = 0 /\ \A k \in 1 .. N + 1 : U[k] = U[k - 1] + n[a[k]]
    <3>. HIDE DEF a
    <3>. QED
      BY <2>1, TotalsDefined
  <2>. HIDE DEF N, a, T, U
  <2>4. 0 \in S
    BY <2>1, <2>2, <2>3
  <2>5. ASSUME NEW k \in 1 .. N, k - 1 \in S
        PROVE  k \in S
    <3>1. k \in 0 .. N /\ k \in 1 .. N + 1 /\ U[k - 1] = T[k - 1]
      BY <2>1, <2>5
    <3>2. U[k] = U[k - 1] + n[a[k]] /\ a[k] = s[k] /\ T[k] = T[k - 1] + n[s[k]]
      BY <2>1, <2>2, <2>3, <3>1
    <3>. QED
      BY <3>1, <3>2
  <2>6. U[N] = T[N]
    <3>1. \A k \in 0 .. N : k \in S
      <4>. HIDE DEF S
      <4>. QED
        BY <2>1, <2>4, <2>5, Induction
    <3>. QED
      BY <2>1, <3>1
  <2>7. U[N + 1] = T[N] + n[w]
    BY <2>1, <2>3, <2>6
  <2>8. TitleCount(s, n) = T[N] /\ TitleCount(a, n) = U[N + 1]
    BY <2>1 DEF TitleCount, T, U, N
  <2>9. T[N] \in Nat
    BY <2>1, <2>2
  <2>. QED
    BY <2>7, <2>8, <2>9 DEF a
<1>2. TitleCount(<<>>, n) = 0
  <2>1. <<>> \in Seq(Callers) /\ Len(<<>>) = 0
    OBVIOUS
  <2>. QED
    BY <2>1, TotalsDefined DEF TitleCount
<1>3. TitleCount(<<w>>, n) = n[w]
  <2>1. <<w>> = Append(<<>>, w) /\ <<>> \in Seq(Callers)
    OBVIOUS
  <2>2. TitleCount(<<w>>, n) = TitleCount(<<>>, n) + n[w]
    BY <1>1, <2>1
  <2>3. n[w] \in Nat
    OBVIOUS
  <2>. QED
    BY <1>2, <2>2, <2>3
<1>. QED
  BY <1>1, <1>3

\* Only the waiters of a sequence count.
LEMMA TitleCountSame ==
  ASSUME NEW m \in [Callers -> Nat], NEW n \in [Callers -> Nat], NEW ws \in Seq(Callers),
         \A r \in ToSet(ws) : m[r] = n[r]
  PROVE  TitleCount(ws, m) = TitleCount(ws, n)
<1>. DEFINE N == Len(ws)
            T == Totals(ws, m)
            U == Totals(ws, n)
            S == {k \in 0 .. N : T[k] = U[k]}
<1>1. N \in Nat /\ \A k \in 1 .. N : m[ws[k]] = n[ws[k]]
  BY DEF ToSet
<1>2. T[0] = 0 /\ \A k \in 1 .. N : T[k] = T[k - 1] + m[ws[k]]
  BY TotalsDefined
<1>3. U[0] = 0 /\ \A k \in 1 .. N : U[k] = U[k - 1] + n[ws[k]]
  BY TotalsDefined
<1>. HIDE DEF N, T, U
<1>4. 0 \in S
  BY <1>1, <1>2, <1>3
<1>5. ASSUME NEW k \in 1 .. N, k - 1 \in S
      PROVE  k \in S
  <2>1. k \in 0 .. N /\ T[k - 1] = U[k - 1]
    BY <1>1, <1>5
  <2>. QED
    BY <1>1, <1>2, <1>3, <2>1
<1>6. T[N] = U[N]
  <2>1. \A k \in 0 .. N : k \in S
    <3>. HIDE DEF S
    <3>. QED
      BY <1>1, <1>4, <1>5, Induction
  <2>. QED
    BY <1>1, <2>1
<1>. QED
  BY <1>6 DEF TitleCount, N, T, U

-----------------------------------------------------------------------------
(* How waiters are packed.                                                   *)

Packing == [groups : Seq(Group), current : Seq(Callers)]

\* Who stands in the groups of a packing, or in its current one.
Packed(acc) == Members(acc.groups) \union ToSet(acc.current)

\* Nobody has two places in a packing.
Apart(acc) ==
  /\ Distinct(acc.groups)
  /\ Injective(acc.current)
  /\ Members(acc.groups) \intersect ToSet(acc.current) = {}

\* What Append adds, and where.
LEMMA AppendMember ==
  ASSUME NEW V, NEW s \in Seq(V), NEW v \in V
  PROVE  /\ Append(s, v) \in Seq(V) \ {<<>>}
         /\ DOMAIN Append(s, v) = DOMAIN s \union {Len(s) + 1}
         /\ \A i \in DOMAIN s : Append(s, v)[i] = s[i]
         /\ Append(s, v)[Len(s) + 1] = v
         /\ Len(s) + 1 \notin DOMAIN s
         /\ ToSet(Append(s, v)) = ToSet(s) \union {v}
<1>1. /\ Append(s, v) \in Seq(V) /\ Append(s, v) # <<>>
      /\ Len(Append(s, v)) = Len(s) + 1
      /\ \A i \in 1 .. Len(s) : Append(s, v)[i] = s[i]
      /\ Append(s, v)[Len(s) + 1] = v
  BY AppendProperties
<1>2. DOMAIN s = 1 .. Len(s) /\ DOMAIN Append(s, v) = 1 .. Len(s) + 1 /\ Len(s) \in Nat
  BY <1>1
<1>3. 1 .. Len(s) + 1 = 1 .. Len(s) \union {Len(s) + 1} /\ Len(s) + 1 \notin 1 .. Len(s)
  BY <1>2
<1>. DEFINE a == Append(s, v)
            N == Len(s)
<1>4. DOMAIN a = DOMAIN s \union {N + 1} /\ \A i \in DOMAIN s : a[i] = s[i]
  BY <1>1, <1>2, <1>3
<1>5. ToSet(a) = ToSet(s) \union {v}
  <2>1. a[N + 1] = v
    BY <1>1
  <2>. HIDE DEF a, N
  <2>. QED
    BY <1>4, <2>1 DEF ToSet
<1>. QED
  BY <1>1, <1>2, <1>3, <1>4, <1>5

\* A newcomer keeps a sequence without repetition.
LEMMA InjectiveAppend ==
  ASSUME NEW s \in Seq(Callers), NEW w \in Callers, Injective(s), w \notin ToSet(s)
  PROVE  Injective(Append(s, w))
<1>. DEFINE a == Append(s, w)
            N == Len(s)
<1>1. DOMAIN a = DOMAIN s \union {N + 1} /\ (\A i \in DOMAIN s : a[i] = s[i]) /\ a[N + 1] = w
  BY AppendMember
<1>2. \A i \in DOMAIN s : s[i] # w
  BY DEF ToSet
<1>. HIDE DEF a, N
<1>3. Injective(a)
  BY <1>1, <1>2 DEF Injective
<1>. QED
  BY <1>3 DEF a

\* A group of newcomers keeps the groups without repetition.
LEMMA GroupsAppend ==
  ASSUME NEW gs \in Seq(Group), NEW c \in Group
  PROVE  /\ Append(gs, c) \in Seq(Group) \ {<<>>}
         /\ Members(Append(gs, c)) = Members(gs) \union ToSet(c)
         /\ Distinct(gs) /\ Injective(c) /\ Members(gs) \intersect ToSet(c) = {}
              => Distinct(Append(gs, c))
<1>. DEFINE a == Append(gs, c)
            N == Len(gs)
<1>1. /\ a \in Seq(Group) \ {<<>>}
      /\ DOMAIN a = DOMAIN gs \union {N + 1}
      /\ \A m \in DOMAIN gs : a[m] = gs[m]
      /\ a[N + 1] = c
  BY AppendMember
<1>. HIDE DEF a, N
<1>2. Members(a) = Members(gs) \union ToSet(c)
  <2>1. ASSUME NEW x \in Members(a)
        PROVE  x \in Members(gs) \union ToSet(c)
    BY <1>1 DEF Members
  <2>2. ASSUME NEW x \in Members(gs) \union ToSet(c)
        PROVE  x \in Members(a)
    BY <1>1 DEF Members
  <2>. QED
    BY <2>1, <2>2
<1>3. ASSUME Distinct(gs), Injective(c), Members(gs) \intersect ToSet(c) = {}
      PROVE  Distinct(a)
  <2>. SUFFICES ASSUME NEW m \in DOMAIN a, NEW k \in DOMAIN a,
                       NEW i \in DOMAIN a[m], NEW j \in DOMAIN a[k], a[m][i] = a[k][j]
                PROVE  m = k /\ i = j
    BY DEF Distinct
  <2>1. \A p \in DOMAIN gs : \A q \in DOMAIN gs[p] : gs[p][q] \in Members(gs)
    BY DEF Members, ToSet
  <2>2. \A q \in DOMAIN c : c[q] \in ToSet(c)
    BY DEF ToSet
  <2>3. CASE m \in DOMAIN gs /\ k \in DOMAIN gs
    BY <1>1, <1>3, <2>3 DEF Distinct
  <2>4. CASE m = N + 1 /\ k = N + 1
    BY <1>1, <1>3, <2>4 DEF Injective
  <2>5. CASE m \in DOMAIN gs /\ k = N + 1
    BY <1>1, <1>3, <2>1, <2>2, <2>5
  <2>6. CASE m = N + 1 /\ k \in DOMAIN gs
    BY <1>1, <1>3, <2>1, <2>2, <2>6
  <2>. QED
    BY <1>1, <2>3, <2>4, <2>5, <2>6
<1>. QED
  BY <1>1, <1>2, <1>3 DEF a

\* No group of a packing exceeds the batch size.
GroupsFit(gs, n) == \A m \in DOMAIN gs : TitleCount(gs[m], n) <= BatchSize
Fits(acc, n) == GroupsFit(acc.groups, n) /\ TitleCount(acc.current, n) <= BatchSize

\* One turn of the packing loop.
LEMMA PutPacks ==
  ASSUME NEW n \in [Callers -> Nat], NEW acc \in Packing, NEW w \in Callers
  PROVE  /\ Put(acc, w, n) \in Packing
         /\ Put(acc, w, n).current # <<>>
         /\ Packed(Put(acc, w, n)) = Packed(acc) \union {w}
         /\ Apart(acc) /\ w \notin Packed(acc) => Apart(Put(acc, w, n))
         /\ Fits(acc, n) /\ n[w] <= BatchSize => Fits(Put(acc, w, n), n)
<1>. DEFINE gs == acc.groups
            c == acc.current
            put == Put(acc, w, n)
<1>1. /\ gs \in Seq(Group) /\ c \in Seq(Callers)
      /\ BatchSize \in Nat /\ n[w] \in Nat /\ TitleCount(c, n) \in Nat
  BY BatchSizeAssumption, TitleCountAppend DEF Packing
<1>2. CASE c # <<>> /\ TitleCount(c, n) + n[w] > BatchSize
  <2>1. c \in Group
    BY <1>1, <1>2 DEF Group
  <2>2. put = [groups |-> Append(gs, c), current |-> <<w>>]
    BY <1>2 DEF Put
  <2>3. Append(gs, c) \in Seq(Group) /\ Members(Append(gs, c)) = Members(gs) \union ToSet(c)
    BY <1>1, <2>1, GroupsAppend
  <2>4. <<w>> \in Seq(Callers) /\ <<w>> # <<>> /\ ToSet(<<w>>) = {w} /\ Injective(<<w>>)
    BY DEF ToSet, Injective
  <2>5. put \in Packing /\ put.groups = Append(gs, c) /\ put.current = <<w>>
    BY <2>2, <2>3, <2>4 DEF Packing
  <2>6. ASSUME Apart(acc), w \notin Packed(acc)
        PROVE  Apart(put)
    <3>1. Distinct(Append(gs, c))
      BY <1>1, <2>1, <2>6, GroupsAppend DEF Apart
    <3>2. Members(Append(gs, c)) \intersect {w} = {}
      BY <2>3, <2>6 DEF Packed
    <3>. QED
      BY <2>4, <2>5, <3>1, <3>2 DEF Apart
  <2>7. ASSUME Fits(acc, n), n[w] <= BatchSize
        PROVE  Fits(put, n)
    <3>1. TitleCount(<<w>>, n) <= BatchSize
      BY <1>1, <2>7, TitleCountAppend
    <3>2. ASSUME NEW m \in DOMAIN Append(gs, c)
          PROVE  TitleCount(Append(gs, c)[m], n) <= BatchSize
      <4>1. Append(gs, c)[m] = c \/ (m \in DOMAIN gs /\ Append(gs, c)[m] = gs[m])
        BY <1>1, <2>1, AppendMember
      <4>. QED
        BY <4>1, <2>7 DEF Fits, GroupsFit
    <3>. QED
      BY <2>5, <3>1, <3>2 DEF Fits, GroupsFit
  <2>8. Packed(put) = Packed(acc) \union {w}
    BY <2>3, <2>4, <2>5 DEF Packed
  <2>. QED
    BY <2>4, <2>5, <2>6, <2>7, <2>8
<1>3. CASE ~(c # <<>> /\ TitleCount(c, n) + n[w] > BatchSize)
  <2>1. put = [groups |-> gs, current |-> Append(c, w)]
    BY <1>3 DEF Put
  <2>2. Append(c, w) \in Seq(Callers) /\ Append(c, w) # <<>> /\ ToSet(Append(c, w)) = ToSet(c) \union {w}
    BY <1>1, AppendMember
  <2>3. put \in Packing /\ put.groups = gs /\ put.current = Append(c, w)
    BY <1>1, <2>1, <2>2 DEF Packing
  <2>4. ASSUME Apart(acc), w \notin Packed(acc)
        PROVE  Apart(put)
    <3>1. Injective(Append(c, w))
      BY <1>1, <2>4, InjectiveAppend DEF Apart, Packed
    <3>. QED
      BY <2>2, <2>3, <2>4, <3>1 DEF Apart, Packed
  <2>5. ASSUME Fits(acc, n), n[w] <= BatchSize
        PROVE  Fits(put, n)
    <3>1. TitleCount(Append(c, w), n) <= BatchSize
      <4>1. CASE c = <<>>
        <5>1. Append(c, w) = <<w>>
          BY <4>1
        <5>. QED
          BY <2>5, <5>1, <1>1, TitleCountAppend
      <4>2. CASE c # <<>>
        <5>1. TitleCount(Append(c, w), n) = TitleCount(c, n) + n[w]
          BY <1>1, TitleCountAppend
        <5>. QED
          BY <5>1, <4>2, <1>1, <1>3
      <4>. QED
        BY <4>1, <4>2
    <3>. QED
      BY <2>3, <2>5, <3>1 DEF Fits
  <2>6. Packed(put) = Packed(acc) \union {w}
    BY <2>2, <2>3 DEF Packed
  <2>. QED
    BY <2>2, <2>3, <2>4, <2>5, <2>6
<1>. QED
  BY <1>2, <1>3

\* The loop.
LEMMA CutsDefined ==
  ASSUME NEW ws \in Seq(Callers), NEW n \in [Callers -> Nat]
  PROVE  /\ Cuts(ws, n) \in [0 .. Len(ws) -> Packing]
         /\ Cuts(ws, n)[0] = [groups |-> <<>>, current |-> <<>>]
         /\ \A k \in 1 .. Len(ws) : Cuts(ws, n)[k] = Put(Cuts(ws, n)[k - 1], ws[k], n)
<1>. DEFINE N == Len(ws)
            none == [groups |-> <<>>, current |-> <<>>]
            F == [p \in (1 .. N) \X Packing |-> Put(p[2], ws[p[1]], n)]
            Step(u) == [k \in 0 .. N |-> IF k = 0 THEN none ELSE Put(u[k - 1], ws[k], n)]
<1>1. N \in Nat /\ \A k \in 1 .. N : ws[k] \in Callers
  OBVIOUS
<1>2. F \in [(1 .. N) \X Packing -> Packing] /\ none \in Packing
  <2>1. none \in Packing
    BY DEF Packing
  <2>2. \A p \in (1 .. N) \X Packing : Put(p[2], ws[p[1]], n) \in Packing
    BY <1>1, PutPacks
  <2>. QED
    BY <2>1, <2>2
<1>3. PICK h \in [0 .. N -> Packing] : Folding(h, F, none, N)
  <2>. HIDE DEF F, N, none
  <2>. QED
    BY <1>1, <1>2, Recursion
<1>. HIDE DEF none
<1>4. h[0] = none /\ \A k \in 1 .. N : h[k] = Put(h[k - 1], ws[k], n)
  <2>1. h[0] = none
    BY <1>3 DEF Folding
  <2>. SUFFICES ASSUME NEW k \in 1 .. N
                PROVE  h[k] = Put(h[k - 1], ws[k], n)
    BY <2>1
  <2>. k - 1 \in 0 .. N
    BY <1>1
  <2>2. <<k, h[k - 1]>> \in (1 .. N) \X Packing
    OBVIOUS
  <2>3. F[<<k, h[k - 1]>>] = Put(h[k - 1], ws[k], n)
    BY <2>2
  <2>. QED
    BY <1>3, <2>3 DEF Folding
<1>5. h = Step(h)
  <2>. HIDE DEF F
  <2>. QED
    BY <1>1, <1>4
<1>6. Cuts(ws, n) = CHOOSE u : u = Step(u)
  BY DEF Cuts, none
<1>. DEFINE u == Cuts(ws, n)
<1>7. u = Step(u)
  <2>. HIDE DEF Step
  <2>. QED
    BY <1>5, <1>6
<1>. HIDE DEF u, F
<1>. HIDE DEF N
<1>8. u[0] = none /\ \A k \in 1 .. N : u[k] = Put(u[k - 1], ws[k], n)
  <2>1. \A k \in 0 .. N : u[k] = IF k = 0 THEN none ELSE Put(u[k - 1], ws[k], n)
    BY <1>7
  <2>2. 0 \in 0 .. N /\ \A k \in 1 .. N : k \in 0 .. N /\ k # 0
    BY <1>1
  <2>. HIDE DEF Step
  <2>. QED
    BY <2>1, <2>2
<1>9. \A k \in 0 .. N : u[k] = h[k]
  <2>. DEFINE S == {k \in 0 .. N : u[k] = h[k]}
  <2>1. 0 \in S
    BY <1>1, <1>4, <1>8
  <2>2. \A k \in 1 .. N : k - 1 \in S => k \in S
    BY <1>1, <1>4, <1>8
  <2>3. \A k \in 0 .. N : k \in S
    <3>. HIDE DEF S, N
    <3>. QED
      BY <1>1, <2>1, <2>2, Induction
  <2>. QED
    BY <2>3
<1>10. u \in [0 .. N -> Packing]
  <2>1. u = [k \in 0 .. N |-> u[k]]
    BY <1>7
  <2>2. \A k \in 0 .. N : u[k] \in Packing
    BY <1>3, <1>9
  <2>. QED
    BY <2>1, <2>2
<1>. QED
  BY <1>8, <1>10 DEF u, none, N

\* The groups hold each waiter once, and none exceeds the batch size.
LEMMA ChunkPacks ==
  ASSUME NEW ws \in Group, Injective(ws), NEW n \in [Callers -> 0 .. BatchSize]
  PROVE  /\ Chunk(ws, n) \in Seq(Group) \ {<<>>}
         /\ Members(Chunk(ws, n)) = ToSet(ws)
         /\ Distinct(Chunk(ws, n))
         /\ GroupsFit(Chunk(ws, n), n)
<1>. DEFINE N == Len(ws)
            u == Cuts(ws, n)
            Up(k) == {ws[i] : i \in 1 .. k}
            S == {k \in 0 .. N : /\ k # 0 => u[k].current # <<>>
                                 /\ Packed(u[k]) = Up(k)
                                 /\ Apart(u[k])
                                 /\ Fits(u[k], n)}
<1>1. /\ ws \in Seq(Callers) /\ N \in Nat /\ N # 0 /\ DOMAIN ws = 1 .. N
      /\ \A k \in 1 .. N : ws[k] \in Callers
  BY DEF Group
<1>2. BatchSize \in Nat /\ n \in [Callers -> Nat] /\ \A r \in Callers : n[r] <= BatchSize
  BY BatchSizeAssumption
<1>3. /\ u \in [0 .. N -> Packing]
      /\ u[0] = [groups |-> <<>>, current |-> <<>>]
      /\ \A k \in 1 .. N : u[k] = Put(u[k - 1], ws[k], n)
  BY <1>1, <1>2, CutsDefined
<1>. HIDE DEF u, N
<1>4. 0 \in S
  <2>1. u[0].groups = <<>> /\ u[0].current = <<>> /\ 0 \in 0 .. N
    BY <1>1, <1>3
  <2>2. Packed(u[0]) = Up(0)
    BY <2>1 DEF Packed, Members, ToSet
  <2>3. Apart(u[0])
    BY <2>1 DEF Apart, Distinct, Injective, Members, ToSet
  <2>4. Fits(u[0], n)
    <3>1. TitleCount(<<>>, n) = 0
      <4>1. <<>> \in Seq(Callers) /\ Len(<<>>) = 0
        OBVIOUS
      <4>. QED
        BY <1>2, <4>1, TotalsDefined DEF TitleCount
    <3>. QED
      BY <1>2, <2>1, <3>1 DEF Fits, GroupsFit
  <2>. QED
    BY <2>1, <2>2, <2>3, <2>4
<1>5. ASSUME NEW k \in 1 .. N, k - 1 \in S
      PROVE  k \in S
  <2>1. k \in 0 .. N /\ k - 1 \in 0 .. N /\ u[k - 1] \in Packing /\ ws[k] \in Callers
    BY <1>1, <1>3
  <2>2. Packed(u[k - 1]) = Up(k - 1) /\ Apart(u[k - 1]) /\ Fits(u[k - 1], n)
    BY <1>5
  <2>3. ws[k] \notin Up(k - 1)
    BY <1>1 DEF Injective
  <2>4. Up(k) = Up(k - 1) \union {ws[k]}
    <3>1. 1 .. k = 1 .. k - 1 \union {k}
      BY <1>1
    <3>. QED
      BY <3>1
  <2>5. n[ws[k]] <= BatchSize
    BY <1>2, <2>1
  <2>6. /\ Put(u[k - 1], ws[k], n).current # <<>>
        /\ Packed(Put(u[k - 1], ws[k], n)) = Packed(u[k - 1]) \union {ws[k]}
        /\ Apart(Put(u[k - 1], ws[k], n))
        /\ Fits(Put(u[k - 1], ws[k], n), n)
    <3>. HIDE DEF S, Up
    <3>. QED
      BY <1>2, <2>1, <2>2, <2>3, <2>5, PutPacks
  <2>7. u[k] = Put(u[k - 1], ws[k], n)
    BY <1>3
  <2>. QED
    BY <2>1, <2>2, <2>4, <2>6, <2>7
<1>6. N \in S
  <2>. HIDE DEF S
  <2>1. \A k \in 0 .. N : k \in S
    BY <1>1, <1>4, <1>5, Induction
  <2>. QED
    BY <1>1, <2>1
<1>. DEFINE gs == u[N].groups
            c == u[N].current
<1>7. /\ gs \in Seq(Group) /\ c \in Group
      /\ Members(gs) \union ToSet(c) = ToSet(ws)
      /\ Distinct(gs) /\ Injective(c) /\ Members(gs) \intersect ToSet(c) = {}
      /\ GroupsFit(gs, n) /\ TitleCount(c, n) <= BatchSize
  <2>1. u[N] \in Packing
    BY <1>1, <1>3
  <2>2. Up(N) = ToSet(ws)
    BY <1>1 DEF ToSet
  <2>. QED
    BY <1>1, <1>6, <2>1, <2>2 DEF Packing, Group, Packed, Apart, Fits
<1>8. Chunk(ws, n) = Append(gs, c)
  <2>1. c # <<>>
    BY <1>7 DEF Group
  <2>. QED
    BY <2>1 DEF Chunk, u, N
<1>. HIDE DEF gs, c
<1>9. GroupsFit(Append(gs, c), n)
  <2>1. ASSUME NEW m \in DOMAIN Append(gs, c)
        PROVE  TitleCount(Append(gs, c)[m], n) <= BatchSize
    <3>1. Append(gs, c)[m] = c \/ (m \in DOMAIN gs /\ Append(gs, c)[m] = gs[m])
      BY <1>7, AppendMember
    <3>. QED
      BY <3>1, <1>7 DEF GroupsFit
  <2>. QED
    BY <2>1 DEF GroupsFit
<1>. QED
  BY <1>7, <1>8, <1>9, GroupsAppend

-----------------------------------------------------------------------------
(* What the steps do to tasks and their titles.                              *)

\* The task that follows f when its first group is over, if there is one.
Rest(f) == IF Len(f.groups) = 1 THEN {}
           ELSE {[groups |-> Tail(f.groups), stage |-> "call", reply |-> NoVerdicts]}

\* A task that has no answer yet holds the empty reply.
LEMMA NoReply == NoVerdicts \in Reply
<1>1. NoVerdicts \in [{} -> Title]
  BY DEF NoVerdicts
<1>2. {} \in SUBSET Nat
  OBVIOUS
<1>. QED
  BY <1>1, <1>2 DEF Reply

\* A flush takes everyone in the buffer, each once.
LEMMA FlushTaskHolds ==
  ASSUME NEW ws \in Group, Injective(ws), NEW n \in [Callers -> 0 .. BatchSize]
  PROVE  /\ FlushTask(ws, n) \in Task
         /\ FlushTask(ws, n).stage = "call"
         /\ Distinct(FlushTask(ws, n).groups)
         /\ \A r : Holds(FlushTask(ws, n), r) <=> r \in ToSet(ws)
         /\ GroupsFit(FlushTask(ws, n).groups, n)
<1>1. /\ FlushTask(ws, n).groups = Chunk(ws, n)
      /\ FlushTask(ws, n).stage = "call"
      /\ Chunk(ws, n) \in Seq(Group) \ {<<>>} => FlushTask(ws, n) \in Task
  BY NoReply DEF FlushTask, Task
<1>. QED
  BY <1>1, ChunkPacks DEF Holds

\* When its first group is over a task holds the others.
LEMMA RestHolds ==
  ASSUME NEW f \in Task, Distinct(f.groups)
  PROVE  /\ Head(f.groups) \in Group
         /\ \A r \in ToSet(Head(f.groups)) : r \in Callers /\ Holds(f, r)
         /\ Injective(Head(f.groups))
         /\ Head(Head(f.groups)) \in ToSet(Head(f.groups))
         /\ Rest(f) \subseteq Task
         /\ \A e \in Rest(f) : /\ e.stage = "call" /\ Distinct(e.groups)
                               /\ \A r : Holds(e, r) <=> Holds(f, r) /\ r \notin ToSet(Head(f.groups))
         /\ \A r : Holds(f, r) => r \in ToSet(Head(f.groups)) \/ \E e \in Rest(f) : Holds(e, r)
         /\ \A e \in Rest(f) : \A m \in DOMAIN e.groups :
              \E k \in DOMAIN f.groups : e.groups[m] = f.groups[k]
<1>. DEFINE gs == f.groups
            g == Head(gs)
            tail == Tail(gs)
            N == Len(gs)
<1>1. gs \in Seq(Group) /\ gs # <<>> /\ N \in Nat /\ N # 0 /\ DOMAIN gs = 1 .. N
  BY DEF Task
<1>2. g = gs[1] /\ g \in Group /\ 1 \in DOMAIN gs /\ g \in Seq(Callers)
  BY <1>1 DEF Group
<1>3. /\ tail \in Seq(Group) /\ Len(tail) = N - 1 /\ DOMAIN tail = 1 .. N - 1
      /\ \A m \in 1 .. N - 1 : tail[m] = gs[m + 1]
  <2>1. tail \in Seq(Group) /\ Len(tail) = N - 1 /\ \A m \in 1 .. Len(tail) : tail[m] = gs[m + 1]
    BY <1>1, HeadTailProperties
  <2>. QED
    BY <2>1, LenProperties
<1>. HIDE DEF gs, tail, N
<1>4. Injective(g) /\ Distinct(gs)
  BY <1>2 DEF Distinct, Injective, gs
<1>5. Head(g) \in ToSet(g)
  <2>1. Head(g) = g[1] /\ 1 \in DOMAIN g
    BY <1>2 DEF Group
  <2>. QED
    BY <2>1 DEF ToSet
<1>. HIDE DEF g
<1>6. \A r \in ToSet(g) : r \in Callers /\ r \in Members(gs)
  BY <1>2 DEF ToSet, Members
<1>7. Distinct(tail)
  <2>. SUFFICES ASSUME NEW m \in DOMAIN tail, NEW k \in DOMAIN tail,
                       NEW i \in DOMAIN tail[m], NEW j \in DOMAIN tail[k], tail[m][i] = tail[k][j]
                PROVE  m = k /\ i = j
    BY DEF Distinct
  <2>1. m + 1 \in DOMAIN gs /\ k + 1 \in DOMAIN gs /\ tail[m] = gs[m + 1] /\ tail[k] = gs[k + 1]
    BY <1>1, <1>3
  <2>2. m + 1 = k + 1 /\ i = j
    BY <2>1, <1>4 DEF Distinct
  <2>. QED
    BY <1>3, <2>2
<1>8. ASSUME NEW r
      PROVE  /\ r \in Members(tail) <=> r \in Members(gs) /\ r \notin ToSet(g)
             /\ r \in Members(gs) => r \in ToSet(g) \/ r \in Members(tail)
  <2>1. ASSUME r \in Members(tail)
        PROVE  r \in Members(gs) /\ r \notin ToSet(g)
    <3>1. PICK m \in DOMAIN tail : \E i \in DOMAIN tail[m] : tail[m][i] = r
      BY <2>1 DEF Members, ToSet
    <3>2. m + 1 \in DOMAIN gs /\ tail[m] = gs[m + 1] /\ m + 1 # 1
      BY <1>1, <1>3
    <3>. QED
      BY <1>2, <1>4, <3>1, <3>2 DEF Members, ToSet, Distinct
  <2>2. ASSUME r \in Members(gs), r \notin ToSet(g)
        PROVE  r \in Members(tail)
    <3>1. PICK m \in DOMAIN gs : r \in ToSet(gs[m])
      BY <2>2 DEF Members
    <3>2. m # 1
      BY <1>2, <2>2, <3>1
    <3>3. m - 1 \in DOMAIN tail /\ tail[m - 1] = gs[m]
      BY <1>1, <1>3, <3>2
    <3>. QED
      BY <3>1, <3>3 DEF Members
  <2>. QED
    BY <2>1, <2>2
<1>9. \A m \in DOMAIN tail : \E k \in DOMAIN gs : tail[m] = gs[k]
  <2>1. \A m \in 1 .. N - 1 : m + 1 \in 1 .. N
    BY <1>1
  <2>. QED
    BY <1>1, <1>3, <2>1
<1>10. CASE N = 1
  <2>1. Rest(f) = {}
    BY <1>10 DEF Rest, N, gs
  <2>2. Members(tail) = {}
    BY <1>3, <1>10 DEF Members
  <2>. QED
    BY <1>2, <1>4, <1>5, <1>6, <1>8, <2>1, <2>2 DEF Holds, gs, g
<1>11. CASE N # 1
  <2>. DEFINE e == [groups |-> tail, stage |-> "call", reply |-> NoVerdicts]
  <2>1. Rest(f) = {e}
    BY <1>11 DEF Rest, N, gs, tail
  <2>2. tail # <<>>
    <3>1. Len(<<>>) = 0
      OBVIOUS
    <3>. QED
      BY <3>1, <1>1, <1>3, <1>11
  <2>3. e \in Task /\ e.groups = tail /\ e.stage = "call"
    BY <1>3, <2>2, NoReply DEF Task
  <2>. HIDE DEF e
  <2>. QED
    BY <1>2, <1>4, <1>5, <1>6, <1>7, <1>8, <1>9, <2>1, <2>3 DEF Holds, gs, g
<1>. QED
  BY <1>10, <1>11

\* No title stands twice in a call.
LEMMA TitlesDistinct ==
  ASSUME size \in [Callers -> Nat], NEW g \in Group, Injective(g),
         NEW i \in DOMAIN TitlesOf(g), NEW j \in DOMAIN TitlesOf(g), TitlesOf(g)[i] = TitlesOf(g)[j]
  PROVE  i = j
<1>1. PICK k \in DOMAIN g : \E p \in 1 .. size[g[k]] : i = Offset(g, k) + p
  BY TitlesPlaced
<1>2. PICK p \in 1 .. size[g[k]] : i = Offset(g, k) + p
  BY <1>1
<1>3. PICK m \in DOMAIN g : \E q \in 1 .. size[g[m]] : j = Offset(g, m) + q
  BY TitlesPlaced
<1>4. PICK q \in 1 .. size[g[m]] : j = Offset(g, m) + q
  BY <1>3
<1>5. TitlesOf(g)[i] = <<g[k], p>> /\ TitlesOf(g)[j] = <<g[m], q>>
  BY <1>2, <1>4, TitlesPlaced
<1>6. g[k] = g[m] /\ p = q
  <2>1. <<g[k], p>> = <<g[m], q>>
    BY <1>5
  <2>. QED
    BY <2>1, Zenon
<1>7. k = m
  BY <1>6 DEF Injective
<1>. QED
  BY <1>2, <1>4, <1>6, <1>7

\* A title of a call is one of its waiters'.
LEMMA TitlesOfWaiters ==
  ASSUME size \in [Callers -> Nat], NEW g \in Group, NEW i \in DOMAIN TitlesOf(g)
  PROVE  TitlesOf(g)[i] \in Title /\ TitlesOf(g)[i][1] \in ToSet(g)
<1>1. PICK k \in DOMAIN g : \E p \in 1 .. size[g[k]] : i = Offset(g, k) + p
  BY TitlesPlaced
<1>2. PICK p \in 1 .. size[g[k]] : i = Offset(g, k) + p
  BY <1>1
<1>3. TitlesOf(g)[i] = <<g[k], p>>
  BY <1>2, TitlesPlaced
<1>4. g[k] \in Callers /\ size[g[k]] \in Nat /\ g[k] \in ToSet(g)
  BY DEF Group, ToSet
<1>5. <<g[k], p>> \in Title /\ <<g[k], p>>[1] = g[k]
  BY <1>4 DEF Title
<1>. QED
  BY <1>3, <1>4, <1>5

\* The titles of a call do not change once its waiters have submitted.
LEMMA SameTitles ==
  ASSUME NEW g \in Group, \A r \in ToSet(g) : size'[r] = size[r]
  PROVE  TitlesOf(g)' = TitlesOf(g)
<1>1. \A k \in DOMAIN g : size'[g[k]] = size[g[k]]
  BY DEF ToSet
<1>2. [k \in DOMAIN g |-> [i \in 1 .. size'[g[k]] |-> <<g[k], i>>]]
        = [k \in DOMAIN g |-> [i \in 1 .. size[g[k]] |-> <<g[k], i>>]]
  BY <1>1
<1>. QED
  BY <1>2 DEF TitlesOf

-----------------------------------------------------------------------------
(* The steps.                                                                *)

IInv == /\ Types /\ BuffersOK /\ PlacesOK /\ WaitersOK
        /\ RepliesOK /\ VerdictsAreOwn /\ EndOK /\ BillsOK

\* The counts are numbers.
LEMMA Numbers == Types => size \in [Callers -> Nat] /\ BatchSize \in Nat
BY BatchSizeAssumption DEF Types

\* A task that has its answer is about the waiters of its first group.
LEMMA AnsweredHeld ==
  ASSUME Types, PlacesOK, NEW f \in flushing
  PROVE  /\ f \in Task /\ Head(f.groups) \in Group /\ Injective(Head(f.groups))
         /\ Head(Head(f.groups)) \in ToSet(Head(f.groups))
         /\ \A r \in ToSet(Head(f.groups)) : r \in Callers /\ Holds(f, r)
BY RestHolds DEF Types, PlacesOK

\* Waiters move from a buffer, or from nowhere, into new tasks.
LEMMA Launch ==
  ASSUME IInv, NEW X,
         flushing' = flushing \union X,
         \A x \in X : x \in Task /\ x.stage = "call" /\ Distinct(x.groups),
         \A x \in X : \A r \in Callers : Holds(x, r) =>
           /\ ~Buffered(r)'
           /\ Buffered(r) \/ status[r] = "idle"
           /\ status'[r] \notin {"idle", "served"}
           /\ \A y \in X : Holds(y, r) => y = x,
         \A r \in Callers : Buffered(r)' =>
           /\ Buffered(r) \/ status[r] = "idle"
           /\ status'[r] \notin {"idle", "served"},
         \A r \in Callers :
           \/ status'[r] = status[r]
           \/ status[r] = "idle" /\ status'[r] = "waiting"
           \/ status[r] = "waiting" /\ status'[r] = "gone",
         \A r \in Callers : status'[r] = "waiting" => Buffered(r)' \/ \E f \in flushing' : Holds(f, r),
         \A r \in Callers : status[r] # "idle" => size'[r] = size[r],
         judged' = judged, verdicts' = verdicts
  PROVE  PlacesOK' /\ WaitersOK' /\ RepliesOK' /\ VerdictsAreOwn'
<1>1. \A f \in flushing : \A r \in Callers : Holds(f, r) =>
        ~Buffered(r) /\ ~Buffered(r)' /\ status[r] \notin {"idle", "served"} /\ status'[r] \notin {"idle", "served"}
  BY DEF IInv, PlacesOK
<1>2. PlacesOK'
  <2>. SUFFICES ASSUME NEW f \in flushing'
                PROVE  /\ Distinct(f.groups)
                       /\ \A r \in Callers : Holds(f, r) =>
                            /\ ~Buffered(r)'
                            /\ status'[r] \notin {"idle", "served"}
                            /\ \A e \in flushing' : Holds(e, r) => e = f
    BY DEF PlacesOK
  <2>1. CASE f \in flushing
    BY <1>1, <2>1 DEF IInv, PlacesOK
  <2>2. CASE f \in X
    BY <1>1, <2>2
  <2>. QED
    BY <2>1, <2>2
<1>3. WaitersOK'
  BY DEF WaitersOK
<1>4. \A f \in flushing' : f.stage = "cost" => f \in flushing
  OBVIOUS
<1>5. ASSUME NEW p \in judged'
      PROVE  Done(p[1])' \/ Answered(p[1])'
  <2>1. p \in judged /\ p[1] \in Callers
    BY DEF IInv, Types, Title
  <2>2. Done(p[1]) \/ Answered(p[1])
    BY <2>1 DEF IInv, RepliesOK
  <2>3. CASE Done(p[1])
    <3>1. status[p[1]] # "idle" /\ ~Buffered(p[1]) /\ \A f \in flushing : ~Holds(f, p[1])
      BY <2>3 DEF Done
    <3>2. status'[p[1]] # "idle" /\ ~Buffered(p[1])' /\ \A f \in flushing' : ~Holds(f, p[1])
      BY <2>1, <3>1
    <3>. QED
      BY <3>2 DEF Done
  <2>4. CASE Answered(p[1])
    BY <2>4 DEF Answered
  <2>. QED
    BY <2>2, <2>3, <2>4
<1>6. ASSUME NEW f \in flushing', f.stage = "cost"
      PROVE  TitlesOf(Head(f.groups))' = TitlesOf(Head(f.groups)) /\ f \in flushing
  <2>1. f \in flushing
    BY <1>4, <1>6
  <2>2. Head(f.groups) \in Group /\ \A r \in ToSet(Head(f.groups)) : r \in Callers /\ Holds(f, r)
    BY <2>1, AnsweredHeld DEF IInv
  <2>3. \A r \in ToSet(Head(f.groups)) : size'[r] = size[r]
    BY <2>1, <2>2, <1>1
  <2>. QED
    BY <2>1, <2>2, <2>3, SameTitles
<1>7. RepliesOK'
  <2>. SUFFICES ASSUME NEW f \in flushing', f.stage = "cost"
                PROVE  LET titles == TitlesOf(Head(f.groups))'
                       IN  /\ DOMAIN f.reply \subseteq DOMAIN titles
                           /\ \A idx \in DOMAIN f.reply : f.reply[idx] = titles[idx]
                           /\ \A idx \in DOMAIN titles : titles[idx] \in judged' <=> idx \in DOMAIN f.reply
    BY <1>5 DEF RepliesOK
  <2>. QED
    BY <1>6 DEF IInv, RepliesOK
<1>8. VerdictsAreOwn'
  <2>. SUFFICES ASSUME NEW r \in Callers, status'[r] = "served"
                PROVE  verdicts'[r] = [i \in {j \in 1 .. size'[r] : <<r, j>> \in judged'} |-> <<r, i>>]
    BY DEF VerdictsAreOwn
  <2>1. status[r] = "served" /\ size'[r] = size[r]
    OBVIOUS
  <2>. QED
    BY <2>1 DEF IInv, VerdictsAreOwn
<1>. QED
  BY <1>2, <1>3, <1>7, <1>8

\* The buffers of some targets are flushed.
LEMMA BuffersFlushed ==
  ASSUME IInv, NEW Z \in SUBSET Targets,
         pending' = [t \in Targets |-> IF t \in Z THEN <<>> ELSE pending[t]],
         flushing' = flushing \union {FlushTask(pending[t], size) : t \in {u \in Z : pending[u] # <<>>}},
         \A t \in Targets \ Z : t \in timer => t \in timer',
         \A r \in Callers : status'[r] = status[r] \/ (status[r] = "waiting" /\ status'[r] = "gone"),
         size' = size, judged' = judged, verdicts' = verdicts
  PROVE  /\ PlacesOK' /\ WaitersOK' /\ RepliesOK' /\ VerdictsAreOwn' /\ BuffersOK'
         /\ pending' \in [Targets -> Seq(Callers)] /\ flushing' \subseteq Task
<1>. DEFINE F == {u \in Z : pending[u] # <<>>}
            X == {FlushTask(pending[t], size) : t \in F}
<1>1. ASSUME NEW t \in F
      PROVE  /\ FlushTask(pending[t], size) \in Task
             /\ FlushTask(pending[t], size).stage = "call"
             /\ Distinct(FlushTask(pending[t], size).groups)
             /\ \A r : Holds(FlushTask(pending[t], size), r) <=> r \in ToSet(pending[t])
  <2>1. t \in Targets /\ pending[t] \in Group /\ Injective(pending[t])
    BY DEF IInv, Types, BuffersOK, Group
  <2>2. size \in [Callers -> 0 .. BatchSize]
    BY DEF IInv, Types
  <2>. QED
    BY <2>1, <2>2, FlushTaskHolds
<1>2. \A t \in Targets : \A r \in ToSet(pending[t]) : TargetOf[r] = t
  BY DEF IInv, BuffersOK
<1>3. \A r \in Callers : TargetOf[r] \in Targets
  BY CallersAssumption
<1>4. ToSet(<<>>) = {}
  BY DEF ToSet
<1>5. \A r \in Callers : /\ Buffered(r)' <=> Buffered(r) /\ TargetOf[r] \notin Z
                         /\ Buffered(r)' => status'[r] \notin {"idle", "served"}
  BY <1>3, <1>4 DEF Buffered, IInv, WaitersOK
<1>6. ASSUME NEW x \in X, NEW r \in Callers, Holds(x, r)
      PROVE  /\ TargetOf[r] \in F /\ x = FlushTask(pending[TargetOf[r]], size)
             /\ Buffered(r) /\ ~Buffered(r)' /\ status'[r] \notin {"idle", "served"}
  <2>1. PICK t \in F : x = FlushTask(pending[t], size)
    OBVIOUS
  <2>2. r \in ToSet(pending[t])
    BY <1>1, <1>6, <2>1
  <2>3. t = TargetOf[r]
    BY <1>2, <2>2
  <2>4. Buffered(r) /\ status[r] \notin {"idle", "served"}
    BY <2>2, <2>3 DEF Buffered, IInv, WaitersOK
  <2>. QED
    BY <1>5, <2>1, <2>3, <2>4
<1>7. ASSUME NEW r \in Callers, Buffered(r), TargetOf[r] \in Z
      PROVE  \E x \in X : Holds(x, r)
  <2>1. r \in ToSet(pending[TargetOf[r]])
    BY <1>7 DEF Buffered
  <2>2. TargetOf[r] \in F
    BY <1>7, <1>4, <2>1
  <2>. QED
    BY <1>1, <2>1, <2>2
<1>8. \A x \in X : x \in Task /\ x.stage = "call" /\ Distinct(x.groups)
  BY <1>1
<1>9. flushing' = flushing \union X
  OBVIOUS
<1>. HIDE DEF X
<1>10. \A r \in Callers : status'[r] = "waiting" => Buffered(r)' \/ \E f \in flushing' : Holds(f, r)
  <2>. SUFFICES ASSUME NEW r \in Callers, status'[r] = "waiting", ~Buffered(r)'
                PROVE  \E f \in flushing' : Holds(f, r)
    OBVIOUS
  <2>1. status[r] = "waiting"
    OBVIOUS
  <2>2. Buffered(r) \/ \E f \in flushing : Holds(f, r)
    BY <2>1 DEF IInv, WaitersOK
  <2>. QED
    BY <1>5, <1>7, <1>9, <2>2
<1>11. PlacesOK' /\ WaitersOK' /\ RepliesOK' /\ VerdictsAreOwn'
  <2>1. \A x \in X : \A r \in Callers : Holds(x, r) =>
          /\ ~Buffered(r)'
          /\ Buffered(r) \/ status[r] = "idle"
          /\ status'[r] \notin {"idle", "served"}
          /\ \A y \in X : Holds(y, r) => y = x
    BY <1>6
  <2>2. \A r \in Callers : Buffered(r)' =>
          (Buffered(r) \/ status[r] = "idle") /\ status'[r] \notin {"idle", "served"}
    BY <1>5
  <2>. QED
    BY <1>8, <1>9, <1>10, <2>1, <2>2, Launch
<1>12. pending' \in [Targets -> Seq(Callers)] /\ flushing' \subseteq Task
  BY <1>8, <1>9 DEF IInv, Types
<1>13. BuffersOK'
  <2>1. Injective(<<>>)
    BY DEF Injective
  <2>. SUFFICES ASSUME NEW t \in Targets
                PROVE  /\ \A r \in ToSet(pending'[t]) : TargetOf[r] = t
                       /\ Injective(pending'[t])
                       /\ pending'[t] # <<>> => t \in timer'
    BY DEF BuffersOK
  <2>2. CASE t \in Z
    BY <1>4, <2>1, <2>2
  <2>3. CASE t \notin Z
    BY <2>3 DEF IInv, BuffersOK
  <2>. QED
    BY <2>2, <2>3
<1>. QED
  BY <1>11, <1>12, <1>13

\* submit: the caller's place is a buffer, or the task of a full one.
LEMMA SubmitKeeps ==
  ASSUME IInv, NEW r \in Callers, Submit(r)
  PROVE  IInv'
<1>. DEFINE t == TargetOf[r]
            queue == Append(pending[t], r)
            task == FlushTask(queue, size')
<1>1. PICK n \in 1 .. MostTitles[r] :
        /\ size' = [size EXCEPT ![r] = n]
        /\ IF TitleCount(queue, size') >= BatchSize
           THEN /\ pending' = [pending EXCEPT ![t] = <<>>]
                /\ timer' = timer \ {t}
                /\ flushing' = flushing \union {task}
           ELSE /\ pending' = [pending EXCEPT ![t] = queue]
                /\ timer' = timer \union {t}
                /\ UNCHANGED flushing
  BY DEF Submit
<1>2. /\ cycle = "open" /\ status[r] = "idle" /\ status' = [status EXCEPT ![r] = "waiting"]
      /\ UNCHANGED <<verdicts, cost, judged, cycle>>
  BY DEF Submit
<1>3. /\ size \in [Callers -> 0 .. BatchSize] /\ pending \in [Targets -> Seq(Callers)] /\ timer \subseteq Targets
      /\ status \in [Callers -> {"idle", "waiting", "served", "deferred", "gone"}]
      /\ flushing \subseteq Task
  BY DEF IInv, Types
<1>4. t \in Targets
  BY CallersAssumption
<1>5. size' \in [Callers -> 0 .. BatchSize] /\ \A c \in Callers : status[c] # "idle" => size'[c] = size[c]
  <2>1. n \in 0 .. BatchSize
    BY BatchSizeAssumption
  <2>. QED
    BY <1>1, <1>2, <1>3, <2>1
<1>6. /\ r \notin ToSet(pending[t])
      /\ \A c \in ToSet(pending[t]) : TargetOf[c] = t
      /\ Injective(pending[t])
  BY <1>2, <1>4 DEF IInv, BuffersOK, WaitersOK, Buffered
<1>7. queue \in Group /\ ToSet(queue) = ToSet(pending[t]) \union {r} /\ Injective(queue)
  <2>1. pending[t] \in Seq(Callers)
    BY <1>3, <1>4
  <2>. QED
    BY <1>6, <2>1, AppendMember, InjectiveAppend DEF Group
<1>8. /\ task \in Task /\ task.stage = "call" /\ Distinct(task.groups)
      /\ \A c : Holds(task, c) <=> c \in ToSet(queue)
  BY <1>5, <1>7, FlushTaskHolds
<1>. HIDE DEF queue, task
<1>9. /\ \A c \in Callers : c \in ToSet(queue) => TargetOf[c] = t
      /\ ToSet(<<>>) = {} /\ Injective(<<>>)
      /\ \A c \in Callers : TargetOf[c] \in Targets
  BY <1>6, <1>7, CallersAssumption DEF ToSet, Injective
<1>10. \A c \in Callers : c \in ToSet(queue) => /\ Buffered(c) \/ status[c] = "idle"
                                                /\ status'[c] \notin {"idle", "served"}
  BY <1>2, <1>3, <1>6, <1>7 DEF Buffered, IInv, WaitersOK
<1>11. \A c \in Callers : Buffered(c) => c # r /\ status'[c] = status[c] /\ status'[c] \notin {"idle", "served"}
  BY <1>2, <1>3 DEF IInv, WaitersOK
<1>12. \A c \in Callers : Buffered(c) /\ TargetOf[c] = t => c \in ToSet(queue)
  BY <1>7 DEF Buffered
<1>13. \A c \in Callers : status'[c] = "waiting" =>
         c \in ToSet(queue) \/ (Buffered(c) /\ TargetOf[c] # t) \/ \E f \in flushing : Holds(f, c)
  BY <1>2, <1>3, <1>7, <1>12 DEF IInv, WaitersOK
<1>14. CASE TitleCount(queue, size') >= BatchSize
  <2>1. pending' = [pending EXCEPT ![t] = <<>>] /\ timer' = timer \ {t} /\ flushing' = flushing \union {task}
    BY <1>1, <1>14
  <2>2. \A c \in Callers : Buffered(c)' <=> Buffered(c) /\ TargetOf[c] # t
    BY <1>3, <1>9, <2>1 DEF Buffered
  <2>3. PlacesOK' /\ WaitersOK' /\ RepliesOK' /\ VerdictsAreOwn'
    <3>. DEFINE X == {task}
    <3>1. flushing' = flushing \union X /\ \A x \in X : x \in Task /\ x.stage = "call" /\ Distinct(x.groups)
      BY <1>8, <2>1
    <3>2. \A x \in X : \A c \in Callers : Holds(x, c) =>
            /\ ~Buffered(c)'
            /\ Buffered(c) \/ status[c] = "idle"
            /\ status'[c] \notin {"idle", "served"}
            /\ \A y \in X : Holds(y, c) => y = x
      BY <1>8, <1>9, <1>10, <2>2
    <3>3. \A c \in Callers : Buffered(c)' =>
            (Buffered(c) \/ status[c] = "idle") /\ status'[c] \notin {"idle", "served"}
      BY <1>11, <2>2
    <3>4. \A c \in Callers : status'[c] = status[c] \/ (status[c] = "idle" /\ status'[c] = "waiting")
      BY <1>2, <1>3
    <3>5. \A c \in Callers : status'[c] = "waiting" => Buffered(c)' \/ \E f \in flushing' : Holds(f, c)
      BY <1>8, <1>13, <2>2, <3>1
    <3>. HIDE DEF X
    <3>. QED
      BY <1>2, <1>5, <3>1, <3>2, <3>3, <3>4, <3>5, Launch
  <2>4. BuffersOK'
    BY <1>3, <1>9, <2>1 DEF IInv, BuffersOK
  <2>5. Types'
    <3>1. pending' \in [Targets -> Seq(Callers)]
      <4>1. <<>> \in Seq(Callers)
        OBVIOUS
      <4>. QED
        BY <1>3, <2>1, <4>1
    <3>. QED
      BY <1>2, <1>3, <1>5, <1>8, <2>1, <3>1 DEF IInv, Types
  <2>6. EndOK' /\ BillsOK'
    BY <1>2, <2>1 DEF IInv, EndOK, BillsOK
  <2>. QED
    BY <2>3, <2>4, <2>5, <2>6 DEF IInv
<1>15. CASE ~(TitleCount(queue, size') >= BatchSize)
  <2>1. pending' = [pending EXCEPT ![t] = queue] /\ timer' = timer \union {t} /\ flushing' = flushing
    BY <1>1, <1>15
  <2>2. \A c \in Callers : Buffered(c)' <=> c \in ToSet(queue) \/ (Buffered(c) /\ TargetOf[c] # t)
    BY <1>3, <1>4, <1>9, <2>1 DEF Buffered
  <2>3. PlacesOK' /\ WaitersOK' /\ RepliesOK' /\ VerdictsAreOwn'
    <3>. DEFINE X == {}
    <3>1. flushing' = flushing \union X /\ \A x \in X : FALSE
      BY <2>1
    <3>2. /\ \A x \in X : x \in Task /\ x.stage = "call" /\ Distinct(x.groups)
          /\ \A x \in X : \A c \in Callers : Holds(x, c) =>
               /\ ~Buffered(c)'
               /\ Buffered(c) \/ status[c] = "idle"
               /\ status'[c] \notin {"idle", "served"}
               /\ \A y \in X : Holds(y, c) => y = x
      BY <3>1
    <3>3. \A c \in Callers : Buffered(c)' =>
            (Buffered(c) \/ status[c] = "idle") /\ status'[c] \notin {"idle", "served"}
      BY <1>10, <1>11, <2>2
    <3>4. \A c \in Callers : status'[c] = status[c] \/ (status[c] = "idle" /\ status'[c] = "waiting")
      BY <1>2, <1>3
    <3>5. \A c \in Callers : status'[c] = "waiting" => Buffered(c)' \/ \E f \in flushing' : Holds(f, c)
      BY <1>13, <2>1, <2>2
    <3>. HIDE DEF X
    <3>. QED
      BY <1>2, <1>5, <3>1, <3>2, <3>3, <3>4, <3>5, Launch
  <2>4. BuffersOK'
    BY <1>3, <1>4, <1>6, <1>7, <2>1 DEF IInv, BuffersOK
  <2>5. Types'
    <3>1. pending' \in [Targets -> Seq(Callers)]
      BY <1>3, <1>7, <2>1 DEF Group
    <3>. QED
      BY <1>2, <1>3, <1>4, <1>5, <2>1, <3>1 DEF IInv, Types
  <2>6. EndOK' /\ BillsOK'
    BY <1>2, <2>1 DEF IInv, EndOK, BillsOK
  <2>. QED
    BY <2>3, <2>4, <2>5, <2>6 DEF IInv
<1>. QED
  BY <1>14, <1>15

\* The timer moves a buffer into a task.
LEMMA TimerFiresKeeps ==
  ASSUME IInv, NEW t \in Targets, TimerFires(t)
  PROVE  IInv'
<1>1. /\ t \in timer /\ timer' = timer \ {t}
      /\ pending' = [pending EXCEPT ![t] = <<>>]
      /\ flushing' = IF pending[t] = <<>> THEN flushing
                     ELSE flushing \union {FlushTask(pending[t], size)}
      /\ UNCHANGED <<size, status, verdicts, cost, judged, cycle>>
  BY DEF TimerFires
<1>2. pending' = [u \in Targets |-> IF u \in {t} THEN <<>> ELSE pending[u]]
  BY <1>1 DEF IInv, Types
<1>3. flushing' = flushing \union {FlushTask(pending[u], size) : u \in {v \in {t} : pending[v] # <<>>}}
  BY <1>1
<1>4. PlacesOK' /\ WaitersOK' /\ RepliesOK' /\ VerdictsAreOwn' /\ BuffersOK'
      /\ pending' \in [Targets -> Seq(Callers)] /\ flushing' \subseteq Task
  <2>. DEFINE Z == {t}
  <2>1. /\ Z \in SUBSET Targets
        /\ pending' = [u \in Targets |-> IF u \in Z THEN <<>> ELSE pending[u]]
        /\ flushing' = flushing \union {FlushTask(pending[u], size) : u \in {v \in Z : pending[v] # <<>>}}
        /\ \A u \in Targets \ Z : u \in timer => u \in timer'
    BY <1>1, <1>2, <1>3
  <2>2. \A r \in Callers : status'[r] = status[r] \/ (status[r] = "waiting" /\ status'[r] = "gone")
    BY <1>1
  <2>. HIDE DEF Z
  <2>. QED
    BY <1>1, <2>1, <2>2, BuffersFlushed
<1>5. cycle = "open" /\ cycle' = "open"
  BY <1>1 DEF IInv, EndOK, Types
<1>6. Types'
  BY <1>1, <1>4 DEF IInv, Types
<1>7. EndOK' /\ BillsOK'
  <2>1. flushing \subseteq flushing'
    BY <1>3
  <2>. QED
    BY <1>1, <1>5, <2>1 DEF IInv, EndOK, BillsOK
<1>. QED
  BY <1>4, <1>6, <1>7 DEF IInv

\* drain moves all buffers into tasks.
LEMMA DrainKeeps ==
  ASSUME IInv, SourcesFinish \/ WatchdogFires
  PROVE  IInv'
<1>1. /\ cycle = "open" /\ cycle' \in {"draining", "aborting"}
      /\ timer' = {} /\ pending' = [t \in Targets |-> <<>>]
      /\ flushing' = flushing \union
           {FlushTask(pending[t], size) : t \in {u \in Targets : pending[u] # <<>>}}
      /\ UNCHANGED <<size, verdicts, cost, judged>>
  BY DEF SourcesFinish, WatchdogFires, DrainBuffers
<1>2. /\ status' \in [Callers -> {"idle", "waiting", "served", "deferred", "gone"}]
      /\ \A r \in Callers : /\ status'[r] = status[r] \/ (status[r] = "waiting" /\ status'[r] = "gone")
                            /\ status'[r] # "waiting"
  <2>1. CASE SourcesFinish
    BY <2>1 DEF SourcesFinish, Waiting, IInv, Types
  <2>2. CASE WatchdogFires
    BY <2>2 DEF WatchdogFires, IInv, Types
  <2>. QED
    BY <2>1, <2>2
<1>3. PlacesOK' /\ WaitersOK' /\ RepliesOK' /\ VerdictsAreOwn' /\ BuffersOK'
      /\ pending' \in [Targets -> Seq(Callers)] /\ flushing' \subseteq Task
  <2>. DEFINE Z == Targets
  <2>1. /\ Z \in SUBSET Targets
        /\ pending' = [u \in Targets |-> IF u \in Z THEN <<>> ELSE pending[u]]
        /\ flushing' = flushing \union {FlushTask(pending[u], size) : u \in {v \in Z : pending[v] # <<>>}}
        /\ \A u \in Targets \ Z : u \in timer => u \in timer'
    BY <1>1
  <2>. HIDE DEF Z
  <2>. QED
    BY <1>1, <1>2, <2>1, BuffersFlushed
<1>4. Types'
  BY <1>1, <1>2, <1>3 DEF IInv, Types
<1>5. EndOK' /\ BillsOK'
  BY <1>1, <1>2 DEF IInv, EndOK, BillsOK, Waiting
<1>. QED
  BY <1>3, <1>4, <1>5 DEF IInv

\* A caller stops waiting, or nothing changes but the cycle.
LEMMA GivingUpKeeps ==
  ASSUME IInv, NEW r \in Callers, CancelCaller(r) \/ WaitExpires(r)
  PROVE  IInv'
<1>1. /\ status[r] = "waiting" /\ \E o \in {"gone", "deferred"} : status' = [status EXCEPT ![r] = o]
      /\ UNCHANGED <<size, verdicts, pending, timer, flushing, cost, judged, cycle>>
  BY DEF CancelCaller, WaitExpires
<1>2. /\ status' \in [Callers -> {"idle", "waiting", "served", "deferred", "gone"}]
      /\ \A c \in Callers : status'[c] = status[c] \/ (status[c] = "waiting" /\ status'[c] \in {"gone", "deferred"})
  BY <1>1 DEF IInv, Types
<1>3. \A c \in Callers : Buffered(c)' <=> Buffered(c)
  BY <1>1 DEF Buffered
<1>4. Types' /\ BuffersOK' /\ BillsOK'
  BY <1>1, <1>2 DEF IInv, Types, BuffersOK, BillsOK
<1>5. PlacesOK'
  <2>. SUFFICES ASSUME NEW f \in flushing
                PROVE  /\ Distinct(f.groups)
                       /\ \A c \in Callers : Holds(f, c) =>
                            /\ ~Buffered(c)'
                            /\ status'[c] \notin {"idle", "served"}
                            /\ \A e \in flushing : Holds(e, c) => e = f
    BY <1>1 DEF PlacesOK
  <2>. QED
    BY <1>2, <1>3 DEF IInv, PlacesOK
<1>6. WaitersOK'
  BY <1>1, <1>2, <1>3 DEF IInv, WaitersOK
<1>7. RepliesOK'
  <2>1. ASSUME NEW p \in judged
        PROVE  Done(p[1])' \/ Answered(p[1])'
    <3>1. p[1] \in Callers
      BY DEF IInv, Types, Title
    <3>2. Done(p[1]) \/ Answered(p[1])
      BY DEF IInv, RepliesOK
    <3>3. Done(p[1]) => Done(p[1])'
      BY <1>1, <1>2, <1>3, <3>1 DEF Done
    <3>4. Answered(p[1]) => Answered(p[1])'
      BY <1>1 DEF Answered
    <3>. QED
      BY <3>2, <3>3, <3>4
  <2>2. \A f \in flushing : TitlesOf(Head(f.groups))' = TitlesOf(Head(f.groups))
    BY <1>1 DEF TitlesOf
  <2>3. ASSUME NEW f \in flushing', f.stage = "cost"
        PROVE  LET titles == TitlesOf(Head(f.groups))'
               IN  /\ DOMAIN f.reply \subseteq DOMAIN titles
                   /\ \A idx \in DOMAIN f.reply : f.reply[idx] = titles[idx]
                   /\ \A idx \in DOMAIN titles : titles[idx] \in judged' <=> idx \in DOMAIN f.reply
    BY <1>1, <2>2, <2>3 DEF IInv, RepliesOK
  <2>. QED
    BY <1>1, <2>1, <2>3 DEF RepliesOK
<1>8. VerdictsAreOwn'
  BY <1>1, <1>2 DEF IInv, VerdictsAreOwn
<1>9. EndOK'
  BY <1>1, <1>2 DEF IInv, EndOK, Waiting
<1>. QED
  BY <1>4, <1>5, <1>6, <1>7, <1>8, <1>9 DEF IInv

\* The scope of the cycle ends with nothing left, or with nobody waiting.
LEMMA EndingKeeps ==
  ASSUME IInv, WatchdogFiresInDrain \/ DrainReturns
  PROVE  IInv'
<1>1. /\ cycle \in {"draining", "aborting"} /\ cycle' = "closed" /\ flushing' = {}
      /\ UNCHANGED <<size, status, verdicts, pending, timer, judged>>
  BY DEF WatchdogFiresInDrain, DrainReturns
<1>2. cost' \in [Callers -> {"none", "billed", "written", "lost", "unlogged"}]
  <2>1. CASE WatchdogFiresInDrain
    <3>1. PICK B \in SUBSET {f \in flushing : f.stage = "call"} :
            cost' = [r \in Callers |-> IF \E f \in B : r = Head(Head(f.groups))
                                       THEN "billed" ELSE cost[r]]
      BY <2>1 DEF WatchdogFiresInDrain
    <3>. QED
      BY <3>1 DEF IInv, Types
  <2>2. CASE DrainReturns
    BY <2>2 DEF DrainReturns, IInv, Types
  <2>. QED
    BY <2>1, <2>2
<1>3. \A r \in Callers : Buffered(r)' <=> Buffered(r)
  BY <1>1 DEF Buffered
<1>4. Types' /\ EndOK' /\ BillsOK' /\ PlacesOK'
  BY <1>1, <1>2 DEF IInv, Types, EndOK, BillsOK, PlacesOK, Waiting
<1>5. BuffersOK' /\ VerdictsAreOwn'
  BY <1>1 DEF IInv, BuffersOK, VerdictsAreOwn
<1>6. WaitersOK'
  <2>1. \A r \in Callers : status[r] # "waiting"
    BY <1>1 DEF IInv, EndOK, Waiting
  <2>. QED
    BY <1>1, <1>3, <2>1 DEF IInv, WaitersOK
<1>7. RepliesOK'
  <2>1. ASSUME NEW p \in judged
        PROVE  Done(p[1])'
    <3>1. p[1] \in Callers
      BY DEF IInv, Types, Title
    <3>2. Done(p[1]) \/ Answered(p[1])
      BY DEF IInv, RepliesOK
    <3>3. CASE Done(p[1])
      BY <1>1, <1>3, <3>1, <3>3 DEF Done
    <3>4. CASE Answered(p[1])
      <4>1. PICK f \in flushing : p[1] \in ToSet(Head(f.groups))
        BY <3>4 DEF Answered
      <4>2. Holds(f, p[1])
        BY <4>1, AnsweredHeld DEF IInv
      <4>3. ~Buffered(p[1]) /\ status[p[1]] # "idle"
        BY <3>1, <4>2 DEF IInv, PlacesOK
      <4>. QED
        BY <1>1, <1>3, <3>1, <4>3 DEF Done
    <3>. QED
      BY <3>2, <3>3, <3>4
  <2>. QED
    BY <1>1, <2>1 DEF RepliesOK
<1>. QED
  BY <1>4, <1>5, <1>6, <1>7 DEF IInv

\* A task is over with its first group, whose waiters do not wait any more.
LEMMA GroupResolved ==
  ASSUME IInv, NEW f \in flushing, GroupDone(f),
         \A r \in Callers :
           \/ status'[r] = status[r]
           \/ /\ r \in ToSet(Head(f.groups)) /\ status[r] = "waiting"
              /\ status'[r] \in {"served", "deferred"},
         \A r \in ToSet(Head(f.groups)) : status'[r] # "waiting",
         UNCHANGED <<size, pending, timer, judged, cycle>>
  PROVE  /\ BuffersOK' /\ PlacesOK' /\ WaitersOK' /\ RepliesOK' /\ EndOK'
         /\ flushing' \subseteq Task
<1>. DEFINE g == Head(f.groups)
            X == Rest(f)
<1>1. flushing' = (flushing \ {f}) \union X
  BY DEF GroupDone, Rest
<1>2. /\ f \in Task /\ flushing \subseteq Task
      /\ \A r \in ToSet(g) : r \in Callers /\ Holds(f, r)
      /\ \A e \in X : /\ e \in Task /\ e.stage = "call" /\ Distinct(e.groups)
                      /\ \A r : Holds(e, r) <=> Holds(f, r) /\ r \notin ToSet(g)
      /\ \A r : Holds(f, r) => r \in ToSet(g) \/ \E e \in X : Holds(e, r)
      /\ \A d, e \in X : d = e
  <2>1. f \in Task /\ flushing \subseteq Task /\ Distinct(f.groups)
    BY DEF IInv, Types, PlacesOK
  <2>2. \A d, e \in X : d = e
    BY DEF Rest
  <2>. QED
    BY <2>1, <2>2, RestHolds
<1>3. \A r \in Callers : Buffered(r)' <=> Buffered(r)
  BY DEF Buffered
<1>4. \A e \in flushing : \A r \in Callers : Holds(e, r) =>
        /\ ~Buffered(r) /\ status[r] \notin {"idle", "served"}
        /\ \A d \in flushing : Holds(d, r) => d = e
  BY DEF IInv, PlacesOK
<1>. HIDE DEF X, g
<1>5. flushing' \subseteq Task
  BY <1>1, <1>2
<1>6. BuffersOK'
  BY DEF IInv, BuffersOK
<1>7. PlacesOK'
  <2>. SUFFICES ASSUME NEW e \in flushing'
                PROVE  /\ Distinct(e.groups)
                       /\ \A r \in Callers : Holds(e, r) =>
                            /\ ~Buffered(r)'
                            /\ status'[r] \notin {"idle", "served"}
                            /\ \A d \in flushing' : Holds(d, r) => d = e
    BY DEF PlacesOK
  <2>1. CASE e \in flushing /\ e # f
    <3>1. Distinct(e.groups)
      BY <2>1 DEF IInv, PlacesOK
    <3>2. ASSUME NEW r \in Callers, Holds(e, r)
          PROVE  /\ ~Buffered(r)' /\ status'[r] \notin {"idle", "served"}
                 /\ \A d \in flushing' : Holds(d, r) => d = e
      <4>1. ~Holds(f, r)
        BY <1>4, <2>1, <3>2
      <4>2. status'[r] = status[r]
        BY <1>2, <4>1 DEF g
      <4>. QED
        BY <1>1, <1>2, <1>3, <1>4, <2>1, <3>2, <4>1, <4>2
    <3>. QED
      BY <3>1, <3>2
  <2>2. CASE e \in X
    <3>1. Distinct(e.groups)
      BY <1>2, <2>2
    <3>2. ASSUME NEW r \in Callers, Holds(e, r)
          PROVE  /\ ~Buffered(r)' /\ status'[r] \notin {"idle", "served"}
                 /\ \A d \in flushing' : Holds(d, r) => d = e
      <4>1. Holds(f, r) /\ r \notin ToSet(g)
        BY <1>2, <2>2, <3>2
      <4>2. status'[r] = status[r]
        BY <4>1 DEF g
      <4>. QED
        BY <1>1, <1>2, <1>3, <1>4, <2>2, <4>1, <4>2
    <3>. QED
      BY <3>1, <3>2
  <2>. QED
    BY <1>1, <2>1, <2>2
<1>8. WaitersOK'
  <2>. SUFFICES ASSUME NEW r \in Callers
                PROVE  /\ Buffered(r)' => status'[r] \notin {"idle", "served"}
                       /\ status'[r] = "waiting" => Buffered(r)' \/ \E e \in flushing' : Holds(e, r)
    BY DEF WaitersOK
  <2>1. ASSUME Buffered(r)
        PROVE  status'[r] \notin {"idle", "served"}
    <3>1. ~Holds(f, r)
      BY <1>4, <2>1
    <3>2. status'[r] = status[r]
      BY <1>2, <3>1 DEF g
    <3>. QED
      BY <2>1, <3>2 DEF IInv, WaitersOK
  <2>2. ASSUME status'[r] = "waiting", ~Buffered(r)
        PROVE  \E e \in flushing' : Holds(e, r)
    <3>1. status[r] = "waiting" /\ r \notin ToSet(g)
      BY <2>2 DEF g
    <3>2. PICK e \in flushing : Holds(e, r)
      BY <2>2, <3>1 DEF IInv, WaitersOK
    <3>. QED
      BY <1>1, <1>2, <3>1, <3>2
  <2>. QED
    BY <1>3, <2>1, <2>2
<1>9. RepliesOK'
  <2>1. ASSUME NEW p \in judged
        PROVE  Done(p[1])' \/ Answered(p[1])'
    <3>1. p[1] \in Callers
      BY DEF IInv, Types, Title
    <3>2. Done(p[1]) \/ Answered(p[1])
      BY DEF IInv, RepliesOK
    <3>3. CASE Done(p[1])
      <4>1. status[p[1]] # "idle" /\ ~Buffered(p[1]) /\ \A e \in flushing : ~Holds(e, p[1])
        BY <3>3 DEF Done
      <4>2. status'[p[1]] # "idle" /\ ~Buffered(p[1])' /\ \A e \in flushing' : ~Holds(e, p[1])
        BY <1>1, <1>2, <1>3, <3>1, <4>1
      <4>. QED
        BY <4>2 DEF Done
    <3>4. CASE p[1] \in ToSet(g)
      <4>1. Holds(f, p[1])
        BY <1>2, <3>4
      <4>2. status'[p[1]] # "idle" /\ ~Buffered(p[1])' /\ \A e \in flushing' : ~Holds(e, p[1])
        BY <1>1, <1>2, <1>3, <1>4, <3>1, <3>4, <4>1
      <4>. QED
        BY <4>2 DEF Done
    <3>5. CASE Answered(p[1]) /\ p[1] \notin ToSet(g)
      <4>1. PICK e \in flushing : e.stage = "cost" /\ p[1] \in ToSet(Head(e.groups))
        BY <3>5 DEF Answered
      <4>2. e \in flushing'
        BY <1>1, <3>5, <4>1 DEF g
      <4>. QED
        BY <4>1, <4>2 DEF Answered
    <3>. QED
      BY <3>2, <3>3, <3>4, <3>5
  <2>2. \A e \in flushing : TitlesOf(Head(e.groups))' = TitlesOf(Head(e.groups))
    BY DEF TitlesOf
  <2>3. ASSUME NEW e \in flushing', e.stage = "cost"
        PROVE  LET titles == TitlesOf(Head(e.groups))'
               IN  /\ DOMAIN e.reply \subseteq DOMAIN titles
                   /\ \A idx \in DOMAIN e.reply : e.reply[idx] = titles[idx]
                   /\ \A idx \in DOMAIN titles : titles[idx] \in judged' <=> idx \in DOMAIN e.reply
    <3>1. e \in flushing
      BY <1>1, <1>2, <2>3
    <3>. QED
      BY <2>2, <2>3, <3>1 DEF IInv, RepliesOK
  <2>. QED
    BY <2>1, <2>3 DEF RepliesOK
<1>10. EndOK'
  BY DEF IInv, EndOK, Waiting
<1>. QED
  BY <1>5, <1>6, <1>7, <1>8, <1>9, <1>10

\* A failed call defers whoever still waits for it.
LEMMA CallFailsKeeps ==
  ASSUME IInv, NEW f \in flushing, CallFails(f) \/ CallMalformed(f)
  PROVE  IInv'
<1>. DEFINE g == Head(f.groups)
<1>1. /\ f.stage = "call" /\ GroupDone(f)
      /\ status' = [r \in Callers |-> IF r \in ToSet(g) /\ status[r] = "waiting"
                                      THEN "deferred" ELSE status[r]]
      /\ UNCHANGED <<size, verdicts, pending, timer, judged, cycle>>
      /\ cost' = cost \/ cost' = [cost EXCEPT ![Head(g)] = "unlogged"]
  BY DEF CallFails, CallMalformed, Fail
<1>2. /\ status' \in [Callers -> {"idle", "waiting", "served", "deferred", "gone"}]
      /\ \A r \in Callers : \/ status'[r] = status[r]
                            \/ /\ r \in ToSet(Head(f.groups)) /\ status[r] = "waiting"
                               /\ status'[r] \in {"served", "deferred"}
      /\ \A r \in Callers : status'[r] = "served" <=> status[r] = "served"
  BY <1>1 DEF IInv, Types
<1>3. \A r \in ToSet(Head(f.groups)) : status'[r] # "waiting"
  <2>1. \A r \in ToSet(g) : r \in Callers
    BY AnsweredHeld DEF IInv
  <2>. QED
    BY <1>1, <2>1
<1>4. BuffersOK' /\ PlacesOK' /\ WaitersOK' /\ RepliesOK' /\ EndOK' /\ flushing' \subseteq Task
  BY <1>1, <1>2, <1>3, GroupResolved
<1>5. Types'
  <2>1. cost' \in [Callers -> {"none", "billed", "written", "lost", "unlogged"}]
    BY <1>1 DEF IInv, Types
  <2>. QED
    BY <1>1, <1>2, <1>4, <2>1 DEF IInv, Types
<1>6. VerdictsAreOwn'
  BY <1>1, <1>2 DEF IInv, VerdictsAreOwn
<1>7. BillsOK'
  <2>1. \A e \in flushing : e.stage = "cost" => e \in flushing'
    BY <1>1 DEF GroupDone
  <2>2. \A r \in Callers : cost'[r] = "billed" => cost[r] = "billed"
    BY <1>1 DEF IInv, Types
  <2>. QED
    BY <1>1, <2>1, <2>2 DEF IInv, BillsOK
<1>. QED
  BY <1>4, <1>5, <1>6, <1>7 DEF IInv

\* What a waiter is handed is what the model returned for its titles.
LEMMA Handed ==
  ASSUME Types, PlacesOK, RepliesOK, NEW f \in flushing, f.stage = "cost",
         NEW k \in DOMAIN Head(f.groups)
  PROVE  LET r == Head(f.groups)[k]
         IN  Slice(f.reply, Head(f.groups), k) = OwnVerdicts(r)
<1>. DEFINE g == Head(f.groups)
<1>1. g \in Group /\ size \in [Callers -> Nat]
  BY AnsweredHeld, Numbers
<1>2. /\ DOMAIN f.reply \subseteq DOMAIN TitlesOf(g)
      /\ \A idx \in DOMAIN f.reply : f.reply[idx] = TitlesOf(g)[idx]
      /\ \A idx \in DOMAIN TitlesOf(g) : TitlesOf(g)[idx] \in judged <=> idx \in DOMAIN f.reply
  BY DEF RepliesOK
<1>3. Slice(f.reply, g, k) = OwnVerdicts(g[k])
  <2>. DEFINE reply == f.reply
  <2>1. k \in DOMAIN g
    OBVIOUS
  <2>. HIDE DEF g
  <2>2. /\ DOMAIN reply \subseteq DOMAIN TitlesOf(g)
        /\ \A idx \in DOMAIN reply : reply[idx] = TitlesOf(g)[idx]
        /\ \A idx \in DOMAIN TitlesOf(g) : TitlesOf(g)[idx] \in judged <=> idx \in DOMAIN reply
    BY <1>2
  <2>. HIDE DEF reply
  <2>3. Slice(reply, g, k) = OwnVerdicts(g[k])
    BY <1>1, <2>1, <2>2, SliceIsOwn
  <2>. QED
    BY <2>3 DEF reply
<1>. QED
  BY <1>3

\* A resolved call hands everybody who still waits a slice of its reply.
LEMMA ResolveKeeps ==
  ASSUME IInv, NEW f \in flushing, NEW o \in {"written", "lost"}, Resolve(f, o)
  PROVE  IInv'
<1>. DEFINE g == Head(f.groups)
            live == {k \in DOMAIN g : status[g[k]] = "waiting"}
<1>1. /\ f.stage = "cost" /\ GroupDone(f)
      /\ cost' = [cost EXCEPT ![Head(g)] = o]
      /\ status' = [r \in Callers |-> IF \E k \in live : g[k] = r THEN "served" ELSE status[r]]
      /\ verdicts' = [r \in Callers |-> IF \E k \in live : g[k] = r
                                        THEN Slice(f.reply, g, CHOOSE k \in live : g[k] = r)
                                        ELSE verdicts[r]]
      /\ UNCHANGED <<size, pending, timer, judged, cycle>>
  BY DEF Resolve
<1>2. \A r \in ToSet(g) : r \in Callers
  BY AnsweredHeld DEF IInv
<1>3. \A r \in Callers : (\E k \in live : g[k] = r) <=> r \in ToSet(g) /\ status[r] = "waiting"
  BY DEF ToSet
<1>4. \A r \in Callers : status'[r] = IF r \in ToSet(g) /\ status[r] = "waiting" THEN "served" ELSE status[r]
  BY <1>1, <1>3
<1>5. status' \in [Callers -> {"idle", "waiting", "served", "deferred", "gone"}]
  BY <1>1 DEF IInv, Types
<1>6. BuffersOK' /\ PlacesOK' /\ WaitersOK' /\ RepliesOK' /\ EndOK' /\ flushing' \subseteq Task
  <2>1. \A r \in Callers : \/ status'[r] = status[r]
                           \/ /\ r \in ToSet(Head(f.groups)) /\ status[r] = "waiting"
                              /\ status'[r] \in {"served", "deferred"}
    BY <1>4
  <2>2. \A r \in ToSet(Head(f.groups)) : status'[r] # "waiting"
    BY <1>2, <1>4
  <2>. QED
    BY <1>1, <2>1, <2>2, GroupResolved
<1>7. ASSUME NEW r \in Callers, \E k \in live : g[k] = r
      PROVE  verdicts'[r] = OwnVerdicts(r)
  <2>. DEFINE k == CHOOSE k \in live : g[k] = r
  <2>1. k \in live /\ g[k] = r
    BY <1>7
  <2>2. verdicts'[r] = Slice(f.reply, g, k)
    BY <1>1, <1>7
  <2>3. k \in DOMAIN g
    BY <2>1
  <2>. HIDE DEF k
  <2>. QED
    BY <1>1, <2>1, <2>2, <2>3, Handed DEF IInv
<1>8. verdicts' \in [Callers -> Reply]
  <2>. SUFFICES ASSUME NEW r \in Callers
                PROVE  verdicts'[r] \in Reply
    BY <1>1
  <2>1. CASE \E k \in live : g[k] = r
    <3>1. JudgedOf(r) \in SUBSET Nat /\ \A i \in JudgedOf(r) : <<r, i>> \in Title
      <4>1. size[r] \in Nat
        BY Numbers DEF IInv
      <4>. QED
        BY <4>1 DEF JudgedOf, Title
    <3>2. [i \in JudgedOf(r) |-> <<r, i>>] \in [JudgedOf(r) -> Title]
      BY <3>1
    <3>3. OwnVerdicts(r) \in Reply
      BY <3>1, <3>2 DEF Reply, OwnVerdicts
    <3>. QED
      BY <1>7, <2>1, <3>3
  <2>2. CASE ~\E k \in live : g[k] = r
    BY <1>1, <2>2 DEF IInv, Types
  <2>. QED
    BY <2>1, <2>2
<1>9. Types'
  <2>1. cost' \in [Callers -> {"none", "billed", "written", "lost", "unlogged"}]
    BY <1>1 DEF IInv, Types
  <2>. QED
    BY <1>1, <1>5, <1>6, <1>8, <2>1 DEF IInv, Types
<1>10. VerdictsAreOwn'
  <2>. SUFFICES ASSUME NEW r \in Callers, status'[r] = "served"
                PROVE  verdicts'[r] = OwnVerdicts(r)
    <3>1. \A r \in Callers : JudgedOf(r) = {j \in 1 .. size'[r] : <<r, j>> \in judged'}
      BY <1>1 DEF JudgedOf
    <3>. QED
      BY <3>1 DEF VerdictsAreOwn, OwnVerdicts
  <2>1. CASE \E k \in live : g[k] = r
    BY <1>7, <2>1
  <2>2. CASE ~\E k \in live : g[k] = r
    <3>1. status[r] = "served" /\ verdicts'[r] = verdicts[r]
      BY <1>1, <2>2
    <3>. QED
      BY <3>1 DEF IInv, VerdictsAreOwn, JudgedOf, OwnVerdicts
  <2>. QED
    BY <2>1, <2>2
<1>11. BillsOK'
  <2>. SUFFICES ASSUME cycle' # "closed", NEW r \in Callers, cost'[r] = "billed"
                PROVE  \E e \in flushing' : e.stage = "cost" /\ Head(Head(e.groups)) = r
    BY DEF BillsOK
  <2>1. cost[r] = "billed" /\ r # Head(g)
    BY <1>1 DEF IInv, Types
  <2>2. PICK e \in flushing : e.stage = "cost" /\ Head(Head(e.groups)) = r
    BY <1>1, <2>1 DEF IInv, BillsOK
  <2>3. e # f
    BY <2>1, <2>2
  <2>. QED
    BY <1>1, <2>2, <2>3 DEF GroupDone
<1>. QED
  BY <1>6, <1>9, <1>10, <1>11 DEF IInv

\* An answer judges titles of the call's own waiters only.
LEMMA CallAnswersKeeps ==
  ASSUME IInv, NEW f \in flushing, CallAnswers(f)
  PROVE  IInv'
<1>. DEFINE g == Head(f.groups)
            titles == TitlesOf(g)
<1>1. PICK D \in SUBSET (DOMAIN titles) :
        /\ flushing' = (flushing \ {f}) \union
             {[f EXCEPT !.stage = "cost", !.reply = [idx \in D |-> titles[idx]]]}
        /\ judged' = judged \union {titles[idx] : idx \in D}
  BY Zenon DEF CallAnswers
<1>2. /\ f.stage = "call" /\ cost' = [cost EXCEPT ![Head(g)] = "billed"]
      /\ UNCHANGED <<size, status, verdicts, pending, timer, cycle>>
  BY Zenon DEF CallAnswers
<1>. DEFINE reply == [idx \in D |-> titles[idx]]
            h == [f EXCEPT !.stage = "cost", !.reply = reply]
<1>0. judged' = judged \union {titles[idx] : idx \in D}
  BY <1>1, Zenon
<1>3. /\ f \in Task /\ g \in Group /\ Injective(g) /\ Head(g) \in ToSet(g)
      /\ \A r \in ToSet(g) : r \in Callers /\ Holds(f, r)
      /\ size \in [Callers -> Nat]
  BY AnsweredHeld, Numbers DEF IInv
<1>4. /\ titles \in Seq(Title) /\ DOMAIN titles \subseteq Nat
      /\ \A i \in DOMAIN titles : titles[i] \in Title /\ titles[i][1] \in ToSet(g)
      /\ \A i, j \in DOMAIN titles : titles[i] = titles[j] => i = j
  <2>1. titles \in Seq(Title)
    BY <1>3, TitlesPlaced
  <2>2. \A i \in DOMAIN titles : titles[i] \in Title /\ titles[i][1] \in ToSet(g)
    BY <1>3, TitlesOfWaiters
  <2>3. \A i, j \in DOMAIN titles : titles[i] = titles[j] => i = j
    BY <1>3, TitlesDistinct
  <2>4. DOMAIN titles \subseteq Nat
    BY <2>1, LenProperties
  <2>. QED
    BY <2>1, <2>2, <2>3, <2>4
<1>. HIDE DEF titles
<1>5. reply \in Reply /\ DOMAIN reply = D /\ \A idx \in D : reply[idx] = titles[idx]
  <2>1. reply \in [D -> Title] /\ D \in SUBSET Nat
    BY <1>4
  <2>. QED
    BY <2>1 DEF Reply
<1>. HIDE DEF reply
<1>6. /\ h \in Task /\ h.stage = "cost" /\ h.reply = reply /\ h.groups = f.groups
      /\ \A r : Holds(h, r) <=> Holds(f, r)
  <2>1. h \in Task /\ h.stage = "cost" /\ h.reply = reply /\ h.groups = f.groups
    BY <1>3, <1>5 DEF Task
  <2>. QED
    BY <2>1 DEF Holds
<1>7. flushing' = (flushing \ {f}) \union {h}
  BY <1>1, Zenon DEF reply
<1>. HIDE DEF h, g
<1>8. Types'
  <2>1. judged' \subseteq Title
    BY <1>0, <1>4 DEF IInv, Types
  <2>2. cost' \in [Callers -> {"none", "billed", "written", "lost", "unlogged"}]
    BY <1>2 DEF IInv, Types
  <2>. QED
    BY <1>2, <1>6, <1>7, <2>1, <2>2 DEF IInv, Types
<1>9. \A r \in Callers : Buffered(r)' <=> Buffered(r)
  BY <1>2 DEF Buffered
<1>10. \A e \in flushing : \A r \in Callers : Holds(e, r) =>
         /\ ~Buffered(r) /\ status[r] \notin {"idle", "served"}
         /\ \A d \in flushing : Holds(d, r) => d = e
  BY DEF IInv, PlacesOK
<1>11. BuffersOK'
  BY <1>2 DEF IInv, BuffersOK
<1>12. PlacesOK'
  <2>. SUFFICES ASSUME NEW e \in flushing'
                PROVE  /\ Distinct(e.groups)
                       /\ \A r \in Callers : Holds(e, r) =>
                            /\ ~Buffered(r)
                            /\ status[r] \notin {"idle", "served"}
                            /\ \A d \in flushing' : Holds(d, r) => d = e
    BY <1>2, <1>9 DEF PlacesOK
  <2>1. Distinct(f.groups)
    BY DEF IInv, PlacesOK
  <2>2. CASE e = h
    BY <1>6, <1>7, <1>10, <2>1, <2>2
  <2>3. CASE e \in flushing /\ e # f
    <3>1. Distinct(e.groups)
      BY <2>3 DEF IInv, PlacesOK
    <3>. QED
      BY <1>6, <1>7, <1>10, <2>3, <3>1
  <2>. QED
    BY <1>7, <2>2, <2>3
<1>13. WaitersOK'
  BY <1>2, <1>6, <1>7, <1>9 DEF IInv, WaitersOK
<1>14. ASSUME NEW p \in judged, p[1] \in ToSet(g)
       PROVE  FALSE
  <2>1. p[1] \in Callers /\ Holds(f, p[1])
    BY <1>3, <1>14
  <2>2. Answered(p[1])
    BY <1>14, <2>1 DEF IInv, RepliesOK, Done
  <2>3. PICK e \in flushing : e.stage = "cost" /\ p[1] \in ToSet(Head(e.groups))
    BY <2>2 DEF Answered
  <2>4. Holds(e, p[1])
    BY <2>3, AnsweredHeld DEF IInv
  <2>. QED
    BY <1>2, <1>10, <2>1, <2>3, <2>4
<1>15. RepliesOK'
  <2>1. ASSUME NEW p \in judged'
        PROVE  Done(p[1])' \/ Answered(p[1])'
    <3>1. CASE p \in judged
      <4>1. p[1] \in Callers
        BY <3>1 DEF IInv, Types, Title
      <4>2. Done(p[1]) \/ Answered(p[1])
        BY <3>1 DEF IInv, RepliesOK
      <4>3. Done(p[1]) => Done(p[1])'
        BY <1>2, <1>6, <1>7, <1>9, <4>1 DEF Done
      <4>4. Answered(p[1]) => Answered(p[1])'
        BY <1>2, <1>7 DEF Answered
      <4>. QED
        BY <4>2, <4>3, <4>4
    <3>2. CASE p \in {titles[idx] : idx \in D}
      <4>1. p[1] \in ToSet(g)
        BY <1>4, <3>2
      <4>. QED
        BY <1>6, <1>7, <4>1 DEF Answered, g
    <3>. QED
      BY <1>0, <3>1, <3>2
  <2>2. \A e \in Task : TitlesOf(Head(e.groups))' = TitlesOf(Head(e.groups))
    BY <1>2 DEF TitlesOf
  <2>3. ASSUME NEW e \in flushing', e.stage = "cost"
        PROVE  LET ts == TitlesOf(Head(e.groups))
               IN  /\ DOMAIN e.reply \subseteq DOMAIN ts
                   /\ \A idx \in DOMAIN e.reply : e.reply[idx] = ts[idx]
                   /\ \A idx \in DOMAIN ts : ts[idx] \in judged' <=> idx \in DOMAIN e.reply
    <3>1. CASE e = h
      <4>1. TitlesOf(Head(e.groups)) = titles /\ e.reply = reply
        BY <1>6, <3>1 DEF titles, g
      <4>2. \A idx \in DOMAIN titles : titles[idx] \notin judged
        BY <1>4, <1>14
      <4>3. \A idx \in DOMAIN titles : titles[idx] \in judged' <=> idx \in D
        BY <1>0, <1>4, <4>2
      <4>. QED
        BY <1>5, <4>1, <4>3
    <3>2. CASE e \in flushing /\ e # f
      <4>. DEFINE ts == TitlesOf(Head(e.groups))
      <4>1. /\ DOMAIN e.reply \subseteq DOMAIN ts
            /\ \A idx \in DOMAIN e.reply : e.reply[idx] = ts[idx]
            /\ \A idx \in DOMAIN ts : ts[idx] \in judged <=> idx \in DOMAIN e.reply
        BY <2>3, <3>2 DEF IInv, RepliesOK
      <4>2. \A idx \in DOMAIN ts : ts[idx][1] \in ToSet(Head(e.groups))
        <5>1. Head(e.groups) \in Group
          BY <3>2, AnsweredHeld DEF IInv
        <5>. QED
          BY <1>3, <5>1, TitlesOfWaiters
      <4>3. \A r \in ToSet(Head(e.groups)) : r \notin ToSet(g)
        <5>1. \A r \in ToSet(Head(e.groups)) : r \in Callers /\ Holds(e, r)
          BY <3>2, AnsweredHeld DEF IInv
        <5>. QED
          BY <1>3, <1>10, <3>2, <5>1
      <4>. HIDE DEF ts
      <4>4. \A idx \in DOMAIN ts : ts[idx] \in judged' <=> ts[idx] \in judged
        BY <1>0, <1>4, <4>2, <4>3
      <4>. QED
        BY <4>1, <4>4 DEF ts
    <3>. QED
      BY <1>7, <3>1, <3>2
  <2>4. \A e \in flushing' : e \in Task
    BY <1>8 DEF Types
  <2>. QED
    BY <2>1, <2>2, <2>3, <2>4 DEF RepliesOK
<1>16. VerdictsAreOwn'
  <2>. SUFFICES ASSUME NEW r \in Callers, status[r] = "served"
                PROVE  verdicts[r] = [i \in {j \in 1 .. size[r] : <<r, j>> \in judged'} |-> <<r, i>>]
    BY <1>2 DEF VerdictsAreOwn
  <2>1. r \notin ToSet(g)
    BY <1>3, <1>10
  <2>2. ASSUME NEW j \in 1 .. size[r]
        PROVE  <<r, j>> \in judged' <=> <<r, j>> \in judged
    <3>1. <<r, j>>[1] = r
      OBVIOUS
    <3>. QED
      BY <1>0, <1>4, <2>1, <3>1
  <2>. QED
    BY <2>2 DEF IInv, VerdictsAreOwn
<1>17. EndOK'
  BY <1>2, <1>7 DEF IInv, EndOK, Waiting
<1>18. BillsOK'
  <2>. SUFFICES ASSUME cycle # "closed", NEW r \in Callers, cost'[r] = "billed"
                PROVE  \E e \in flushing' : e.stage = "cost" /\ Head(Head(e.groups)) = r
    BY <1>2 DEF BillsOK
  <2>1. CASE r = Head(g)
    BY <1>6, <1>7, <2>1 DEF g
  <2>2. CASE r # Head(g)
    <3>1. cost[r] = "billed"
      BY <1>2, <2>2 DEF IInv, Types
    <3>2. PICK e \in flushing : e.stage = "cost" /\ Head(Head(e.groups)) = r
      BY <3>1 DEF IInv, BillsOK
    <3>. QED
      BY <1>2, <1>7, <3>2
  <2>. QED
    BY <2>1, <2>2
<1>. QED
  BY <1>8, <1>11, <1>12, <1>13, <1>15, <1>16, <1>17, <1>18 DEF IInv

-----------------------------------------------------------------------------
(* What holds.                                                               *)

\* The invariant holds at the start,
LEMMA InitInv == Init => IInv
<1>. SUFFICES ASSUME Init
              PROVE  IInv
  OBVIOUS
<1>1. Types
  <2>1. <<>> \in Seq(Callers) /\ BatchSize \in Nat
    BY BatchSizeAssumption
  <2>. QED
    BY <2>1, NoReply DEF Init, Types
<1>2. \A r \in Callers : ~Buffered(r)
  BY CallersAssumption DEF Init, Buffered, ToSet
<1>3. BuffersOK
  BY DEF Init, BuffersOK, ToSet, Injective
<1>4. PlacesOK /\ WaitersOK /\ RepliesOK /\ VerdictsAreOwn /\ EndOK /\ BillsOK
  BY <1>2 DEF Init, PlacesOK, WaitersOK, RepliesOK, VerdictsAreOwn, EndOK, BillsOK
<1>. QED
  BY <1>1, <1>3, <1>4 DEF IInv

\* is kept when nothing changes,
LEMMA StutterKeeps ==
  ASSUME IInv, UNCHANGED vars
  PROVE  IInv'
<1>1. UNCHANGED <<size, status, verdicts, pending, timer, flushing, cost, judged, cycle>>
  BY DEF vars
<1>2. Types' /\ BuffersOK' /\ VerdictsAreOwn' /\ EndOK' /\ BillsOK'
  BY <1>1 DEF IInv, Types, BuffersOK, VerdictsAreOwn, EndOK, BillsOK, Waiting
<1>3. PlacesOK' /\ WaitersOK'
  BY <1>1 DEF IInv, PlacesOK, WaitersOK, Buffered
<1>4. RepliesOK'
  BY <1>1 DEF IInv, RepliesOK, Done, Answered, Buffered, TitlesOf
<1>. QED
  BY <1>2, <1>3, <1>4 DEF IInv

\* and by every action;
LEMMA StepInv == IInv /\ [Next]_vars => IInv'
<1>. SUFFICES ASSUME IInv, [Next]_vars
              PROVE  IInv'
  OBVIOUS
<1>1. CASE \E r \in Callers : Submit(r) \/ CancelCaller(r) \/ WaitExpires(r)
  BY <1>1, SubmitKeeps, GivingUpKeeps
<1>2. CASE \E t \in Targets : TimerFires(t)
  BY <1>2, TimerFiresKeeps
<1>3. CASE \E f \in flushing : FlushStep(f)
  <2>1. PICK f \in flushing : FlushStep(f)
    BY <1>3
  <2>2. CASE CallAnswers(f)
    BY <2>2, CallAnswersKeeps
  <2>3. CASE CallFails(f) \/ CallMalformed(f)
    BY <2>3, CallFailsKeeps
  <2>4. CASE \E o \in {"written", "lost"} : Resolve(f, o)
    BY <2>4, ResolveKeeps
  <2>. QED
    BY <2>1, <2>2, <2>3, <2>4 DEF FlushStep
<1>4. CASE SourcesFinish \/ WatchdogFires
  BY <1>4, DrainKeeps
<1>5. CASE WatchdogFiresInDrain \/ DrainReturns
  BY <1>5, EndingKeeps
<1>6. CASE UNCHANGED vars
  BY <1>6, StutterKeeps
<1>. QED
  BY <1>1, <1>2, <1>3, <1>4, <1>5, <1>6 DEF Next

\* so it always holds.
LEMMA Invariance == Spec => []IInv
BY InitInv, StepInv, PTL DEF Spec

\* The types of the code's own state, at every point of a cycle.
THEOREM TypesHold == Spec => []TypeOK
<1>1. IInv => TypeOK
  <2>. SUFFICES ASSUME IInv
                PROVE  TypeOK
    OBVIOUS
  <2>1. \A t \in Targets : ToSet(pending[t]) \subseteq {r \in Callers : TargetOf[r] = t}
    <3>1. \A t \in Targets : pending[t] \in Seq(Callers)
      BY DEF IInv, Types
    <3>2. \A t \in Targets : \A r \in ToSet(pending[t]) : r \in Callers
      BY <3>1 DEF ToSet
    <3>. QED
      BY <3>2 DEF IInv, BuffersOK
  <2>. QED
    BY <2>1 DEF IInv, Types, TypeOK, Task
<1>. QED
  BY <1>1, Invariance, PTL

\* submit, _spawn_flush and drain move a waiter from its buffer into a group
\* of a flush task: a caller that waits stands in exactly one of those places,
\* a buffer whose timer is armed or one group of one task.
THEOREM NobodyIsForgotten == Spec => []NobodyForgotten
<1>1. IInv => NobodyForgotten
  <2>. SUFFICES ASSUME IInv, NEW r \in Waiting
                PROVE  LET buffered == {k \in DOMAIN pending[TargetOf[r]] : pending[TargetOf[r]][k] = r}
                       IN  \/ Cardinality(buffered) = 1 /\ TargetOf[r] \in timer /\ GroupsHolding(r) = {}
                           \/ buffered = {} /\ Cardinality(GroupsHolding(r)) = 1
    BY DEF NobodyForgotten
  <2>. DEFINE queue == pending[TargetOf[r]]
              buffered == {k \in DOMAIN queue : queue[k] = r}
  <2>1. r \in Callers /\ status[r] = "waiting" /\ TargetOf[r] \in Targets
    BY CallersAssumption DEF Waiting
  <2>2. \A f \in flushing : \A m \in DOMAIN f.groups : r \in ToSet(f.groups[m]) => Holds(f, r)
    BY DEF Holds, Members
  <2>3. CASE Buffered(r)
    <3>1. PICK k \in DOMAIN queue : queue[k] = r
      BY <2>3 DEF Buffered, ToSet
    <3>2. buffered = {k}
      BY <2>1, <3>1 DEF IInv, BuffersOK, Injective
    <3>3. TargetOf[r] \in timer
      <4>1. queue # <<>>
        BY <3>1
      <4>. QED
        BY <2>1, <4>1 DEF IInv, BuffersOK
    <3>4. GroupsHolding(r) = {}
      <4>1. \A f \in flushing : ~Holds(f, r)
        BY <2>1, <2>3 DEF IInv, PlacesOK
      <4>. QED
        BY <2>2, <4>1 DEF GroupsHolding
    <3>. QED
      BY <3>2, <3>3, <3>4, FS_Singleton
  <2>4. CASE ~Buffered(r)
    <3>1. buffered = {}
      BY <2>4 DEF Buffered, ToSet
    <3>2. PICK f \in flushing : Holds(f, r)
      BY <2>1, <2>4 DEF IInv, WaitersOK
    <3>3. PICK k \in DOMAIN f.groups : r \in ToSet(f.groups[k])
      BY <3>2 DEF Holds, Members
    <3>4. \A e \in flushing : Holds(e, r) => e = f
      BY <2>1, <3>2 DEF IInv, PlacesOK
    <3>5. \A m \in DOMAIN f.groups : r \in ToSet(f.groups[m]) => m = k
      BY <3>3 DEF IInv, PlacesOK, Distinct, ToSet
    <3>6. GroupsHolding(r) = {<<f, k>>}
      <4>1. <<f, k>> \in GroupsHolding(r)
        BY <3>3 DEF GroupsHolding
      <4>2. ASSUME NEW x \in GroupsHolding(r)
            PROVE  x = <<f, k>>
        <5>1. PICK e \in flushing : \E m \in DOMAIN e.groups : r \in ToSet(e.groups[m]) /\ x = <<e, m>>
          BY DEF GroupsHolding
        <5>2. PICK m \in DOMAIN e.groups : r \in ToSet(e.groups[m]) /\ x = <<e, m>>
          BY <5>1
        <5>3. e = f
          BY <2>2, <3>4, <5>2
        <5>4. m = k
          BY <3>5, <5>2, <5>3
        <5>. QED
          BY <5>2, <5>3, <5>4
      <4>. QED
        BY <4>1, <4>2
    <3>. QED
      BY <3>1, <3>6, FS_Singleton
  <2>. QED
    BY <2>3, <2>4
<1>. QED
  BY <1>1, Invariance, PTL

\* _run_group: a caller is handed the verdicts on its own titles, at its
\* own indices, and every one that the model returned for them.
THEOREM VerdictsGoHome == Spec => []VerdictsAreOwn
BY Invariance, PTL DEF IInv

\* _run_group: while the cycle lives, a billed call whose reply was used has
\* one task that will write its cost row, whoever of its waiters is cancelled.
\* (A call billed for an unusable reply has none: CallMalformed.)
THEOREM BillsHaveTasks == Spec => []BilledCallsAreOwned
<1>1. IInv => BilledCallsAreOwned
  <2>. SUFFICES ASSUME IInv, cycle # "closed", NEW r \in Callers, cost[r] = "billed"
                PROVE  HasItsTask(r)
    BY DEF BilledCallsAreOwned
  <2>1. PICK f \in flushing : f.stage = "cost" /\ Head(Head(f.groups)) = r
    BY DEF IInv, BillsOK
  <2>2. \A e \in flushing : Head(Head(e.groups)) = r => Holds(e, r)
    BY AnsweredHeld DEF IInv
  <2>3. \A e \in flushing : Head(Head(e.groups)) = r => e = f
    BY <2>1, <2>2 DEF IInv, PlacesOK
  <2>4. {e \in flushing : e.stage = "cost" /\ Head(Head(e.groups)) = r} = {f}
    BY <2>1, <2>3
  <2>. QED
    BY <2>4, FS_Singleton DEF HasItsTask
<1>. QED
  BY <1>1, Invariance, PTL

\* _cycle_coalescer: a coalescer never outlives its cycle.
THEOREM NothingIsLeft == Spec => []CycleLeavesNothing
<1>1. IInv => CycleLeavesNothing
  BY DEF IInv, EndOK, CycleLeavesNothing
<1>. QED
  BY <1>1, Invariance, PTL

-----------------------------------------------------------------------------
(* Coalescing does not show.                                                 *)

\* Waiting callers of S are told o, or there are none.
LEMMA GivesUp ==
  ASSUME status \in [Callers -> {"idle", "waiting", "served", "deferred", "gone"}],
         NEW S \in SUBSET Waiting, NEW o \in {"deferred", "gone"},
         status' = [r \in Callers |-> IF r \in S THEN o ELSE status[r]],
         UNCHANGED <<size, verdicts>>
  PROVE  [Direct!Next]_Direct!vars
<1>1. CASE S = {}
  <2>1. status' = status
    BY <1>1
  <2>. QED
    BY <2>1 DEF Direct!vars
<1>2. CASE S # {}
  <2>1. S \in SUBSET {r \in Callers : status[r] = "waiting"}
    BY DEF Waiting
  <2>2. Direct!GiveUp
    BY <1>2, <2>1 DEF Direct!GiveUp
  <2>. QED
    BY <2>2 DEF Direct!Next
<1>. QED
  BY <1>1, <1>2

\* Resolving a call serves some of its callers, each with its own verdicts.
LEMMA ResolveAnswers ==
  ASSUME IInv, NEW f \in flushing, NEW o \in {"written", "lost"}, Resolve(f, o)
  PROVE  [Direct!Next]_Direct!vars
<1>. DEFINE g == Head(f.groups)
            live == {k \in DOMAIN g : status[g[k]] = "waiting"}
            S == {r \in Callers : \E k \in live : g[k] = r}
            D == [r \in S |-> JudgedOf(r)]
<1>1. /\ f.stage = "cost" /\ UNCHANGED size
      /\ status' = [r \in Callers |-> IF \E k \in live : g[k] = r THEN "served" ELSE status[r]]
      /\ verdicts' = [r \in Callers |-> IF \E k \in live : g[k] = r
                                        THEN Slice(f.reply, g, CHOOSE k \in live : g[k] = r)
                                        ELSE verdicts[r]]
  BY DEF Resolve
<1>2. S \in SUBSET {r \in Callers : status[r] = "waiting"}
  OBVIOUS
<1>3. \A r \in S : JudgedOf(r) \subseteq 1 .. size[r] /\ JudgedOf(r) \subseteq 1 .. BatchSize
  <2>1. size \in [Callers -> 0 .. BatchSize] /\ BatchSize \in Nat
    BY Numbers DEF IInv, Types
  <2>. QED
    BY <2>1 DEF JudgedOf
<1>4. ASSUME NEW r \in S
      PROVE  verdicts'[r] = OwnVerdicts(r)
  <2>. DEFINE k == CHOOSE k \in live : g[k] = r
  <2>1. k \in live /\ g[k] = r
    OBVIOUS
  <2>2. verdicts'[r] = Slice(f.reply, g, k)
    BY <1>1
  <2>3. k \in DOMAIN g
    BY <2>1
  <2>. HIDE DEF k
  <2>. QED
    BY <1>1, <2>1, <2>2, <2>3, Handed DEF IInv
<1>. HIDE DEF live
<1>5. \A r \in Callers \ S : verdicts'[r] = verdicts[r]
  BY <1>1
<1>6. verdicts' = [r \in Callers |-> verdicts'[r]]
  BY <1>1
<1>7. status' = [r \in Callers |-> IF r \in S THEN "served" ELSE status[r]]
  BY <1>1
<1>. HIDE DEF S
<1>8. D \in [S -> SUBSET (1 .. BatchSize)] /\ \A r \in S : D[r] = JudgedOf(r)
  BY <1>3
<1>. HIDE DEF D
<1>9. verdicts' = [r \in Callers |-> IF r \in S THEN [i \in D[r] |-> <<r, i>>] ELSE verdicts[r]]
  BY <1>4, <1>5, <1>6, <1>8 DEF OwnVerdicts
<1>10. CASE S = {}
  <2>1. status' = status
    BY <1>7, <1>10 DEF IInv, Types
  <2>2. verdicts' = verdicts
    BY <1>5, <1>6, <1>10 DEF IInv, Types
  <2>. QED
    BY <1>1, <2>1, <2>2 DEF Direct!vars
<1>11. CASE S # {}
  <2>1. \A r \in S : D[r] \subseteq 1 .. size[r]
    BY <1>3, <1>8
  <2>2. \E E \in [S -> SUBSET (1 .. BatchSize)] :
          /\ \A r \in S : E[r] \subseteq 1 .. size[r]
          /\ verdicts' = [r \in Callers |-> IF r \in S THEN [i \in E[r] |-> <<r, i>>] ELSE verdicts[r]]
    BY <1>8, <1>9, <2>1
  <2>3. Direct!Answer
    BY <1>1, <1>2, <1>7, <1>11, <2>2, Zenon DEF Direct!Answer
  <2>. QED
    BY <2>3 DEF Direct!Next
<1>. QED
  BY <1>10, <1>11

\* Each step is one of un-coalesced triage, or nothing a caller sees.
LEMMA StepDirect == IInv /\ [Next]_vars => [Direct!Next]_Direct!vars
<1>. SUFFICES ASSUME IInv, [Next]_vars
              PROVE  [Direct!Next]_Direct!vars
  OBVIOUS
<1>. USE DEF Direct!vars
<1>0. status \in [Callers -> {"idle", "waiting", "served", "deferred", "gone"}]
  BY DEF IInv, Types
<1>1. ASSUME NEW r \in Callers, Submit(r)
      PROVE  [Direct!Next]_Direct!vars
  <2>1. MostTitles[r] \in 1 .. BatchSize /\ BatchSize \in Nat
    BY BatchSizeAssumption
  <2>2. 1 .. MostTitles[r] \subseteq 1 .. BatchSize
    BY <2>1
  <2>3. PICK n \in 1 .. MostTitles[r] : size' = [size EXCEPT ![r] = n]
    BY <1>1 DEF Submit
  <2>4. status[r] = "idle" /\ status' = [status EXCEPT ![r] = "waiting"] /\ UNCHANGED verdicts
    BY <1>1 DEF Submit
  <2>5. Direct!Ask(r)
    BY <2>2, <2>3, <2>4 DEF Direct!Ask
  <2>. QED
    BY <2>5 DEF Direct!Next
<1>2. ASSUME NEW r \in Callers, CancelCaller(r) \/ WaitExpires(r)
      PROVE  [Direct!Next]_Direct!vars
  <2>1. PICK o \in {"gone", "deferred"} : status' = [status EXCEPT ![r] = o]
    BY <1>2 DEF CancelCaller, WaitExpires
  <2>2. status[r] = "waiting" /\ UNCHANGED <<size, verdicts>>
    BY <1>2 DEF CancelCaller, WaitExpires
  <2>. DEFINE S == {r}
  <2>3. S \in SUBSET Waiting /\ status' = [c \in Callers |-> IF c \in S THEN o ELSE status[c]]
    BY <1>0, <2>1, <2>2 DEF Waiting
  <2>. HIDE DEF S
  <2>. QED
    BY <1>0, <2>2, <2>3, GivesUp
<1>3. ASSUME NEW f \in flushing, CallFails(f) \/ CallMalformed(f)
      PROVE  [Direct!Next]_Direct!vars
  <2>. DEFINE S == {r \in Callers : r \in ToSet(Head(f.groups)) /\ status[r] = "waiting"}
  <2>1. /\ S \in SUBSET Waiting
        /\ status' = [c \in Callers |-> IF c \in S THEN "deferred" ELSE status[c]]
        /\ UNCHANGED <<size, verdicts>>
    BY <1>3 DEF CallFails, CallMalformed, Fail, Waiting
  <2>. HIDE DEF S
  <2>. QED
    BY <1>0, <2>1, GivesUp
<1>4. ASSUME WatchdogFires
      PROVE  [Direct!Next]_Direct!vars
  <2>. DEFINE S == Waiting
  <2>1. /\ S \in SUBSET Waiting
        /\ status' = [c \in Callers |-> IF c \in S THEN "gone" ELSE status[c]]
        /\ UNCHANGED <<size, verdicts>>
    BY <1>4 DEF WatchdogFires, Waiting
  <2>. HIDE DEF S
  <2>. QED
    BY <1>0, <2>1, GivesUp
<1>5. ASSUME NEW f \in flushing, Resolve(f, "written") \/ Resolve(f, "lost")
      PROVE  [Direct!Next]_Direct!vars
  BY <1>5, ResolveAnswers
<1>6. ASSUME UNCHANGED <<size, status, verdicts>>
      PROVE  [Direct!Next]_Direct!vars
  BY <1>6
<1>7. (\E t \in Targets : TimerFires(t)) => UNCHANGED <<size, status, verdicts>>
  BY DEF TimerFires
<1>8. (\E f \in flushing : CallAnswers(f)) => UNCHANGED <<size, status, verdicts>>
  BY Zenon DEF CallAnswers
<1>9. SourcesFinish \/ WatchdogFiresInDrain \/ DrainReturns => UNCHANGED <<size, status, verdicts>>
  BY DEF SourcesFinish, WatchdogFiresInDrain, DrainReturns
<1>10. UNCHANGED vars => UNCHANGED <<size, status, verdicts>>
  BY DEF vars
<1>. HIDE DEF Direct!vars
<1>. QED
  BY <1>1, <1>2, <1>3, <1>4, <1>5, <1>6, <1>7, <1>8, <1>9, <1>10 DEF Next, FlushStep

\* Seen from its callers the coalescer is triage_titles called by each of
\* them alone, which answers late.
THEOREM Refinement == Spec => DirectSpec
<1>1. Init => Direct!Init
  BY DEF Init, Direct!Init, NoVerdicts, Direct!NoVerdicts
<1>. QED
  BY <1>1, StepDirect, Invariance, PTL DEF Spec, DirectSpec, Direct!Spec

-----------------------------------------------------------------------------
(* No call is refused for its size.                                          *)

\* triage_titles raises on more titles than phase1_batch_size(): no group of a
\* flush task exceeds it.
CallsFitTheCap == \A f \in flushing : \A m \in DOMAIN f.groups : Len(TitlesOf(f.groups[m])) <= BatchSize

GroupsFitNow == \A f \in flushing : GroupsFit(f.groups, size)

\* A full buffer is cut into calls that fit.
LEMMA SubmitFits ==
  ASSUME IInv, IInv', GroupsFitNow, NEW r \in Callers, Submit(r)
  PROVE  GroupsFitNow'
<1>. DEFINE queue == Append(pending[TargetOf[r]], r)
<1>1. /\ size \in [Callers -> 0 .. BatchSize] /\ size' \in [Callers -> 0 .. BatchSize] /\ BatchSize \in Nat
      /\ pending \in [Targets -> Seq(Callers)] /\ TargetOf[r] \in Targets
  BY Numbers, CallersAssumption DEF IInv, Types
<1>2. status[r] = "idle" /\ \E n \in Nat : size' = [size EXCEPT ![r] = n]
  <2>1. 1 .. MostTitles[r] \subseteq Nat
    BY BatchSizeAssumption
  <2>2. status[r] = "idle" /\ \E n \in 1 .. MostTitles[r] : size' = [size EXCEPT ![r] = n]
    BY DEF Submit
  <2>. QED
    BY <2>1, <2>2
<1>3. \A e \in flushing' : e \in flushing \/ e = FlushTask(queue, size')
  BY DEF Submit
<1>4. ASSUME NEW e \in flushing
      PROVE  GroupsFit(e.groups, size')
  <2>. SUFFICES ASSUME NEW m \in DOMAIN e.groups
                PROVE  TitleCount(e.groups[m], size') <= BatchSize
    BY DEF GroupsFit
  <2>1. TitleCount(e.groups[m], size) <= BatchSize
    BY DEF GroupsFitNow, GroupsFit
  <2>2. e.groups[m] \in Seq(Callers)
    BY DEF IInv, Types, Task, Group
  <2>3. \A c \in ToSet(e.groups[m]) : c \in Callers /\ Holds(e, c)
    BY <2>2 DEF ToSet, Holds, Members
  <2>4. \A c \in ToSet(e.groups[m]) : size'[c] = size[c]
    BY <1>1, <1>2, <2>3 DEF IInv, PlacesOK
  <2>5. size \in [Callers -> Nat] /\ size' \in [Callers -> Nat]
    BY <1>1
  <2>. HIDE <1>4
  <2>6. TitleCount(e.groups[m], size') = TitleCount(e.groups[m], size)
    BY <2>2, <2>4, <2>5, TitleCountSame
  <2>. QED
    BY <2>1, <2>6
<1>5. GroupsFit(FlushTask(queue, size').groups, size')
  <2>1. pending[TargetOf[r]] \in Seq(Callers) /\ Injective(pending[TargetOf[r]]) /\ r \notin ToSet(pending[TargetOf[r]])
    BY <1>1, <1>2 DEF IInv, BuffersOK, WaitersOK, Buffered
  <2>2. queue \in Group /\ Injective(queue)
    BY <2>1, AppendMember, InjectiveAppend DEF Group
  <2>. HIDE DEF queue
  <2>. QED
    BY <1>1, <2>2, FlushTaskHolds
<1>. QED
  BY <1>3, <1>4, <1>5 DEF GroupsFitNow

\* Every step keeps the calls within the cap.
LEMMA StepFits == IInv /\ IInv' /\ GroupsFitNow /\ [Next]_vars => GroupsFitNow'
<1>. SUFFICES ASSUME IInv, IInv', GroupsFitNow, [Next]_vars
              PROVE  GroupsFitNow'
  OBVIOUS
<1>1. CASE \E r \in Callers : Submit(r)
  BY <1>1, SubmitFits
<1>. DEFINE Flushes(e) == \E t \in Targets : pending[t] # <<>> /\ e = FlushTask(pending[t], size)
            Keeps(e) == \E f \in flushing : \A m \in DOMAIN e.groups :
                          \E k \in DOMAIN f.groups : e.groups[m] = f.groups[k]
<1>2. ASSUME size' = size, \A e \in flushing' : Flushes(e) \/ Keeps(e)
      PROVE  GroupsFitNow'
  <2>. SUFFICES ASSUME NEW e \in flushing'
                PROVE  GroupsFit(e.groups, size)
    BY <1>2 DEF GroupsFitNow
  <2>1. CASE Flushes(e)
    <3>1. PICK t \in Targets : pending[t] # <<>> /\ e = FlushTask(pending[t], size)
      BY <2>1
    <3>2. pending[t] \in Group /\ Injective(pending[t]) /\ size \in [Callers -> 0 .. BatchSize]
      BY <3>1 DEF IInv, Types, BuffersOK, Group
    <3>. QED
      BY <3>1, <3>2, FlushTaskHolds
  <2>2. CASE Keeps(e)
    BY <2>2 DEF GroupsFitNow, GroupsFit
  <2>. QED
    BY <1>2, <2>1, <2>2
<1>3. \A f \in flushing : Keeps(f)
  OBVIOUS
<1>4. \A f \in flushing : \A e \in Rest(f) : Keeps(e)
  <2>. SUFFICES ASSUME NEW f \in flushing, NEW e \in Rest(f), NEW m \in DOMAIN e.groups
                PROVE  \E k \in DOMAIN f.groups : e.groups[m] = f.groups[k]
    OBVIOUS
  <2>1. f \in Task /\ Distinct(f.groups)
    BY DEF IInv, Types, PlacesOK
  <2>. QED
    BY <2>1, RestHolds
<1>5. ASSUME NEW f \in flushing, GroupDone(f)
      PROVE  \A e \in flushing' : Keeps(e)
  <2>1. flushing' = (flushing \ {f}) \union Rest(f)
    BY <1>5 DEF GroupDone, Rest
  <2>. QED
    BY <1>3, <1>4, <2>1
<1>6. CASE \E f \in flushing : CallAnswers(f)
  <2>1. PICK f \in flushing : CallAnswers(f)
    BY <1>6
  <2>2. size' = size
    BY <2>1, Zenon DEF CallAnswers
  <2>3. PICK D : flushing' = (flushing \ {f}) \union
                   {[f EXCEPT !.stage = "cost", !.reply = [idx \in D |-> TitlesOf(Head(f.groups))[idx]]]}
    BY <2>1, Zenon DEF CallAnswers
  <2>. DEFINE reply == [idx \in D |-> TitlesOf(Head(f.groups))[idx]]
              h == [f EXCEPT !.stage = "cost", !.reply = reply]
  <2>4. flushing' = (flushing \ {f}) \union {h}
    BY <2>3, Zenon
  <2>. HIDE DEF reply
  <2>5. h.groups = f.groups
    BY DEF IInv, Types, Task
  <2>. HIDE DEF h
  <2>6. \A e \in flushing' : Keeps(e)
    BY <1>3, <2>4, <2>5
  <2>. QED
    BY <1>2, <2>2, <2>6
<1>7. CASE \E f \in flushing : \/ CallFails(f) \/ CallMalformed(f)
                              \/ Resolve(f, "written") \/ Resolve(f, "lost")
  <2>1. PICK f \in flushing : \/ CallFails(f) \/ CallMalformed(f)
                             \/ Resolve(f, "written") \/ Resolve(f, "lost")
    BY <1>7
  <2>2. GroupDone(f) /\ size' = size
    BY <2>1 DEF CallFails, CallMalformed, Fail, Resolve
  <2>. QED
    BY <1>2, <1>5, <2>2
<1>8. CASE (\E t \in Targets : TimerFires(t)) \/ SourcesFinish \/ WatchdogFires
  <2>1. size' = size /\ \A e \in flushing' : e \in flushing \/ Flushes(e)
    BY <1>8 DEF TimerFires, SourcesFinish, WatchdogFires, DrainBuffers
  <2>. QED
    BY <1>2, <1>3, <2>1
<1>9. CASE \/ \E r \in Callers : CancelCaller(r) \/ WaitExpires(r)
           \/ WatchdogFiresInDrain \/ DrainReturns \/ UNCHANGED vars
  <2>1. size' = size /\ flushing' \subseteq flushing
    BY <1>9 DEF CancelCaller, WaitExpires, WatchdogFiresInDrain, DrainReturns, vars
  <2>. QED
    BY <1>2, <1>3, <2>1
<1>. QED
  BY <1>1, <1>6, <1>7, <1>8, <1>9 DEF Next, FlushStep

\* _chunk_waiters: no call carries more titles than triage_titles takes, so
\* none of them is refused for the size of what was put together.
THEOREM CallsAlwaysFit == Spec => []CallsFitTheCap
<1>1. Init => GroupsFitNow
  BY DEF Init, GroupsFitNow
<1>2. IInv /\ GroupsFitNow => CallsFitTheCap
  <2>. SUFFICES ASSUME IInv, GroupsFitNow, NEW f \in flushing, NEW m \in DOMAIN f.groups
                PROVE  Len(TitlesOf(f.groups[m])) <= BatchSize
    BY DEF CallsFitTheCap
  <2>1. f.groups[m] \in Group /\ size \in [Callers -> Nat]
    BY Numbers DEF IInv, Types, Task
  <2>2. TitleCount(f.groups[m], size) <= BatchSize
    BY DEF GroupsFitNow, GroupsFit
  <2>. QED
    BY <2>1, <2>2, TitlesPlaced
<1>3. Init /\ []IInv /\ [][Next]_vars => []GroupsFitNow
  BY <1>1, StepFits, PTL
<1>. QED
  BY <1>2, <1>3, Invariance, PTL DEF Spec

=============================================================================
