------------------------- MODULE LedgerBuffer_proofs -------------------------
(* Theorems about LedgerBuffer, for any number of rows and any sizes.        *)
EXTENDS LedgerBuffer, FiniteSetTheorems, TLAPS

Increasing(s) == \A i, j \in DOMAIN s : i < j => s[i] < s[j]

LEMMA NoRows ==
    /\ <<>> \in Seq(Row) /\ Len(<<>>) = 0 /\ Range(<<>>) = {} /\ Increasing(<<>>)
BY DEF Range, Increasing

LEMMA NoSlice == SubSeq(<<>>, 1, Len(<<>>)) = <<>>
OBVIOUS

LEMMA RangeType ==
    ASSUME NEW s \in Seq(Row)
    PROVE  Range(s) \subseteq Row /\ (s = <<>> <=> Len(s) = 0) /\ Len(s) \in Nat
BY DEF Range

\* What is known of a slice, without the arithmetic of its indices.
LEMMA SliceProperties ==
    ASSUME NEW s \in Seq(Row), NEW m \in 1 .. Len(s) + 1, NEW n \in m - 1 .. Len(s)
    PROVE  /\ SubSeq(s, m, n) \in Seq(Row)
           /\ Len(SubSeq(s, m, n)) = n - m + 1
           /\ \A i \in 1 .. n - m + 1 : SubSeq(s, m, n)[i] = s[i + m - 1]
           /\ Range(SubSeq(s, m, n)) = {s[i] : i \in m .. n}
           /\ Increasing(s) => Increasing(SubSeq(s, m, n))
<1>1. /\ Len(s) \in Nat
      /\ DOMAIN s = 1 .. Len(s)
      /\ \A i \in 1 .. Len(s) : s[i] \in Row
  OBVIOUS
<1>2. SubSeq(s, m, n) = [i \in 1 .. n - m + 1 |-> s[i + m - 1]]
  BY <1>1
<1>3. \A i \in 1 .. n - m + 1 : i + m - 1 \in 1 .. Len(s)
  BY <1>1
<1>4. SubSeq(s, m, n) \in Seq(Row)
  BY <1>1
<1>5. Len(SubSeq(s, m, n)) = n - m + 1
  BY <1>1, <1>2
<1>6. \A i \in 1 .. n - m + 1 : SubSeq(s, m, n)[i] = s[i + m - 1]
  BY <1>2
<1>7. Range(SubSeq(s, m, n)) = {s[i] : i \in m .. n}
  <2>1. ASSUME NEW i \in m .. n
        PROVE  s[i] \in Range(SubSeq(s, m, n))
    <3>1. /\ i - m + 1 \in DOMAIN SubSeq(s, m, n)
          /\ s[i] = SubSeq(s, m, n)[i - m + 1]
      BY <1>1, <1>4, <1>5, <1>6
    <3>. QED
      BY <3>1 DEF Range
  <2>2. ASSUME NEW x \in Range(SubSeq(s, m, n))
        PROVE  x \in {s[i] : i \in m .. n}
    <3>1. PICK i \in DOMAIN SubSeq(s, m, n) : x = SubSeq(s, m, n)[i]
      BY DEF Range
    <3>2. i \in 1 .. n - m + 1 /\ i + m - 1 \in m .. n
      BY <1>1, <1>4, <1>5
    <3>. QED
      BY <3>1, <3>2, <1>6
  <2>. QED
    BY <2>1, <2>2
<1>8. Increasing(s) => Increasing(SubSeq(s, m, n))
  BY <1>1, <1>2, <1>3 DEF Increasing
<1>. QED
  BY <1>4, <1>5, <1>6, <1>7, <1>8

LEMMA JoinProperties ==
    ASSUME NEW s \in Seq(Row), NEW t \in Seq(Row)
    PROVE  /\ s \o t \in Seq(Row)
           /\ Len(s \o t) = Len(s) + Len(t)
           /\ \A i \in 1 .. Len(s) : (s \o t)[i] = s[i]
           /\ \A i \in 1 .. Len(t) : (s \o t)[i + Len(s)] = t[i]
           /\ Range(s \o t) = Range(s) \union Range(t)
           /\ (/\ Increasing(s) /\ Increasing(t)
               /\ \A x \in Range(s), y \in Range(t) : x < y) => Increasing(s \o t)
<1>1. /\ s \o t \in Seq(Row)
      /\ Len(s \o t) = Len(s) + Len(t)
      /\ \A i \in 1 .. Len(s) : (s \o t)[i] = s[i]
      /\ \A i \in 1 .. Len(t) : (s \o t)[i + Len(s)] = t[i]
      /\ \A i \in Len(s) + 1 .. Len(s) + Len(t) : (s \o t)[i] = t[i - Len(s)]
  OBVIOUS
<1>2. Range(s \o t) = Range(s) \union Range(t)
  <2>1. DOMAIN (s \o t) = 1 .. Len(s) + Len(t) /\ DOMAIN s = 1 .. Len(s)
        /\ DOMAIN t = 1 .. Len(t) /\ Len(s) \in Nat /\ Len(t) \in Nat
    BY <1>1
  <2>2. ASSUME NEW x \in Range(s \o t)
        PROVE  x \in Range(s) \union Range(t)
    <3>1. PICK i \in 1 .. Len(s) + Len(t) : x = (s \o t)[i]
      BY <2>1 DEF Range
    <3>2. CASE i <= Len(s)
      BY <3>1, <3>2, <2>1, <1>1 DEF Range
    <3>3. CASE i > Len(s)
      <4>1. i - Len(s) \in DOMAIN t /\ x = t[i - Len(s)]
        BY <3>1, <3>3, <2>1, <1>1
      <4>. QED
        BY <4>1 DEF Range
    <3>. QED
      BY <3>2, <3>3, <2>1
  <2>3. ASSUME NEW i \in DOMAIN s
        PROVE  s[i] \in Range(s \o t)
    <3>1. i \in DOMAIN (s \o t) /\ s[i] = (s \o t)[i]
      BY <2>1, <1>1
    <3>. QED
      BY <3>1 DEF Range
  <2>4. ASSUME NEW i \in DOMAIN t
        PROVE  t[i] \in Range(s \o t)
    <3>1. i + Len(s) \in DOMAIN (s \o t) /\ t[i] = (s \o t)[i + Len(s)]
      BY <2>1, <1>1
    <3>. QED
      BY <3>1 DEF Range
  <2>5. Range(s) \union Range(t) \subseteq Range(s \o t)
    BY <2>3, <2>4 DEF Range
  <2>. QED
    BY <2>2, <2>5
<1>3. ASSUME Increasing(s), Increasing(t), \A x \in Range(s), y \in Range(t) : x < y
      PROVE  Increasing(s \o t)
  <2>. SUFFICES ASSUME NEW i \in 1 .. Len(s) + Len(t), NEW j \in 1 .. Len(s) + Len(t), i < j
                PROVE  (s \o t)[i] < (s \o t)[j]
    BY <1>1 DEF Increasing
  <2>1. CASE j <= Len(s)
    BY <2>1, <1>1, <1>3 DEF Increasing
  <2>2. CASE i <= Len(s) /\ j > Len(s)
    <3>1. (s \o t)[i] \in Range(s) /\ (s \o t)[j] \in Range(t)
      BY <2>2, <1>1 DEF Range
    <3>. QED
      BY <3>1, <1>3
  <2>3. CASE i > Len(s)
    BY <2>3, <1>1, <1>3 DEF Increasing
  <2>. QED
    BY <2>1, <2>2, <2>3
<1>. QED
  BY <1>1, <1>2, <1>3

(* The ceiling keeps a tail of the list: what goes is older than what stays, *)
(* something goes only if a full buffer stays, and a list that fills the     *)
(* buffer by itself hides whatever is put in front of it.                    *)
LEMMA NewestProperties ==
    ASSUME NEW s \in Seq(Row)
    PROVE  /\ Newest(s) \in Seq(Row)
           /\ Len(Newest(s)) <= MaxRows
           /\ Len(Newest(s)) <= Len(s)
           /\ Len(s) >= MaxRows => Len(Newest(s)) = MaxRows
           /\ Range(Newest(s)) \subseteq Range(s)
           /\ Range(s) \ Range(Newest(s)) # {} => Len(Newest(s)) = MaxRows
           /\ Increasing(s) => Increasing(Newest(s))
           /\ Increasing(s) =>
                \A r \in Range(s) \ Range(Newest(s)), x \in Range(Newest(s)) : r < x
           /\ s # <<>> => Newest(s) # <<>> /\ Newest(s)[Len(Newest(s))] = s[Len(s)]
<1>. USE BufferAssumption
<1>1. /\ Len(s) \in Nat
      /\ DOMAIN s = 1 .. Len(s)
      /\ \A i \in 1 .. Len(s) : s[i] \in Row
      /\ s # <<>> => Len(s) > 0
  OBVIOUS
<1>2. CASE Len(s) <= MaxRows
  <2>1. Newest(s) = s
    BY <1>1, <1>2 DEF Newest
  <2>2. Len(s) >= MaxRows => Len(s) = MaxRows
    <3>1. Len(s) \in Nat /\ MaxRows \in Nat
      BY <1>1
    <3>. QED
      BY <3>1, <1>2
  <2>3. Range(s) \ Range(s) = {}
    OBVIOUS
  <2>4. Len(s) \in Nat
    BY <1>1
  <2>5. \A r \in Range(s) \ Range(s), x \in Range(s) : r < x
    BY <2>3
  <2>. QED
    BY <1>2, <2>1, <2>2, <2>3, <2>4, <2>5
<1>3. CASE Len(s) > MaxRows
  <2>. DEFINE m == Len(s) - MaxRows + 1
  <2>1. Newest(s) = SubSeq(s, m, Len(s))
    BY <1>1, <1>3 DEF Newest
  <2>2. m \in 1 .. Len(s) + 1 /\ Len(s) \in m - 1 .. Len(s)
    BY <1>1, <1>3
  <2>3. /\ Newest(s) \in Seq(Row)
        /\ Len(Newest(s)) = MaxRows
        /\ \A i \in 1 .. MaxRows : Newest(s)[i] = s[i + m - 1]
        /\ Range(Newest(s)) = {s[i] : i \in m .. Len(s)}
        /\ Increasing(s) => Increasing(Newest(s))
    <3>1. Len(s) - m + 1 = MaxRows
      BY <1>1
    <3>2. Len(s) \in Nat
      BY <1>1
    <3>. HIDE DEF m
    <3>3. /\ SubSeq(s, m, Len(s)) \in Seq(Row)
          /\ Len(SubSeq(s, m, Len(s))) = Len(s) - m + 1
          /\ \A i \in 1 .. Len(s) - m + 1 : SubSeq(s, m, Len(s))[i] = s[i + m - 1]
          /\ Range(SubSeq(s, m, Len(s))) = {s[i] : i \in m .. Len(s)}
          /\ Increasing(s) => Increasing(SubSeq(s, m, Len(s)))
      BY <2>2, SliceProperties
    <3>. QED
      BY <2>1, <3>1, <3>3
  <2>4. Range(Newest(s)) \subseteq Range(s)
    <3>1. \A i \in m .. Len(s) : i \in DOMAIN s
      BY <1>1, <2>2
    <3>. QED
      BY <2>3, <3>1 DEF Range
  <2>5. ASSUME Increasing(s), NEW r \in Range(s) \ Range(Newest(s)), NEW x \in Range(Newest(s))
        PROVE  r < x
    <3>1. PICK i \in 1 .. Len(s) : r = s[i]
      BY <1>1 DEF Range
    <3>2. PICK j \in m .. Len(s) : x = s[j]
      BY <2>3
    <3>3. i \notin m .. Len(s)
      BY <2>3, <3>1, <2>5
    <3>4. i < j /\ i \in DOMAIN s /\ j \in DOMAIN s
      BY <1>1, <2>2, <3>2, <3>3
    <3>. QED
      BY <2>5, <3>1, <3>2, <3>4 DEF Increasing
  <2>6. Newest(s) # <<>> /\ Newest(s)[Len(Newest(s))] = s[Len(s)]
    BY <1>1, <1>3, <2>2, <2>3
  <2>. QED
    BY <1>1, <1>3, <2>3, <2>4, <2>5, <2>6
<1>. QED
  BY <1>1, <1>2, <1>3

LEMMA FullHidesTheRest ==
    ASSUME NEW s \in Seq(Row), NEW t \in Seq(Row), Len(t) = MaxRows
    PROVE  Newest(s \o t) = t
<1>. USE BufferAssumption
<1>1. /\ s \o t \in Seq(Row)
      /\ Len(s \o t) = Len(s) + MaxRows
      /\ \A i \in 1 .. Len(t) : (s \o t)[i + Len(s)] = t[i]
      /\ Len(s) \in Nat
  OBVIOUS
<1>2. CASE Len(s) = 0
  <2>1. s \o t = t
    BY <1>2
  <2>. QED
    BY <1>1, <1>2, <2>1 DEF Newest
<1>3. CASE Len(s) > 0
  <2>1. Newest(s \o t) = SubSeq(s \o t, Len(s) + 1, Len(s) + MaxRows)
    BY <1>1, <1>3 DEF Newest
  <2>. DEFINE u == s \o t
  <2>2. /\ SubSeq(u, Len(s) + 1, Len(s) + MaxRows) \in Seq(Row)
        /\ Len(SubSeq(u, Len(s) + 1, Len(s) + MaxRows)) = MaxRows
        /\ \A i \in 1 .. MaxRows :
              SubSeq(u, Len(s) + 1, Len(s) + MaxRows)[i] = u[i + Len(s)]
    <3>1. /\ u \in Seq(Row)
          /\ Len(s) + 1 \in 1 .. Len(u) + 1
          /\ Len(s) + MaxRows \in (Len(s) + 1) - 1 .. Len(u)
      BY <1>1
    <3>2. (Len(s) + MaxRows) - (Len(s) + 1) + 1 = MaxRows
      BY <1>1
    <3>3. \A i \in Nat : i + (Len(s) + 1) - 1 = i + Len(s)
      BY <1>1
    <3>. HIDE DEF u
    <3>. QED
      BY <3>1, <3>2, <3>3, SliceProperties
  <2>. QED
    BY <1>1, <2>1, <2>2
<1>. QED
  BY <1>1, <1>2, <1>3

-----------------------------------------------------------------------------

LEMMA RestProperties ==
    ASSUME TypeOK
    PROVE  /\ Rest \in Seq(Row)
           /\ Len(Rest) = Len(batch) - start + 1
           /\ Range(Rest) = {batch[i] : i \in start .. Len(batch)}
           /\ Range(Rest) \subseteq Range(batch)
           /\ Increasing(batch) => Increasing(Rest)
           /\ Memory \in Seq(Row)
           /\ Held = Range(Rest) \union Range(rows)
           /\ ~Inserting => Range(Rest) = {}
<1>1. /\ batch \in Seq(Row) /\ rows \in Seq(Row)
      /\ start \in 1 .. Len(batch) + 1
      /\ Len(batch) \in Nat
      /\ Len(batch) \in start - 1 .. Len(batch)
      /\ DOMAIN batch = 1 .. Len(batch)
  BY DEF TypeOK
<1>2. /\ Rest \in Seq(Row)
      /\ Len(Rest) = Len(batch) - start + 1
      /\ Range(Rest) = {batch[i] : i \in start .. Len(batch)}
      /\ Increasing(batch) => Increasing(Rest)
  BY <1>1, SliceProperties DEF Rest
<1>3. Range(Rest) \subseteq Range(batch)
  <2>1. \A i \in start .. Len(batch) : i \in DOMAIN batch
    BY <1>1
  <2>. QED
    BY <1>2, <2>1 DEF Range
<1>4. Memory \in Seq(Row) /\ Held = Range(Rest) \union Range(rows)
  BY <1>1, <1>2, JoinProperties DEF Memory, Held
<1>5. ~Inserting => Range(Rest) = {}
  <2>1. ~Inserting => start > Len(batch)
    BY <1>1 DEF TypeOK
  <2>2. start > Len(batch) => start .. Len(batch) = {}
    BY <1>1
  <2>. QED
    BY <1>2, <2>1, <2>2
<1>. QED
  BY <1>2, <1>3, <1>4, <1>5

LEMMA ChunkProperties ==
    ASSUME TypeOK, Inserting
    PROVE  /\ NextStart \in start + 1 .. Len(batch) + 1
           /\ Chunk \in Seq(Row)
           /\ Range(Chunk) = {batch[i] : i \in start .. NextStart - 1}
           /\ Range(Rest) = Range(Chunk) \union {batch[i] : i \in NextStart .. Len(batch)}
           /\ Increasing(batch) =>
                \A r \in Range(Chunk), s \in {batch[i] : i \in NextStart .. Len(batch)} : r < s
<1>1. /\ batch \in Seq(Row)
      /\ start \in 1 .. Len(batch) /\ start \in Nat
      /\ Len(batch) \in Nat
      /\ BatchSize \in Nat \ {0}
  BY BufferAssumption DEF TypeOK
<1>2. NextStart \in start + 1 .. Len(batch) + 1
  BY <1>1 DEF NextStart
<1>3. /\ start \in 1 .. Len(batch) + 1
      /\ NextStart - 1 \in start - 1 .. Len(batch)
  BY <1>1, <1>2
<1>4. Chunk \in Seq(Row) /\ Range(Chunk) = {batch[i] : i \in start .. NextStart - 1}
  BY <1>1, <1>3, SliceProperties DEF Chunk
<1>5. start .. Len(batch) = (start .. NextStart - 1) \union (NextStart .. Len(batch))
  BY <1>1, <1>2
<1>6. Range(Rest) = Range(Chunk) \union {batch[i] : i \in NextStart .. Len(batch)}
  BY <1>4, <1>5, RestProperties
<1>7. ASSUME Increasing(batch), NEW i \in start .. NextStart - 1, NEW j \in NextStart .. Len(batch)
      PROVE  batch[i] < batch[j]
  <2>1. i \in DOMAIN batch /\ j \in DOMAIN batch /\ i < j
    BY <1>1, <1>2
  <2>. QED
    BY <1>7, <2>1 DEF Increasing
<1>. QED
  BY <1>2, <1>4, <1>6, <1>7

LEMMA CommittedType ==
    ASSUME TypeOK
    PROVE  Committed \in [Row -> Nat]
BY DEF TypeOK, Committed

(* Types, the lists apart from the rest.                                     *)
ListsOK ==
    /\ rows \in Seq(Row)
    /\ batch \in Seq(Row)
    /\ start \in 1 .. Len(batch) + 1
    /\ Inserting <=> start <= Len(batch)

RestOK ==
    /\ arrived \in 0 .. Arrivals
    /\ task \in Stage
    /\ stopping \in BOOLEAN
    /\ wakeup \in BOOLEAN
    /\ nudged \in BOOLEAN
    /\ ledger \in [Row -> Nat]
    /\ dropped \subseteq Row
    /\ lost \subseteq Row
    /\ doubtful \subseteq Row
    /\ doubts \in 0 .. MaxDoubts
    /\ failed \in BOOLEAN
    /\ looked \in 0 .. arrived
    /\ asked \in 0 .. arrived
    /\ task = "ended" => stopping

LEMMA TypeOKParts == TypeOK <=> ListsOK /\ RestOK
BY DEF TypeOK, ListsOK, RestOK

LEMMA IdleLists ==
    ASSUME rows \in Seq(Row), batch = <<>>, start = 1, ~Inserting
    PROVE  ListsOK
<1>1. 1 \in 1 .. 0 + 1 /\ ~(1 <= 0)
  OBVIOUS
<1>. QED
  BY <1>1, NoRows DEF ListsOK

LEMMA TypeOKInit == Init => TypeOK
<1>. SUFFICES ASSUME Init
              PROVE  TypeOK
  OBVIOUS
<1>1. ListsOK
  BY IdleLists, NoRows DEF Init, Inserting
<1>2. 0 \in 0 .. Arrivals /\ 0 \in 0 .. 0 /\ 0 \in 0 .. MaxDoubts
  BY BufferAssumption
<1>3. RestOK
  BY <1>2 DEF Init, RestOK, Stage
<1>. QED
  BY <1>1, <1>3, TypeOKParts

LEMMA DrainTypes ==
    ASSUME TypeOK, NEW busy \in {"inserting", "closing"}, NEW idle \in Stage,
           idle \notin {"inserting", "closing"}, ~Inserting, Drain(busy, idle)
    PROVE  ListsOK' /\ task' \in {busy, idle} /\ looked' = arrived
<1>1. CASE rows = <<>>
  <2>1. ~Inserting'
    BY <1>1 DEF Drain, Inserting
  <2>. QED
    BY <1>1, <2>1 DEF Drain, TypeOK, ListsOK
<1>2. CASE rows # <<>>
  <2>1. /\ rows' = <<>> /\ batch' = rows /\ start' = 1 /\ task' = busy
        /\ Inserting'
    BY <1>2 DEF Drain, Inserting
  <2>2. rows \in Seq(Row) /\ Len(rows) \in Nat /\ Len(rows) # 0
    BY <1>2, RangeType DEF TypeOK
  <2>3. 1 \in 1 .. Len(rows) + 1 /\ 1 <= Len(rows)
    BY <2>2
  <2>. QED
    BY <1>2, <2>1, <2>2, <2>3, NoRows DEF Drain, ListsOK
<1>. QED
  BY <1>1, <1>2

LEMMA TypeOKStep == TypeOK /\ [Next]_vars => TypeOK'
<1>. SUFFICES ASSUME TypeOK, [Next]_vars
              PROVE  ListsOK' /\ RestOK'
  BY DEF TypeOK, ListsOK, RestOK
<1>. USE BufferAssumption
<1>0. arrived \in Nat /\ arrived \in 0 .. arrived
  BY DEF TypeOK
<1>1. CASE Enqueue
  <2>1. arrived + 1 \in Row /\ arrived \in Nat
    BY <1>1 DEF Enqueue, TypeOK, Row
  <2>2. Append(rows, arrived + 1) \in Seq(Row)
    BY <2>1 DEF TypeOK
  <2>3. rows' \in Seq(Row) /\ Range(Append(rows, arrived + 1)) \subseteq Row
    BY <1>1, <2>2, NewestProperties, RangeType DEF Enqueue, Keep
  <2>4. ListsOK'
    BY <1>1, <2>3 DEF Enqueue, TypeOK, ListsOK, Inserting
  <2>5. RestOK'
    BY <1>1, <2>1, <2>3 DEF Enqueue, Keep, TypeOK, RestOK, HasEvent
  <2>. QED
    BY <2>4, <2>5
<1>2. CASE Nudge
  BY <1>2 DEF Nudge, TypeOK, ListsOK, RestOK, Inserting, HasEvent
<1>3. CASE Start
  <2>1. ListsOK'
    BY <1>3 DEF Start, TypeOK, ListsOK, Inserting
  <2>2. RestOK'
    BY <1>0, <1>3 DEF Start, TypeOK, RestOK, Stage
  <2>. QED
    BY <2>1, <2>2
<1>4. CASE Wake
  <2>1. ListsOK' /\ looked' = arrived
        /\ task' \in {"inserting", IF stopping THEN "ended" ELSE "waiting"}
    <3>. DEFINE idle == IF stopping THEN "ended" ELSE "waiting"
    <3>1. ~Inserting /\ idle \in Stage /\ idle \notin {"inserting", "closing"}
      BY <1>4 DEF Wake, Inserting, Stage
    <3>2. Drain("inserting", idle)
      BY <1>4 DEF Wake
    <3>. HIDE DEF idle
    <3>3. ListsOK' /\ task' \in {"inserting", idle} /\ looked' = arrived
      BY <3>1, <3>2, DrainTypes
    <3>. QED
      BY <3>3 DEF idle
  <2>2. task' \in Stage /\ (task' = "ended" => stopping)
    BY <2>1 DEF Stage
  <2>3. RestOK'
    BY <1>0, <1>4, <2>1, <2>2 DEF Wake, Drain, TypeOK, RestOK
  <2>. QED
    BY <2>1, <2>3
<1>5. CASE InsertOk
  <2>1. ledger' \in [Row -> Nat]
    BY <1>5, CommittedType DEF InsertOk
  <2>2. Inserting /\ NextStart \in start + 1 .. Len(batch) + 1 /\ Len(batch) \in Nat
    BY <1>5, ChunkProperties DEF InsertOk, TypeOK
  <2>3. CASE NextStart <= Len(batch)
    <3>1. start' = NextStart /\ batch' = batch /\ task' = task /\ failed' = failed
      BY <1>5, <2>2, <2>3 DEF InsertOk
    <3>2. ListsOK'
      BY <1>5, <2>2, <2>3, <3>1 DEF InsertOk, TypeOK, ListsOK, Inserting
    <3>3. RestOK'
      BY <1>5, <2>1, <3>1 DEF InsertOk, TypeOK, RestOK
    <3>. QED
      BY <3>2, <3>3
  <2>4. CASE NextStart > Len(batch)
    <3>1. batch' = <<>> /\ start' = 1 /\ task' = AfterFlush /\ failed' = FALSE
      BY <1>5, <2>2, <2>4 DEF InsertOk
    <3>2. task' \in {"off", "waiting", "ended"} /\ (task' = "ended" => stopping)
      BY <3>1 DEF AfterFlush, TypeOK
    <3>3. ListsOK'
      <4>1. rows' \in Seq(Row)
        BY <1>5 DEF InsertOk, TypeOK
      <4>. QED
        BY <3>1, <3>2, <4>1, IdleLists DEF Inserting, ListsOK
    <3>4. RestOK'
      BY <1>5, <2>1, <3>1, <3>2 DEF InsertOk, TypeOK, RestOK, Stage
    <3>. QED
      BY <3>3, <3>4
  <2>. QED
    BY <2>2, <2>3, <2>4
<1>6. CASE Stop
  <2>1. ListsOK'
    BY <1>6 DEF Stop, TypeOK, ListsOK, Inserting, HasEvent
  <2>2. RestOK'
    BY <1>6 DEF Stop, TypeOK, RestOK, HasEvent
  <2>. QED
    BY <2>1, <2>2
<1>7. CASE Close
  <2>1. ListsOK' /\ looked' = arrived /\ task' \in {"closing", "off"}
    BY <1>7, DrainTypes DEF Close, Inserting, Stage
  <2>2. RestOK'
    BY <1>7, <2>1 DEF Close, Drain, TypeOK, RestOK, Stage
  <2>. QED
    BY <2>1, <2>2
<1>8. ASSUME NEW committed \in BOOLEAN, InsertFails(committed)
      PROVE  ListsOK' /\ RestOK'
  <2>1. Committed \in [Row -> Nat] /\ Chunk \in Seq(Row)
    BY <1>8, CommittedType, ChunkProperties DEF InsertFails
  <2>2. ledger' \in [Row -> Nat] /\ doubtful' \subseteq Row /\ doubts' \in 0 .. MaxDoubts
    BY <1>8, <2>1, RangeType DEF InsertFails, TypeOK
  <2>3. Memory \in Seq(Row)
    BY RestProperties
  <2>4. rows' \in Seq(Row) /\ dropped' \subseteq Row
    BY <1>8, <2>3, NewestProperties, RangeType DEF InsertFails, Requeue, Keep, TypeOK
  <2>5. task' \in {"off", "waiting", "ended"} /\ (task' = "ended" => stopping)
    BY <1>8 DEF InsertFails, AfterFlush, TypeOK
  <2>6. ListsOK'
    BY <1>8, <2>4, <2>5, IdleLists DEF InsertFails, ListsOK, Inserting
  <2>7. RestOK'
    BY <1>8, <2>2, <2>4, <2>5 DEF InsertFails, TypeOK, RestOK, Stage
  <2>. QED
    BY <2>6, <2>7
<1>9. ASSUME NEW committed \in BOOLEAN, Exit(committed)
      PROVE  ListsOK' /\ RestOK'
  <2>1. ledger' \in [Row -> Nat]
    BY <1>9, CommittedType DEF Exit, TypeOK
  <2>2. Held \subseteq Row
    BY RestProperties, RangeType DEF Held
  <2>3. ListsOK'
    BY <1>9, NoRows, IdleLists DEF Exit, ListsOK, Inserting
  <2>4. RestOK'
    BY <1>9, <2>1, <2>2 DEF Exit, TypeOK, RestOK, Stage
  <2>. QED
    BY <2>3, <2>4
<1>10. CASE UNCHANGED vars
  BY <1>10 DEF vars, TypeOK, ListsOK, RestOK, Inserting
<1>. QED
  BY <1>1, <1>2, <1>3, <1>4, <1>5, <1>6, <1>7, <1>8, <1>9, <1>10 DEF Next

\* TypeOK of the buffer is an invariant, whatever the sizes.
THEOREM TypeCorrect == Spec => []TypeOK
BY TypeOKInit, TypeOKStep, PTL DEF Spec

-----------------------------------------------------------------------------

(* The inductive invariant: the batch is older than the buffer, what was     *)
(* dropped is older than the buffer, and if it is newer than something of    *)
(* the batch then the buffer is full, so that a failed flush gives that up.  *)
Ordered ==
    /\ Increasing(batch) /\ Increasing(rows)
    /\ \A b \in Range(batch), r \in Range(rows) : b < r
    /\ Range(batch) \union Range(rows) \union dropped \union lost \subseteq 1 .. arrived
    /\ \A r \in Row : ledger[r] > 0 => r <= arrived
    /\ \A d \in dropped, r \in Range(rows) : d < r
    /\ \A d \in dropped, b \in Range(Rest) : b < d => Len(rows) = MaxRows

Books == Ordered /\ Accounted /\ WrittenOnce

LEMMA BooksInit == Init => Books
<1>. SUFFICES ASSUME Init
              PROVE  Books
  OBVIOUS
<1>1. TypeOK /\ ~Inserting
  BY TypeOKInit DEF Init, Inserting
<1>2. Range(Rest) = {} /\ Held = {}
  BY <1>1, RestProperties, NoRows DEF Init
<1>3. Len(rows) = 0 /\ Len(batch) = 0 /\ Range(rows) = {} /\ Range(batch) = {}
      /\ Increasing(rows) /\ Increasing(batch)
  BY NoRows DEF Init
<1>4. Ordered
  BY <1>2, <1>3 DEF Init, Ordered
<1>5. Accounted
  BY <1>2, <1>3, BufferAssumption DEF Init, Accounted
<1>6. WrittenOnce
  BY <1>2 DEF Init, WrittenOnce
<1>. QED
  BY <1>4, <1>5, <1>6 DEF Books

\* The list with the row that arrives, before the ceiling.
LEMMA Appended ==
    ASSUME TypeOK, Ordered, arrived + 1 \in Row
    PROVE  /\ Append(rows, arrived + 1) \in Seq(Row)
           /\ Len(Append(rows, arrived + 1)) = Len(rows) + 1
           /\ Range(Append(rows, arrived + 1)) = Range(rows) \union {arrived + 1}
           /\ Append(rows, arrived + 1) # <<>>
           /\ Increasing(Append(rows, arrived + 1))
<1>. DEFINE n == arrived + 1
            s == Append(rows, n)
<1>1. /\ n \in Row /\ arrived \in Nat /\ n = arrived + 1
      /\ rows \in Seq(Row)
  BY DEF TypeOK, Row
<1>2. /\ s \in Seq(Row) /\ Len(s) = Len(rows) + 1 /\ Range(s) = Range(rows) \union {n}
      /\ s # <<>>
  <2>1. s = rows \o <<n>> /\ <<n>> \in Seq(Row) /\ Range(<<n>>) = {n} /\ Len(<<n>>) = 1
    BY <1>1 DEF Range
  <2>2. /\ rows \o <<n>> \in Seq(Row)
        /\ Range(rows \o <<n>>) = Range(rows) \union Range(<<n>>)
        /\ Len(rows \o <<n>>) = Len(rows) + Len(<<n>>)
    BY <1>1, <2>1, JoinProperties
  <2>3. s # <<>>
    BY <1>1
  <2>. QED
    BY <2>1, <2>2, <2>3
<1>3. Increasing(s)
  <2>1. <<n>> \in Seq(Row) /\ s = rows \o <<n>> /\ Range(<<n>>) = {n} /\ Increasing(<<n>>)
    BY <1>1 DEF Range, Increasing
  <2>2. \A x \in Range(rows) : x < n
    BY <1>1, RangeType DEF Ordered, TypeOK, Row
  <2>3. \A x \in Range(rows), y \in Range(<<n>>) : x < y
    BY <2>1, <2>2
  <2>4. Increasing(rows)
    BY DEF Ordered
  <2>. HIDE DEF s
  <2>5. Increasing(rows \o <<n>>)
    BY <1>1, <2>1, <2>3, <2>4, JoinProperties
  <2>. QED
    BY <2>1, <2>5
<1>. QED
  BY <1>2, <1>3

LEMMA BooksEnqueue ==
    ASSUME TypeOK, TypeOK', Books, Enqueue
    PROVE  Books'
<1>. DEFINE n == arrived + 1
            s == Append(rows, n)
<1>1. /\ n \in Row /\ arrived \in Nat /\ n = arrived + 1 /\ arrived' = n
      /\ rows \in Seq(Row) /\ n \notin 1 .. arrived
      /\ 1 .. n = (1 .. arrived) \union {n}
  BY DEF Enqueue, TypeOK, Row
<1>2. /\ s \in Seq(Row) /\ Len(s) = Len(rows) + 1 /\ Range(s) = Range(rows) \union {n}
      /\ s # <<>> /\ Increasing(s)
  BY <1>1, Appended DEF Books
<1>4. /\ rows' = Newest(s)
      /\ dropped' = dropped \union (Range(s) \ Range(rows'))
      /\ batch' = batch /\ start' = start /\ ledger' = ledger /\ lost' = lost
      /\ doubtful' = doubtful
      /\ Rest' = Rest
  BY DEF Enqueue, Keep, Rest
<1>. HIDE DEF n, s
<1>5. /\ Len(rows') <= MaxRows
      /\ Range(rows') \subseteq Range(rows) \union {n}
      /\ Range(s) \ Range(rows') # {} => Len(rows') = MaxRows
      /\ Len(s) >= MaxRows => Len(rows') = MaxRows
      /\ Increasing(rows')
      /\ \A r \in Range(s) \ Range(rows'), x \in Range(rows') : r < x
  BY <1>2, <1>4, NewestProperties
<1>6. /\ Held = Range(Rest) \union Range(rows)
      /\ Held' = Range(Rest) \union Range(rows')
      /\ Range(Rest) \subseteq Range(batch)
  <2>1. Held' = Range(Rest \o rows')
    BY <1>4 DEF Held, Memory
  <2>2. Rest \in Seq(Row) /\ rows' \in Seq(Row)
    BY RestProperties DEF TypeOK
  <2>3. Range(Rest \o rows') = Range(Rest) \union Range(rows')
    BY <2>2, JoinProperties
  <2>. QED
    BY <2>1, <2>3, RestProperties
<1>7. Range(rows) \subseteq 1 .. arrived /\ Range(batch) \subseteq 1 .. arrived
      /\ dropped \subseteq 1 .. arrived /\ lost \subseteq 1 .. arrived
  BY DEF Books, Ordered
<1>8. Ordered'
  <2>1. Increasing(batch') /\ Increasing(rows')
    BY <1>4, <1>5 DEF Books, Ordered
  <2>2. \A b \in Range(batch'), r \in Range(rows') : b < r
    <3>1. \A b \in Range(batch) : b < n
      BY <1>1, <1>7
    <3>. QED
      BY <3>1, <1>4, <1>5 DEF Books, Ordered
  <2>3. (Range(batch) \union Range(rows) \union dropped \union lost)' \subseteq 1 .. arrived'
    BY <1>1, <1>2, <1>4, <1>5, <1>7
  <2>4. \A r \in Row : ledger'[r] > 0 => r <= arrived'
    BY <1>1, <1>4 DEF Books, Ordered, Row
  <2>5. \A d \in dropped', r \in Range(rows') : d < r
    <3>1. \A d \in dropped : d < n
      BY <1>1, <1>7
    <3>. QED
      BY <3>1, <1>4, <1>5 DEF Books, Ordered
  <2>6. \A d \in dropped', b \in Range(Rest) : b < d => Len(rows') = MaxRows
    <3>1. Len(rows) = MaxRows => Len(rows') = MaxRows
      BY <1>1, <1>2, <1>5, BufferAssumption
    <3>. QED
      BY <3>1, <1>4, <1>5 DEF Books, Ordered
  <2>. QED
    BY <2>1, <2>2, <2>3, <2>4, <2>5, <2>6, <1>4 DEF Ordered
<1>9. Accounted'
  <2>1. \A r \in 1 .. arrived' : r \in Held' \union dropped' \union lost' \/ ledger'[r] > 0
    BY <1>1, <1>2, <1>4, <1>6 DEF Books, Accounted
  <2>2. Held' \cap (dropped' \union lost') = {}
    <3>1. \A x \in Range(Rest) : x \notin Range(s)
      <4>1. \A x \in Range(Rest) : x \in 1 .. arrived /\ x \notin Range(rows)
        <5>1. \A x \in Range(Rest) : x \in 1 .. arrived
          BY <1>6, <1>7
        <5>2. \A x \in Range(Rest), y \in Range(rows) : x < y
          BY <1>6 DEF Books, Ordered
        <5>. QED
          BY <5>1, <5>2, <1>1
      <4>. QED
        BY <4>1, <1>1, <1>2
    <3>2. n \notin dropped /\ n \notin lost
      BY <1>1, <1>7
    <3>. QED
      BY <3>1, <3>2, <1>4, <1>5, <1>6 DEF Books, Accounted
  <2>. QED
    BY <2>1, <2>2, <1>4, <1>5 DEF Books, Accounted
<1>10. WrittenOnce'
  <2>1. ledger[n] = 0
    BY <1>1 DEF TypeOK, Books, Ordered
  <2>2. ASSUME NEW r \in Row, ledger[r] > (IF r \in Held' THEN 0 ELSE 1)
        PROVE  r \in doubtful
    <3>1. ledger[r] \in Nat
      BY DEF TypeOK
    <3>2. r \in Held' => r \in Held \/ r = n
      BY <1>5, <1>6
    <3>3. r # n
      BY <2>1, <2>2
    <3>4. ledger[r] > (IF r \in Held THEN 0 ELSE 1) \/ (r \in Held /\ r \notin Held')
      BY <2>2, <3>2, <3>3
    <3>5. ledger[r] > (IF r \in Held THEN 0 ELSE 1)
      BY <2>2, <3>1, <3>4
    <3>. QED
      BY <3>5 DEF Books, WrittenOnce
  <2>. QED
    BY <2>2, <1>4 DEF WrittenOnce
<1>. QED
  BY <1>8, <1>9, <1>10 DEF Books

LEMMA BooksQuiet ==
    ASSUME Books,
           UNCHANGED <<arrived, rows, batch, start, ledger, dropped, lost, doubtful>>
    PROVE  Books'
<1>1. Rest' = Rest /\ Held' = Held
  BY DEF Rest, Held, Memory
<1>. QED
  BY <1>1 DEF Books, Ordered, Accounted, WrittenOnce

LEMMA MemoryOrdered ==
    ASSUME TypeOK, Ordered
    PROVE  Increasing(Memory)
<1>1. /\ Rest \in Seq(Row) /\ rows \in Seq(Row) /\ Range(Rest) \subseteq Range(batch)
      /\ Increasing(Rest) /\ Increasing(rows)
  BY RestProperties DEF TypeOK, Ordered
<1>2. \A x \in Range(Rest), y \in Range(rows) : x < y
  BY <1>1 DEF Ordered
<1>. QED
  BY <1>1, <1>2, JoinProperties DEF Memory

\* Draining leaves everything where it is, in memory.
LEMMA DrainedHeld ==
    ASSUME TypeOK, ~Inserting, NEW busy, NEW idle, Drain(busy, idle)
    PROVE  Held' = Held /\ (rows # <<>> => Range(Rest') = Range(rows))
<1>1. CASE rows = <<>>
  BY <1>1 DEF Drain, Held, Memory, Rest
<1>2. CASE rows # <<>>
  <2>1. batch' = rows /\ start' = 1 /\ rows' = <<>>
    BY <1>2 DEF Drain
  <2>2. rows \in Seq(Row) /\ Len(rows) \in Nat /\ 1 \in 1 .. Len(rows) + 1
        /\ Len(rows) \in 1 - 1 .. Len(rows)
    BY RangeType DEF TypeOK
  <2>3. Range(Rest) = {} /\ Held = Range(rows)
    BY RestProperties
  <2>4. Rest' = SubSeq(rows, 1, Len(rows))
    BY <2>1 DEF Rest
  <2>5. Rest' \in Seq(Row) /\ Range(Rest') = Range(rows)
    <3>1. /\ SubSeq(rows, 1, Len(rows)) \in Seq(Row)
          /\ Range(SubSeq(rows, 1, Len(rows))) = {rows[i] : i \in 1 .. Len(rows)}
      BY <2>2, SliceProperties
    <3>2. Range(rows) = {rows[i] : i \in 1 .. Len(rows)}
      BY <2>2 DEF Range
    <3>. QED
      BY <2>4, <3>1, <3>2
  <2>6. Held' = Range(rows)
    <3>1. Held' = Range(Rest' \o rows')
      BY DEF Held, Memory
    <3>2. Range(Rest' \o <<>>) = Range(Rest') \union Range(<<>>)
      BY <2>5, NoRows, JoinProperties
    <3>. QED
      BY <2>1, <2>5, <3>1, <3>2, NoRows
  <2>. QED
    BY <2>3, <2>5, <2>6
<1>. QED
  BY <1>1, <1>2

(* Draining moves the buffer into the batch, which was done with.            *)
LEMMA BooksDrain ==
    ASSUME TypeOK, TypeOK', Books, ~Inserting, NEW busy, NEW idle, Drain(busy, idle),
           UNCHANGED <<arrived, ledger, dropped, lost, doubtful>>
    PROVE  Books'
<1>1. CASE rows = <<>>
  BY <1>1, BooksQuiet DEF Drain
<1>2. CASE rows # <<>>
  <2>1. batch' = rows /\ start' = 1 /\ rows' = <<>>
    BY <1>2 DEF Drain
  <2>3. Range(Rest) = {} /\ Held = Range(rows)
    BY RestProperties
  <2>5. Range(Rest') = Range(rows) /\ Held' = Range(rows)
    BY <1>2, <2>3, DrainedHeld
  <2>7. Ordered'
    <3>1. Increasing(batch') /\ Increasing(rows')
      BY <2>1, NoRows DEF Books, Ordered
    <3>2. Range(rows') = {}
      BY <2>1, NoRows
    <3>3. \A d \in dropped, b \in Range(Rest') : ~(b < d)
      <4>1. \A d \in dropped, b \in Range(rows) : d < b /\ d \in Nat /\ b \in Nat
        BY RangeType DEF Books, Ordered, TypeOK, Row
      <4>. QED
        BY <4>1, <2>5
    <3>. QED
      BY <2>1, <3>1, <3>2, <3>3 DEF Books, Ordered
  <2>8. Accounted'
    <3>1. Len(rows') = 0 /\ Len(batch') <= MaxRows
      BY <2>1, NoRows DEF Books, Accounted
    <3>. QED
      BY <3>1, <2>3, <2>5, BufferAssumption DEF Books, Accounted
  <2>9. WrittenOnce'
    BY <2>3, <2>5 DEF Books, WrittenOnce
  <2>. QED
    BY <2>7, <2>8, <2>9 DEF Books
<1>. QED
  BY <1>1, <1>2

\* A chunk that is in the table leaves memory, and what stays is newer.
LEMMA InsertedHeld ==
    ASSUME TypeOK, Books, InsertOk
    PROVE  /\ Held = Range(Chunk) \union Held'
           /\ Range(Chunk) \cap Held' = {}
           /\ \A x \in Range(Chunk), y \in Held' : x < y
           /\ Range(Chunk) \subseteq Range(Rest) /\ Range(Rest') \subseteq Range(Rest)
<1>. DEFINE Later == {batch[i] : i \in NextStart .. Len(batch)}
<1>1. /\ Inserting
      /\ ledger' = [r \in Row |-> IF r \in Range(Chunk) THEN ledger[r] + 1 ELSE ledger[r]]
      /\ rows' = rows /\ dropped' = dropped /\ lost' = lost /\ doubtful' = doubtful
      /\ arrived' = arrived
  BY DEF InsertOk, Committed
<1>2. /\ NextStart \in start + 1 .. Len(batch) + 1
      /\ Range(Rest) = Range(Chunk) \union Later
      /\ \A r \in Range(Chunk), s \in Later : r < s
      /\ Range(Chunk) \subseteq Row
  BY <1>1, ChunkProperties, RangeType DEF Books, Ordered
<1>3. /\ Held = Range(Rest) \union Range(rows)
      /\ Range(Rest) \subseteq Range(batch)
      /\ rows \in Seq(Row) /\ batch \in Seq(Row) /\ Len(batch) \in Nat
      /\ start \in Nat
  <2>1. rows \in Seq(Row) /\ batch \in Seq(Row) /\ Len(batch) \in Nat
    BY RangeType DEF TypeOK
  <2>2. start \in Nat
    BY <2>1 DEF TypeOK
  <2>. QED
    BY <2>1, <2>2, RestProperties
<1>4. Rest' \in Seq(Row) /\ Range(Rest') = Later
  <2>1. CASE NextStart <= Len(batch)
    <3>1. start' = NextStart /\ batch' = batch
      BY <1>2, <1>3, <2>1 DEF InsertOk
    <3>2. /\ NextStart \in 1 .. Len(batch) + 1
          /\ Len(batch) \in NextStart - 1 .. Len(batch)
      BY <1>2, <1>3
    <3>3. Rest' = SubSeq(batch, NextStart, Len(batch))
      BY <3>1 DEF Rest
    <3>. QED
      BY <1>3, <3>2, <3>3, SliceProperties
  <2>2. CASE NextStart > Len(batch)
    <3>1. start' = 1 /\ batch' = <<>>
      BY <1>2, <1>3, <2>2 DEF InsertOk
    <3>2. Rest' = SubSeq(<<>>, 1, Len(<<>>))
      BY <3>1 DEF Rest
    <3>3. NextStart .. Len(batch) = {}
      BY <1>2, <1>3, <2>2
    <3>. QED
      BY <3>2, <3>3, NoRows, NoSlice
  <2>. QED
    BY <1>2, <1>3, <2>1, <2>2
<1>5. Held' = Later \union Range(rows)
  <2>1. Held' = Range(Rest' \o rows')
    BY DEF Held, Memory
  <2>2. Range(Rest' \o rows) = Range(Rest') \union Range(rows)
    BY <1>3, <1>4, JoinProperties
  <2>. QED
    BY <1>1, <1>4, <2>1, <2>2
<1>6. Range(Chunk) \cap Held' = {} /\ \A x \in Range(Chunk), y \in Held' : x < y
  <2>1. \A x \in Range(Chunk), y \in Range(rows) : x < y
    BY <1>2, <1>3 DEF Books, Ordered
  <2>2. \A x \in Range(Chunk) : x \in Nat
    BY <1>2 DEF Row
  <2>3. \A x \in Nat : ~(x < x)
    OBVIOUS
  <2>4. \A x \in Range(Chunk), y \in Held' : x < y
    BY <1>2, <1>5, <2>1
  <2>. QED
    BY <2>2, <2>3, <2>4
<1>. QED
  BY <1>2, <1>3, <1>4, <1>5, <1>6

LEMMA BooksInsertOk ==
    ASSUME TypeOK, TypeOK', Books, InsertOk
    PROVE  Books'
<1>1. /\ Inserting
      /\ ledger' = [r \in Row |-> IF r \in Range(Chunk) THEN ledger[r] + 1 ELSE ledger[r]]
      /\ rows' = rows /\ dropped' = dropped /\ lost' = lost /\ doubtful' = doubtful
      /\ arrived' = arrived
  BY DEF InsertOk, Committed
<1>2. /\ Held = Range(Chunk) \union Held'
      /\ Range(Chunk) \cap Held' = {}
      /\ Range(Chunk) \subseteq Range(Rest) /\ Range(Rest') \subseteq Range(Rest)
  BY InsertedHeld
<1>3. Range(Chunk) \subseteq Row
  BY <1>1, ChunkProperties, RangeType
<1>4. Range(Rest) \subseteq Range(batch)
  BY RestProperties
<1>6. /\ Increasing(batch') /\ Range(batch') \subseteq Range(batch) /\ Len(batch') <= MaxRows
  <2>1. batch' = batch \/ batch' = <<>>
    BY DEF InsertOk
  <2>. QED
    BY <2>1, NoRows, BufferAssumption DEF Books, Ordered, Accounted
<1>8. Ordered'
  <2>1. \A r \in Row : ledger'[r] > 0 => r <= arrived'
    <3>1. ASSUME NEW r \in Row, ledger'[r] > 0
          PROVE  r <= arrived
      <4>1. CASE r \in Range(Chunk)
        <5>1. r \in 1 .. arrived
          BY <4>1, <1>2, <1>4 DEF Books, Ordered
        <5>. QED
          BY <5>1
      <4>2. CASE r \notin Range(Chunk)
        BY <3>1, <4>2, <1>1 DEF Books, Ordered
      <4>. QED
        BY <4>1, <4>2
    <3>. QED
      BY <3>1, <1>1
  <2>2. \A d \in dropped, b \in Range(Rest') : b < d => Len(rows) = MaxRows
    BY <1>2 DEF Books, Ordered
  <2>3. \A b \in Range(batch'), r \in Range(rows) : b < r
    BY <1>6 DEF Books, Ordered
  <2>. QED
    BY <1>1, <1>6, <2>1, <2>2, <2>3 DEF Books, Ordered
<1>9. Accounted'
  <2>2. \A r \in Row : ledger[r] \in Nat
    BY DEF TypeOK
  <2>3. \A r \in Range(Chunk) : ledger'[r] > 0
    BY <1>1, <1>3, <2>2
  <2>4. 1 .. arrived \subseteq Row
    BY BufferAssumption DEF TypeOK, Row
  <2>5. \A r \in Row : ledger[r] > 0 => ledger'[r] > 0
    BY <1>1, <2>2
  <2>6. \A r \in 1 .. arrived : r \in Held' \union dropped \union lost \/ ledger'[r] > 0
    BY <1>2, <2>3, <2>4, <2>5 DEF Books, Accounted
  <2>. QED
    BY <1>1, <1>2, <1>6, <2>6 DEF Books, Accounted
<1>10. WrittenOnce'
  <2>1. ASSUME NEW r \in Row, ledger'[r] > (IF r \in Held' THEN 0 ELSE 1)
        PROVE  r \in doubtful
    <3>1. ledger[r] \in Nat
      BY DEF TypeOK
    <3>2. CASE r \in Range(Chunk)
      <4>1. r \in Held /\ r \notin Held' /\ ledger'[r] = ledger[r] + 1
        BY <3>2, <1>1, <1>2
      <4>2. ledger[r] > 0
        BY <2>1, <3>1, <4>1
      <4>. QED
        BY <4>1, <4>2 DEF Books, WrittenOnce
    <3>3. CASE r \notin Range(Chunk)
      <4>1. ledger'[r] = ledger[r] /\ (r \in Held <=> r \in Held')
        BY <3>3, <1>1, <1>2
      <4>. QED
        BY <2>1, <4>1 DEF Books, WrittenOnce
    <3>. QED
      BY <3>2, <3>3
  <2>. QED
    BY <2>1, <1>1 DEF WrittenOnce
<1>. QED
  BY <1>8, <1>9, <1>10 DEF Books

LEMMA CommittedArrived ==
    ASSUME TypeOK, Books, Inserting
    PROVE  /\ \A r \in Row : Committed[r] > 0 => r <= arrived
           /\ \A r \in Row : Committed[r] \in Nat /\ (ledger[r] > 0 => Committed[r] > 0)
           /\ \A r \in Row : r \notin Range(Chunk) => Committed[r] = ledger[r]
           /\ Range(Chunk) \subseteq Held
<1>1. Range(Chunk) \subseteq Range(Rest) /\ Range(Rest) \subseteq Range(batch)
      /\ Range(Rest) \subseteq Held
  BY ChunkProperties, RestProperties
<1>2. \A r \in Range(Chunk) : r <= arrived
  <2>1. Range(Chunk) \subseteq 1 .. arrived
    BY <1>1 DEF Books, Ordered
  <2>. QED
    BY <2>1
<1>3. \A r \in Row : ledger[r] \in Nat
  BY DEF TypeOK
<1>4. \A r \in Row : Committed[r] = IF r \in Range(Chunk) THEN ledger[r] + 1 ELSE ledger[r]
  BY DEF Committed
<1>. QED
  BY <1>1, <1>2, <1>3, <1>4 DEF Books, Ordered

\* A failed insert leaves in memory what the ceiling admits.
LEMMA RequeuedHeld ==
    ASSUME TypeOK, TypeOK', Books, NEW committed \in BOOLEAN, InsertFails(committed)
    PROVE  /\ rows' = Newest(Memory) /\ Range(rows') \subseteq Held
           /\ Memory \in Seq(Row) /\ Increasing(Memory) /\ Increasing(rows')
           /\ \A r \in Held \ Range(rows'), x \in Range(rows') : r < x
           /\ Held \ Range(rows') # {} => Len(rows') = MaxRows
           /\ Range(Rest') = {} /\ Held' = Range(rows')
<1>1. rows' = Newest(Memory) /\ batch' = <<>> /\ start' = 1 /\ rows' \in Seq(Row)
  BY DEF InsertFails, Requeue, Keep, TypeOK
<1>2. Memory \in Seq(Row) /\ Held = Range(Memory) /\ Increasing(Memory)
  BY RestProperties, MemoryOrdered DEF Books, Held
<1>3. /\ Range(rows') \subseteq Held
      /\ Increasing(rows')
      /\ \A r \in Held \ Range(rows'), x \in Range(rows') : r < x
      /\ Held \ Range(rows') # {} => Len(rows') = MaxRows
  BY <1>1, <1>2, NewestProperties
<1>4. Range(Rest') = {} /\ Held' = Range(rows')
  <2>1. Rest' = <<>>
    BY <1>1, NoSlice DEF Rest
  <2>2. Held' = Range(<<>> \o rows')
    BY <2>1 DEF Held, Memory
  <2>3. Range(<<>> \o rows') = Range(<<>>) \union Range(rows')
    BY <1>1, NoRows, JoinProperties
  <2>. QED
    BY <2>1, <2>2, <2>3, NoRows
<1>. QED
  BY <1>1, <1>2, <1>3, <1>4

LEMMA BooksInsertFails ==
    ASSUME TypeOK, TypeOK', Books, NEW committed \in BOOLEAN, InsertFails(committed)
    PROVE  Books'
<1>1. /\ Inserting
      /\ rows' = Newest(Memory)
      /\ dropped' = dropped \union (Range(Memory) \ Range(rows'))
      /\ batch' = <<>> /\ start' = 1 /\ lost' = lost /\ arrived' = arrived
      /\ \/ ledger' = Committed /\ doubtful' = doubtful \union Range(Chunk)
         \/ ledger' = ledger /\ doubtful' = doubtful
  BY DEF InsertFails, Requeue, Keep
<1>2. /\ Memory \in Seq(Row) /\ Rest \in Seq(Row) /\ rows \in Seq(Row)
      /\ Held = Range(Memory)
      /\ Held = Range(Rest) \union Range(rows)
      /\ Range(Rest) \subseteq Range(batch)
      /\ Held \subseteq Row
  BY RestProperties, RangeType DEF TypeOK, Held
<1>4. /\ rows' \in Seq(Row)
      /\ Len(rows') <= MaxRows
      /\ Range(rows') \subseteq Held
      /\ Increasing(rows')
      /\ \A r \in Range(Memory) \ Range(rows'), x \in Range(rows') : r < x
  BY <1>1, <1>2, RequeuedHeld, NewestProperties
<1>5. Range(Rest') = {} /\ Held' = Range(rows')
  BY RequeuedHeld
<1>6. ASSUME NEW d \in dropped, NEW x \in Range(rows')
      PROVE  d < x
  <2>1. d \in Nat /\ x \in Nat /\ d # x
    <3>1. d \in Row /\ x \in Row
      BY <1>2, <1>4 DEF TypeOK
    <3>2. d # x
      BY <1>4 DEF Books, Accounted
    <3>. QED
      BY <3>1, <3>2 DEF Row
  <2>2. CASE x \in Range(rows)
    BY <2>2 DEF Books, Ordered
  <2>3. CASE x \in Range(Rest) /\ x \notin Range(rows)
    <3>1. ~(x < d)
      <4>. SUFFICES ASSUME x < d
                    PROVE  FALSE
        OBVIOUS
      <4>1. Len(rows) = MaxRows
        BY <2>3 DEF Books, Ordered
      <4>2. rows' = rows
        BY <4>1, <1>1, <1>2, FullHidesTheRest DEF Memory
      <4>. QED
        BY <2>3, <4>2
    <3>. QED
      BY <2>1, <3>1
  <2>. QED
    BY <1>2, <1>4, <2>2, <2>3
<1>7. Ordered'
  <2>1. \A r \in Row : ledger'[r] > 0 => r <= arrived'
    BY <1>1, CommittedArrived DEF Books, Ordered
  <2>2. Increasing(batch') /\ Range(batch') = {}
    BY <1>1, NoRows
  <2>3. (Range(rows) \union dropped \union lost)' \subseteq 1 .. arrived'
    BY <1>1, <1>2, <1>4 DEF Books, Ordered
  <2>4. \A d \in dropped', x \in Range(rows') : d < x
    BY <1>1, <1>4, <1>6
  <2>. QED
    BY <1>4, <1>5, <2>1, <2>2, <2>3, <2>4 DEF Ordered
<1>8. Accounted'
  <2>1. \A r \in 1 .. arrived : ledger[r] > 0 => ledger'[r] > 0
    <3>1. 1 .. arrived \subseteq Row
      BY BufferAssumption DEF TypeOK, Row
    <3>. QED
      BY <1>1, <3>1, CommittedArrived
  <2>2. \A r \in 1 .. arrived : r \in Held' \union dropped' \union lost \/ ledger'[r] > 0
    BY <1>1, <1>2, <1>5, <2>1 DEF Books, Accounted
  <2>3. Held' \cap (dropped' \union lost) = {}
    BY <1>1, <1>4, <1>5 DEF Books, Accounted
  <2>4. Len(batch') <= MaxRows
    BY <1>1, NoRows, BufferAssumption
  <2>. QED
    BY <1>1, <1>4, <2>2, <2>3, <2>4 DEF Accounted
<1>9. WrittenOnce'
  <2>1. ASSUME NEW r \in Row, ledger'[r] > (IF r \in Held' THEN 0 ELSE 1), r \notin doubtful'
        PROVE  FALSE
    <3>1. ledger'[r] = ledger[r] /\ r \notin doubtful
      BY <1>1, <2>1, CommittedArrived
    <3>2. ledger[r] \in Nat /\ (r \in Held' => r \in Held)
      BY <1>4, <1>5 DEF TypeOK
    <3>3. ledger[r] > (IF r \in Held THEN 0 ELSE 1)
      BY <2>1, <3>1, <3>2
    <3>. QED
      BY <3>1, <3>3 DEF Books, WrittenOnce
  <2>. QED
    BY <2>1 DEF WrittenOnce
<1>. QED
  BY <1>7, <1>8, <1>9 DEF Books

LEMMA NothingHeld ==
    ASSUME rows' = <<>>, batch' = <<>>, start' = 1
    PROVE  Held' = {} /\ Range(Rest') = {}
<1>1. Rest' = <<>>
  BY NoSlice DEF Rest
<1>2. Held' = Range(<<>> \o <<>>)
  BY <1>1 DEF Held, Memory
<1>3. Range(<<>> \o <<>>) = Range(<<>>) \union Range(<<>>)
  BY NoRows, JoinProperties
<1>. QED
  BY <1>1, <1>2, <1>3, NoRows

LEMMA BooksExit ==
    ASSUME TypeOK, TypeOK', Books, NEW committed \in BOOLEAN, Exit(committed)
    PROVE  Books'
<1>1. /\ rows' = <<>> /\ batch' = <<>> /\ start' = 1
      /\ lost' = lost \union {r \in Held : ledger'[r] = 0}
      /\ arrived' = arrived /\ dropped' = dropped /\ doubtful' = doubtful
      /\ \/ Inserting /\ ledger' = Committed
         \/ ledger' = ledger
  BY DEF Exit
<1>2. Held' = {} /\ Range(Rest') = {} /\ Range(rows') = {} /\ Range(batch') = {}
      /\ Len(rows') = 0 /\ Len(batch') = 0 /\ Increasing(rows') /\ Increasing(batch')
  BY <1>1, NothingHeld, NoRows
<1>3. Held \subseteq 1 .. arrived
  BY RestProperties DEF Books, Ordered
<1>4. \A r \in Row : ledger[r] \in Nat /\ ledger'[r] \in Nat
  BY DEF TypeOK
<1>5. 1 .. arrived \subseteq Row
  BY BufferAssumption DEF TypeOK, Row
<1>6. Ordered'
  <2>1. \A r \in Row : ledger'[r] > 0 => r <= arrived'
    BY <1>1, CommittedArrived DEF Books, Ordered
  <2>2. (dropped \union lost)' \subseteq 1 .. arrived'
    BY <1>1, <1>3 DEF Books, Ordered
  <2>. QED
    BY <1>2, <2>1, <2>2 DEF Ordered
<1>7. Accounted'
  <2>1. \A r \in 1 .. arrived : ledger[r] > 0 => ledger'[r] > 0
    BY <1>1, <1>5, CommittedArrived
  <2>2. \A r \in 1 .. arrived : r \in dropped \union lost' \/ ledger'[r] > 0
    BY <1>1, <1>4, <1>5, <2>1 DEF Books, Accounted
  <2>. QED
    BY <1>1, <1>2, <2>2, BufferAssumption DEF Accounted
<1>8. WrittenOnce'
  <2>1. ASSUME NEW r \in Row, ledger'[r] > 1
        PROVE  r \in doubtful
    <3>1. CASE ledger'[r] = ledger[r]
      <4>1. ledger[r] > (IF r \in Held THEN 0 ELSE 1)
        BY <2>1, <3>1, <1>4
      <4>. QED
        BY <4>1 DEF Books, WrittenOnce
    <3>2. CASE ledger'[r] # ledger[r]
      <4>1. Inserting /\ ledger' = Committed /\ r \in Range(Chunk)
        BY <3>2, <1>1, CommittedArrived
      <4>2. r \in Held /\ ledger[r] > 0
        BY <4>1, <2>1, <1>4, CommittedArrived DEF Committed
      <4>. QED
        BY <4>2 DEF Books, WrittenOnce
    <3>. QED
      BY <3>1, <3>2
  <2>. QED
    BY <1>1, <1>2, <2>1 DEF WrittenOnce
<1>. QED
  BY <1>6, <1>7, <1>8 DEF Books

LEMMA BooksStep == TypeOK /\ TypeOK' /\ Books /\ [Next]_vars => Books'
<1>. SUFFICES ASSUME TypeOK, TypeOK', Books, [Next]_vars
              PROVE  Books'
  OBVIOUS
<1>1. CASE Enqueue
  BY <1>1, BooksEnqueue
<1>2. CASE Nudge \/ Start \/ Stop \/ UNCHANGED vars
  BY <1>2, BooksQuiet DEF Nudge, Start, Stop, vars
<1>3. CASE Wake
  BY <1>3, BooksDrain DEF Wake, Inserting
<1>4. CASE Close
  BY <1>4, BooksDrain DEF Close, Inserting
<1>5. CASE InsertOk
  BY <1>5, BooksInsertOk
<1>6. ASSUME NEW committed \in BOOLEAN, InsertFails(committed) \/ Exit(committed)
      PROVE  Books'
  BY <1>6, BooksInsertFails, BooksExit
<1>. QED
  BY <1>1, <1>2, <1>3, <1>4, <1>5, <1>6 DEF Next

LEMMA BooksInvariant == Spec => [](TypeOK /\ Books)
<1>1. Init => TypeOK /\ Books
  BY TypeOKInit, BooksInit
<1>2. TypeOK /\ Books /\ [Next]_vars => (TypeOK /\ Books)'
  BY TypeOKStep, BooksStep
<1>. QED
  BY <1>1, <1>2, PTL DEF Spec

\* Accounted: a row that arrived is in memory, in the table, or among those
\* reported dropped or gone with a process, and memory keeps to its ceiling.
THEOREM RowsAccounted == Spec => []Accounted
<1>1. Books => Accounted
  BY DEF Books
<1>. QED
  BY <1>1, BooksInvariant, PTL

\* OldestFirst: retries keep the order of the rows, and only rows older than
\* all those that stay are given up.
THEOREM OldestGoFirst == Spec => []OldestFirst
<1>1. TypeOK /\ Books => OldestFirst
  <2>. SUFFICES ASSUME TypeOK, Books
                PROVE  OldestFirst
    OBVIOUS
  <2>3. Increasing(Memory)
    BY MemoryOrdered DEF Books
  <2>4. \A r \in dropped, i \in DOMAIN rows : r < rows[i]
    BY DEF Books, Ordered, Range
  <2>. QED
    BY <2>3, <2>4 DEF OldestFirst, Increasing
<1>. QED
  BY <1>1, BooksInvariant, PTL

\* WrittenOnce: no row is in the table twice, or in the table and about to be
\* written, except after an insert that committed and seemed to fail.
THEOREM RowsWrittenOnce == Spec => []WrittenOnce
<1>1. Books => WrittenOnce
  BY DEF Books
<1>. QED
  BY <1>1, BooksInvariant, PTL

-----------------------------------------------------------------------------

(* The wakeup is already on its way when a flush ends, and the flush of      *)
(* stop() meets only rows that came after it was called.                     *)
Awake ==
    HasEvent /\ Len(rows) >= MaxSize /\ rows[Len(rows)] > looked => wakeup \/ nudged

Shut ==
    /\ task = "off" => failed \/ \A r \in Range(rows) : r > asked
    /\ task = "closing" => \A r \in Range(rows) : r > asked

LEMMA NothingNew ==
    ASSUME NEW s \in Seq(Row), NEW n \in Nat, Range(s) \subseteq 1 .. n
    PROVE  ~(Len(s) >= MaxSize /\ s[Len(s)] > n)
<1>. SUFFICES ASSUME Len(s) >= MaxSize
              PROVE  ~(s[Len(s)] > n)
  OBVIOUS
<1>1. Len(s) \in 1 .. Len(s)
  BY BufferAssumption
<1>2. s[Len(s)] \in Range(s)
  BY <1>1 DEF Range
<1>. QED
  BY <1>2

LEMMA AwakeStep ==
    TypeOK /\ TypeOK' /\ Books' /\ Awake /\ [Next]_vars => Awake'
<1>. SUFFICES ASSUME TypeOK, TypeOK', Books', Awake, [Next]_vars
              PROVE  Awake'
  OBVIOUS
<1>1. looked' = arrived' => Awake'
  <2>1. rows' \in Seq(Row) /\ arrived' \in Nat
    BY DEF TypeOK
  <2>2. Range(rows') \subseteq 1 .. arrived'
    BY DEF Books, Ordered
  <2>3. ~(Len(rows') >= MaxSize /\ rows'[Len(rows')] > arrived')
    BY <2>1, <2>2, NothingNew
  <2>. QED
    BY <2>3 DEF Awake
<1>2. CASE Enqueue
  BY <1>2 DEF Enqueue, Awake, HasEvent
<1>3. CASE Nudge
  BY <1>3 DEF Nudge, Awake, HasEvent
<1>4. CASE Start \/ Wake \/ Close
  BY <1>1, <1>4 DEF Start, Wake, Close, Drain
<1>5. CASE InsertOk
  <2>1. HasEvent' => HasEvent
    BY <1>5 DEF InsertOk, Inserting, HasEvent, AfterFlush, TypeOK
  <2>. QED
    BY <1>5, <2>1 DEF InsertOk, Awake
<1>6. CASE Stop
  BY <1>6 DEF Stop, Awake
<1>7. ASSUME NEW committed \in BOOLEAN, InsertFails(committed)
      PROVE  Awake'
  BY <1>1, <1>7 DEF InsertFails
<1>8. ASSUME NEW committed \in BOOLEAN, Exit(committed)
      PROVE  Awake'
  BY <1>8 DEF Exit, Awake, HasEvent
<1>9. CASE UNCHANGED vars
  BY <1>9 DEF vars, Awake, HasEvent
<1>. QED
  BY <1>2, <1>3, <1>4, <1>5, <1>6, <1>7, <1>8, <1>9 DEF Next

LEMMA ShutStep == TypeOK /\ TypeOK' /\ Shut /\ [Next]_vars => Shut'
<1>. SUFFICES ASSUME TypeOK, TypeOK', Shut, [Next]_vars
              PROVE  Shut'
  OBVIOUS
<1>1. CASE Enqueue
  <2>1. arrived \in Nat /\ asked <= arrived /\ asked \in Nat /\ arrived + 1 \in Row
    BY <1>1 DEF Enqueue, TypeOK, Row
  <2>2. Range(rows') \subseteq Range(rows) \union {arrived + 1}
    <3> DEFINE n == arrived + 1
    <3> HIDE DEF n
    <3>1. n \in Row /\ arrived + 1 = n
      BY <2>1 DEF n
    <3>a. <<n>> \in Seq(Row) /\ Range(<<n>>) = {n}
      BY <3>1 DEF Range
    <3>b. rows \in Seq(Row)
      BY DEF TypeOK
    <3>c. Append(rows, n) = rows \o <<n>>
      BY <3>1, <3>b
    <3>2. /\ rows \o <<n>> \in Seq(Row)
          /\ Range(rows \o <<n>>) = Range(rows) \union {n}
      BY <3>a, <3>b, JoinProperties
    <3>3. rows' = Newest(rows \o <<n>>)
      BY <1>1, <3>1, <3>c DEF Enqueue, Keep
    <3>. QED
      BY <3>1, <3>2, <3>3, NewestProperties
  <2>3. arrived + 1 > asked
    BY <2>1
  <2>. QED
    BY <1>1, <2>2, <2>3 DEF Enqueue, Shut
<1>2. CASE Nudge \/ UNCHANGED vars
  BY <1>2 DEF Nudge, vars, Shut
<1>3. CASE Start \/ Stop
  BY <1>3 DEF Start, Stop, Shut, HasEvent
<1>4. CASE Wake
  <2>1. task' \notin {"off", "closing"}
    BY <1>4 DEF Wake, Drain
  <2>. QED
    BY <2>1 DEF Shut
<1>5. CASE Close
  <2>1. Range(rows') = {}
    BY <1>5, NoRows DEF Close, Drain
  <2>. QED
    BY <2>1 DEF Shut
<1>6. CASE InsertOk
  <2>1. task' \in {"off", "closing"} => task = "closing"
    BY <1>6 DEF InsertOk, AfterFlush, Inserting, TypeOK
  <2>2. rows' = rows /\ asked' = asked
    BY <1>6 DEF InsertOk
  <2>. QED
    BY <2>1, <2>2 DEF Shut
<1>7. ASSUME NEW committed \in BOOLEAN, InsertFails(committed)
      PROVE  Shut'
  BY <1>7 DEF InsertFails, AfterFlush, Shut, TypeOK
<1>8. ASSUME NEW committed \in BOOLEAN, Exit(committed)
      PROVE  Shut'
  BY <1>8, NoRows DEF Exit, Shut
<1>. QED
  BY <1>1, <1>2, <1>3, <1>4, <1>5, <1>6, <1>7, <1>8 DEF Next

LEMMA AwakeAndShutInit == Init => Awake /\ Shut
BY NoRows DEF Init, Awake, Shut, HasEvent

\* FullBufferWakes: no wakeup is lost between the threads that add rows and
\* the loop that clears the event.
THEOREM WakeupIsNotLost == Spec => []FullBufferWakes
<1>1. TypeOK /\ Books /\ Awake /\ [Next]_vars => (TypeOK /\ Books /\ Awake)'
  BY TypeOKStep, BooksStep, AwakeStep
<1>2. Init => TypeOK /\ Books /\ Awake
  BY TypeOKInit, BooksInit, AwakeAndShutInit
<1>3. Awake => FullBufferWakes
  BY DEF Awake, FullBufferWakes, HasEvent
<1>. QED
  BY <1>1, <1>2, <1>3, PTL DEF Spec

\* StopLeavesNothing: what had arrived before stop() was called is not left in
\* memory unless a flush failed.
THEOREM StopFlushes == Spec => []StopLeavesNothing
<1>1. TypeOK /\ Shut /\ [Next]_vars => (TypeOK /\ Shut)'
  BY TypeOKStep, ShutStep
<1>2. Init => TypeOK /\ Shut
  BY TypeOKInit, AwakeAndShutInit
<1>3. Shut => StopLeavesNothing
  BY DEF Shut, StopLeavesNothing, Range
<1>. QED
  BY <1>1, <1>2, <1>3, PTL DEF Spec

-----------------------------------------------------------------------------

(* The refinement: every step of the buffer is one of the bounded ledger, or *)
(* none.  A row is given up only where MaxRows newer ones stay.              *)
LEMMA GivenUp ==
    ASSUME NEW t \in Seq(Row), Increasing(t), Len(t) = MaxRows,
           NEW S \in SUBSET Row, Range(t) \subseteq S,
           NEW g \in S, \A x \in Range(t) : g < x
    PROVE  g \in Bounded!Surplus(S)
<1>. DEFINE Newer == {s \in S : s > g}
<1>1. /\ MaxRows \in Nat /\ DOMAIN t = 1 .. MaxRows
      /\ \A i \in 1 .. MaxRows : t[i] \in Row
  BY BufferAssumption
<1>2. IsFiniteSet(Newer)
  <2>1. IsFiniteSet(Row)
    BY FS_Interval, BufferAssumption DEF Row
  <2>. QED
    BY <2>1, FS_Subset
<1>3. t \in Injection(1 .. MaxRows, Newer)
  <2>1. t \in [1 .. MaxRows -> Newer]
    <3>1. \A i \in 1 .. MaxRows : t[i] \in Range(t)
      BY <1>1 DEF Range
    <3>2. \A i \in 1 .. MaxRows : t[i] \in S /\ g < t[i]
      BY <3>1
    <3>3. \A i \in 1 .. MaxRows : t[i] > g
      BY <1>1, <3>2 DEF Row
    <3>. QED
      BY <1>1, <3>2, <3>3
  <2>2. \A i, j \in 1 .. MaxRows : t[i] = t[j] => i = j
    <3>1. \A i, j \in DOMAIN t : i < j => t[i] < t[j]
      BY DEF Increasing
    <3>2. \A i \in 1 .. MaxRows : t[i] \in Nat
      BY <1>1 DEF Row
    <3>3. \A i, j \in 1 .. MaxRows : i < j \/ j < i \/ i = j
      BY <1>1
    <3>4. \A x \in Nat : ~(x < x)
      OBVIOUS
    <3>. QED
      BY <1>1, <3>1, <3>2, <3>3, <3>4
  <2>. QED
    BY <1>1, <2>1, <2>2 DEF Injection, IsInjective
<1>4. Cardinality(1 .. MaxRows) = MaxRows
  <2>1. MaxRows > 0
    BY BufferAssumption
  <2>. QED
    BY <1>1, <2>1, FS_Interval
<1>5. MaxRows <= Cardinality(Newer)
  BY <1>2, <1>3, <1>4, FS_Injection
<1>6. Cardinality(Newer) \in Nat
  BY <1>2, FS_CardinalityType
<1>7. Bounded!Cardinality(Newer) = Cardinality(Newer)
  BY DEF Bounded!Cardinality, Cardinality
<1>. QED
  BY <1>1, <1>5, <1>6, <1>7 DEF Bounded!Surplus

LEMMA BoundedInit == Init => Bounded!Init
<1>. SUFFICES ASSUME Init
              PROVE  Bounded!Init
  OBVIOUS
<1>1. Held = {}
  <2>1. TypeOK /\ ~Inserting
    BY TypeOKInit DEF Init, Inserting
  <2>. QED
    BY <2>1, RestProperties, NoRows DEF Init
<1>. QED
  BY <1>1 DEF Init, Bounded!Init

LEMMA BoundedAdd ==
    ASSUME TypeOK, TypeOK', Books, Enqueue
    PROVE  Bounded!Next
<1>. DEFINE n == arrived + 1
            s == Append(rows, n)
            gone == (Held \union {n}) \ Held'
<1>1. n \in Row /\ n = arrived + 1 /\ arrived' = n
  BY DEF Enqueue, TypeOK, Row
<1>2. /\ s \in Seq(Row) /\ Range(s) = Range(rows) \union {n} /\ Increasing(s)
      /\ rows' = Newest(s)
  BY <1>1, Appended DEF Books, Enqueue, Keep
<1>3. ledger' = ledger /\ Rest' = Rest
  BY DEF Enqueue, Rest
<1>. HIDE DEF n, s
<1>4. /\ rows' \in Seq(Row) /\ Range(rows') \subseteq Range(s) /\ Increasing(rows')
      /\ \A r \in Range(s) \ Range(rows'), x \in Range(rows') : r < x
      /\ Range(s) \ Range(rows') # {} => Len(rows') = MaxRows
  BY <1>2, NewestProperties
<1>5. Held = Range(Rest) \union Range(rows) /\ Held \subseteq Row
  BY RestProperties, RangeType DEF Held
<1>6. Held' = Range(Rest) \union Range(rows')
  <2>1. Held' = Range(Rest \o rows')
    BY <1>3 DEF Held, Memory
  <2>. QED
    BY <2>1, <1>4, RestProperties, JoinProperties
<1>7. ASSUME NEW g \in gone
      PROVE  g \in Bounded!Surplus(Held \union {n})
  <2>1. g \in Range(s) \ Range(rows')
    BY <1>2, <1>5, <1>6
  <2>2. Range(rows') \subseteq Held \union {n}
    BY <1>2, <1>4, <1>5
  <2>. QED
    BY <1>1, <1>4, <1>5, <2>1, <2>2, GivenUp
<1>8. Held' = (Held \union {n}) \ gone
  BY <1>2, <1>4, <1>5, <1>6
<1>9. Bounded!Add(gone)
  BY <1>1, <1>3, <1>7, <1>8 DEF Bounded!Add, n
<1>. QED
  BY <1>9 DEF Bounded!Next, n

\* Where rows are as the buffer holds them, the bounded ledger stutters.
LEMMA BoundedQuiet ==
    ASSUME UNCHANGED <<arrived, rows, batch, start, ledger>>
    PROVE  UNCHANGED Bounded!vars
<1>1. Held' = Held
  BY DEF Rest, Held, Memory
<1>. QED
  BY <1>1 DEF Bounded!vars

LEMMA BoundedDrain ==
    ASSUME TypeOK, ~Inserting, NEW busy, NEW idle, Drain(busy, idle),
           UNCHANGED <<arrived, ledger>>
    PROVE  UNCHANGED Bounded!vars
BY DrainedHeld DEF Bounded!vars

LEMMA CommittedWrites ==
    ASSUME TypeOK
    PROVE  Committed = [r \in DOMAIN ledger |->
                          IF r \in Range(Chunk) THEN ledger[r] + 1 ELSE ledger[r]]
BY DEF TypeOK, Committed

\* The chunk is older than what memory holds besides.
LEMMA ChunkIsOldest ==
    ASSUME TypeOK, Books, Inserting
    PROVE  /\ Range(Chunk) \subseteq Held
           /\ \A r \in Range(Chunk), s \in Held \ Range(Chunk) : r < s
<1>. DEFINE Later == {batch[i] : i \in NextStart .. Len(batch)}
<1>1. /\ Range(Rest) = Range(Chunk) \union Later
      /\ \A r \in Range(Chunk), s \in Later : r < s
  BY ChunkProperties DEF Books, Ordered
<1>2. Held = Range(Rest) \union Range(rows) /\ Range(Rest) \subseteq Range(batch)
  BY RestProperties
<1>3. \A r \in Range(Chunk), s \in Range(rows) : r < s
  BY <1>1, <1>2 DEF Books, Ordered
<1>. QED
  BY <1>1, <1>2, <1>3

LEMMA BoundedWrite ==
    ASSUME TypeOK, Books, InsertOk
    PROVE  Bounded!Next
<1>1. Inserting /\ ledger' = Committed /\ arrived' = arrived
  BY DEF InsertOk
<1>2. Held' = Held \ Range(Chunk)
  BY InsertedHeld
<1>3. Bounded!Write(Range(Chunk), TRUE, {})
  BY <1>1, <1>2, ChunkIsOldest, CommittedWrites DEF Bounded!Write
<1>4. Range(Chunk) \in SUBSET Held
  BY <1>1, ChunkIsOldest
<1>. QED
  BY <1>3, <1>4 DEF Bounded!Next

\* A failed insert gives up what the ceiling evicts, and may have written.
LEMMA BoundedFailure ==
    ASSUME TypeOK, TypeOK', Books, NEW committed \in BOOLEAN, InsertFails(committed)
    PROVE  Bounded!Next
<1>. DEFINE gone == Held \ Held'
<1>1. Inserting /\ arrived' = arrived /\ (ledger' = Committed \/ ledger' = ledger)
  BY DEF InsertFails
<1>2. /\ rows' \in Seq(Row) /\ Increasing(rows') /\ Held' = Range(rows')
      /\ Range(rows') \subseteq Held
      /\ \A r \in gone, x \in Range(rows') : r < x
      /\ gone # {} => Len(rows') = MaxRows
  BY RequeuedHeld DEF TypeOK
<1>3. Held \subseteq Row
  BY RestProperties, RangeType DEF Held
<1>4. gone \subseteq Bounded!Surplus(Held)
  BY <1>2, <1>3, GivenUp
<1>5. Held' = Held \ gone /\ gone \in SUBSET Held
  BY <1>2
<1>. HIDE DEF gone
<1>6. CASE ledger' = Committed
  <2>1. Bounded!Write(Range(Chunk), FALSE, gone)
    BY <1>1, <1>4, <1>5, <1>6, ChunkIsOldest, CommittedWrites DEF Bounded!Write
  <2>2. Range(Chunk) \in SUBSET Held
    BY <1>1, ChunkIsOldest
  <2>. QED
    BY <1>5, <2>1, <2>2 DEF Bounded!Next
<1>7. CASE ledger' = ledger
  <2>1. Bounded!GiveUp(gone)
    BY <1>1, <1>4, <1>5, <1>7 DEF Bounded!GiveUp
  <2>. QED
    BY <1>5, <2>1 DEF Bounded!Next
<1>. QED
  BY <1>1, <1>6, <1>7

LEMMA BoundedLoss ==
    ASSUME TypeOK, Books, NEW committed \in BOOLEAN, Exit(committed)
    PROVE  Bounded!Next
<1>1. Held' = {} /\ arrived' = arrived
  BY NothingHeld DEF Exit
<1>2. CASE Inserting /\ ledger' = Committed
  <2>1. Bounded!Lose(Range(Chunk))
    BY <1>1, <1>2, CommittedWrites DEF Bounded!Lose
  <2>2. Range(Chunk) \in SUBSET Held
    BY <1>2, ChunkIsOldest
  <2>. QED
    BY <2>1, <2>2 DEF Bounded!Next
<1>3. CASE ledger' = ledger
  <2>1. ledger = [r \in DOMAIN ledger |-> IF r \in {} THEN ledger[r] + 1 ELSE ledger[r]]
    BY DEF TypeOK
  <2>2. Bounded!Lose({})
    BY <1>1, <1>3, <2>1 DEF Bounded!Lose
  <2>. QED
    BY <2>2 DEF Bounded!Next
<1>. QED
  BY <1>2, <1>3 DEF Exit

LEMMA BoundedStep ==
    TypeOK /\ TypeOK' /\ Books /\ [Next]_vars => [Bounded!Next]_Bounded!vars
<1>. SUFFICES ASSUME TypeOK, TypeOK', Books, [Next]_vars
              PROVE  Bounded!Next \/ UNCHANGED Bounded!vars
  OBVIOUS
<1>1. CASE Enqueue
  BY <1>1, BoundedAdd
<1>2. CASE Nudge \/ Start \/ Stop \/ UNCHANGED vars
  BY <1>2, BoundedQuiet DEF Nudge, Start, Stop, vars
<1>3. CASE Wake
  BY <1>3, BoundedDrain DEF Wake, Inserting
<1>4. CASE Close
  BY <1>4, BoundedDrain DEF Close, Inserting
<1>5. CASE InsertOk
  BY <1>5, BoundedWrite
<1>6. ASSUME NEW committed \in BOOLEAN, InsertFails(committed) \/ Exit(committed)
      PROVE  Bounded!Next
  BY <1>6, BoundedFailure, BoundedLoss
<1>. QED
  BY <1>1, <1>2, <1>3, <1>4, <1>5, <1>6 DEF Next

\* BoundedLedgerSpec: a caller cannot tell the buffer from a bounded queue in
\* front of the table, which gives up only rows that MaxRows newer ones follow.
THEOREM ImplementsBoundedLedger == Spec => BoundedLedgerSpec
<1>1. Init => Bounded!Init
  BY BoundedInit
<1>2. TypeOK /\ TypeOK' /\ Books /\ [Next]_vars => [Bounded!Next]_Bounded!vars
  BY BoundedStep
<1>. QED
  BY <1>1, <1>2, BooksInvariant, PTL DEF Spec, BoundedLedgerSpec, Bounded!Spec

=============================================================================
