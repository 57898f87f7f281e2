-------------------------- MODULE SourceHealth_proofs -------------------------
(* What holds of a source's row for any threshold and any parking limit.     *)
EXTENDS SourceHealth, TLAPS

(* A row that is polled is not retired, and the counted rounds are never     *)
(* more than the rounds there were, in the row or in the poll's copy of it.  *)
PolledIsNotRetired == poll.stage # "idle" => retired = "none"
RoundsWereStrikes == /\ rounds <= strikes
                     /\ poll.stage # "idle" => poll.rounds <= strikes

IInv == /\ TypeOK
        /\ RetiredIsOff /\ OffHasAWayBack
        /\ PolledIsNotRetired
        /\ RoundsWereStrikes /\ ParkingIsEarned

Stages == {"idle", "polling", "probing", "recording"}
Polls == [stage : Stages, failures : 0 .. Threshold, rounds : 0 .. ParkAfter + 1,
          status : Rejections \union {"other"}, verdict : Verdicts \union {"count"}]

(* The capped counter stays within its limit, and follows another one that   *)
(* is not behind it.                                                         *)
LEMMA Next1Stays ==
  ASSUME NEW limit \in Nat, NEW n \in 0 .. limit
  PROVE  /\ Next1(n, limit) \in 0 .. limit
         /\ n >= limit - 1 => Next1(n, limit) = limit
         /\ \A m \in 0 .. limit : m <= n => Next1(m, limit) <= Next1(n, limit)
BY DEF Next1

(* A failing poll keeps its copy of the row.                                 *)
LEMMA FailsKeepsCopy ==
  ASSUME TypeOK, NEW s \in Rejections \union {"other"}, Fails(s)
  PROVE  poll' \in Polls /\ poll'.rounds = poll.rounds /\ poll'.stage # "idle"
<1> DEFINE st == IF poll.failures + 1 >= Threshold THEN "probing" ELSE "recording"
<1>1. poll \in Polls
      BY DEF TypeOK, Polls, Stages
<1>2. poll' = [poll EXCEPT !.status = s, !.stage = st]
      BY DEF Fails
<1>3. st \in Stages /\ st # "idle"
      BY DEF Stages
<1> HIDE DEF st
<1>4. QED BY <1>1, <1>2, <1>3 DEF Polls

(* The poll that is not there.                                               *)
LEMMA IdleIsAPoll == Idle \in Polls /\ Idle.stage = "idle"
BY ThresholdAssumption, ParkAssumption DEF Idle, Polls, Stages, Verdicts

LEMMA Initially == Init => IInv
<1> SUFFICES ASSUME Init PROVE IInv
    OBVIOUS
<1>1. 0 \in 0 .. Threshold /\ 0 \in 0 .. ParkAfter + 1
      BY ThresholdAssumption, ParkAssumption
<1>2. poll \in Polls /\ poll.stage = "idle"
      BY IdleIsAPoll DEF Init
<1>3. TypeOK
      BY <1>1, <1>2 DEF Init, TypeOK, Polls, Stages, Boards
<1>4. QED BY <1>2, <1>3
          DEF Init, IInv, RetiredIsOff, OffHasAWayBack, PolledIsNotRetired,
              RoundsWereStrikes, ParkingIsEarned

(* The write of a clean poll, and of a re-pointing.                          *)
LEMMA CleanPollKeeps ==
  ASSUME IInv, CleanPoll \/ Repoint
  PROVE  IInv'
<1> USE ThresholdAssumption, ParkAssumption
<1>1. poll.stage # "idle" /\ failures' = 0 /\ rounds' = 0
      BY DEF CleanPoll, Repoint
<1>2. poll' \in Polls /\ strikes' \in 0 .. ParkAfter + 1
      BY IdleIsAPoll, FailsKeepsCopy DEF CleanPoll, Repoint, IInv, TypeOK
<1>3. TypeOK'
      BY <1>1, <1>2 DEF CleanPoll, Repoint, IInv, TypeOK, Polls, Stages, Boards
<1>4. RetiredIsOff' /\ OffHasAWayBack' /\ PolledIsNotRetired' /\ ParkingIsEarned'
      BY <1>1 DEF CleanPoll, Repoint, IInv, PolledIsNotRetired, RetiredIsOff, OffHasAWayBack,
                  ParkingIsEarned
<1>5. RoundsWereStrikes'
  <2>1. rounds' <= strikes'
        BY <1>1, <1>2
  <2>2. poll'.stage # "idle" => poll'.rounds <= strikes'
        BY <1>1, FailsKeepsCopy, IdleIsAPoll
        DEF CleanPoll, Repoint, IInv, RoundsWereStrikes
  <2>3. QED BY <2>1, <2>2 DEF RoundsWereStrikes
<1>6. QED BY <1>3, <1>4, <1>5 DEF IInv

(* The failure write: it parks only a row whose copy counted enough rounds.  *)
LEMMA RecordKeeps ==
  ASSUME IInv, Record
  PROVE  IInv'
<1> USE ThresholdAssumption, ParkAssumption
<1>1. /\ failures \in 0 .. Threshold /\ poll.failures \in 0 .. Threshold
      /\ rounds \in 0 .. ParkAfter + 1 /\ strikes \in 0 .. ParkAfter + 1
      /\ poll.rounds \in 0 .. ParkAfter + 1 /\ retired = "none"
      /\ rounds <= strikes /\ poll.rounds <= strikes
      BY DEF IInv, TypeOK, Record, PolledIsNotRetired, RoundsWereStrikes
<1>2. /\ Next1(poll.failures, Threshold) \in 0 .. Threshold
      /\ Next1(poll.rounds, ParkAfter + 1) \in 0 .. ParkAfter + 1
      /\ Next1(strikes, ParkAfter + 1) \in 0 .. ParkAfter + 1
      /\ Next1(poll.rounds, ParkAfter + 1) <= Next1(strikes, ParkAfter + 1)
      /\ rounds <= Next1(strikes, ParkAfter + 1)
      /\ poll.rounds >= ParkAfter => Next1(strikes, ParkAfter + 1) > ParkAfter
      BY <1>1 DEF Next1
<1>3. poll' \in Polls /\ poll'.stage = "idle"
      BY IdleIsAPoll DEF Record
<1>4. CASE Disabling
  <2>1. /\ enabled' = FALSE /\ disabledAt' = "recent" /\ retired' = RetireReason
        /\ failures' = Next1(poll.failures, Threshold)
        /\ rounds' = IF Rejected THEN Next1(poll.rounds, ParkAfter + 1) ELSE rounds
        /\ strikes' = IF Rejected THEN Next1(strikes, ParkAfter + 1) ELSE strikes
        BY <1>4 DEF Record
  <2>2. /\ RetireReason \in Reasons \union {"none"}
        /\ RetireReason = "recovery_exhausted" => Rejected /\ poll.rounds >= ParkAfter
        BY <1>1 DEF RetireReason, Reasons
  <2>3. TypeOK'
        BY <2>1, <2>2, <1>1, <1>2, <1>3 DEF Record, IInv, TypeOK, Polls, Stages
  <2>4. ParkingIsEarned' /\ RoundsWereStrikes'
        BY <2>1, <2>2, <1>1, <1>2, <1>3 DEF ParkingIsEarned, RoundsWereStrikes
  <2>5. QED BY <2>1, <2>3, <2>4, <1>3 DEF IInv, RetiredIsOff, OffHasAWayBack, PolledIsNotRetired
<1>5. CASE ~Disabling
  <2>1. /\ UNCHANGED <<enabled, disabledAt, rounds, retired, strikes, operatorOff>>
        /\ failures' = Next1(poll.failures, Threshold)
        BY <1>5 DEF Record
  <2>2. TypeOK'
        BY <2>1, <1>1, <1>2, <1>3 DEF Record, IInv, TypeOK, Polls, Stages
  <2>3. QED BY <2>1, <2>2, <1>1, <1>3
            DEF IInv, RetiredIsOff, OffHasAWayBack, PolledIsNotRetired, ParkingIsEarned,
                RoundsWereStrikes
<1>6. QED BY <1>4, <1>5
-----------------------------------------------------------------------------
(* Every step keeps the invariant.                                           *)
LEMMA Consecution == IInv /\ [Next]_vars => IInv'
<1> SUFFICES ASSUME IInv, [Next]_vars PROVE IInv'
    OBVIOUS
<1> USE ThresholdAssumption, ParkAssumption
<1>1. CASE StartPoll
  <2>1. poll' \in Polls /\ poll'.rounds = rounds /\ retired = "none"
        BY <1>1, IdleIsAPoll DEF StartPoll, IInv, TypeOK, RetiredIsOff, Polls, Stages, Idle
  <2>2. TypeOK'
        BY <1>1, <2>1 DEF StartPoll, row, history, IInv, TypeOK, Polls, Stages
  <2>3. QED BY <1>1, <2>1, <2>2
            DEF StartPoll, row, history, IInv, RetiredIsOff, OffHasAWayBack,
                PolledIsNotRetired, RoundsWereStrikes, ParkingIsEarned
<1>2. CASE CleanPoll \/ Repoint
      BY <1>2, CleanPollKeeps
<1>3. CASE PollFails
  <2>1. PICK s \in Rejections \union {"other"} : Fails(s)
        BY <1>3 DEF PollFails, FetchStatuses
  <2>2. poll' \in Polls /\ poll'.rounds = poll.rounds /\ poll.stage # "idle"
        BY <1>3, <2>1, FailsKeepsCopy DEF PollFails, IInv
  <2>3. TypeOK'
        BY <1>3, <2>2 DEF PollFails, row, history, IInv, TypeOK, Polls, Stages
  <2>4. QED BY <1>3, <2>2, <2>3
            DEF PollFails, row, history, IInv, RetiredIsOff, OffHasAWayBack,
                PolledIsNotRetired, RoundsWereStrikes, ParkingIsEarned
<1>4. CASE Probe
  <2>1. poll' \in Polls /\ poll'.rounds = poll.rounds /\ poll.stage # "idle" /\ cooled' \in BOOLEAN
    <3>1. PICK v \in Verdicts : /\ poll' = [poll EXCEPT !.stage = "recording", !.verdict = v]
                                /\ cooled' = (v = "suppress")
          BY <1>4 DEF Probe
    <3>2. poll \in Polls /\ poll.stage = "probing"
      <4>1. poll \in Polls
            BY DEF IInv, TypeOK, Polls, Stages
      <4>2. poll.stage = "probing"
            BY <1>4 DEF Probe
      <4>3. QED BY <4>1, <4>2
    <3>3. QED BY <3>1, <3>2 DEF Polls, Stages
  <2>2. TypeOK'
        BY <1>4, <2>1 DEF Probe, row, history, IInv, TypeOK, Polls, Stages
  <2>3. QED BY <1>4, <2>1, <2>2
            DEF Probe, row, history, IInv, RetiredIsOff, OffHasAWayBack,
                PolledIsNotRetired, RoundsWereStrikes, ParkingIsEarned
<1>5. CASE Record
      BY <1>5, RecordKeeps
<1>6. CASE PollLost
  <2>1. TypeOK'
        BY <1>6, IdleIsAPoll DEF PollLost, row, history, IInv, TypeOK, Polls, Stages
  <2>2. QED BY <1>6, <2>1, IdleIsAPoll
            DEF PollLost, row, history, IInv, RetiredIsOff, OffHasAWayBack,
                PolledIsNotRetired, RoundsWereStrikes, ParkingIsEarned
<1>7. CASE Recover
  <2>1. TypeOK'
        BY <1>7 DEF Recover, history, IInv, TypeOK
  <2>2. QED BY <1>7, <2>1
            DEF Recover, history, IInv, RetiredIsOff, OffHasAWayBack,
                PolledIsNotRetired, RoundsWereStrikes, ParkingIsEarned
<1>8. CASE Age \/ CooldownEnds \/ BoardChanges \/ ToggleReads
  <2>1. TypeOK'
    <3>1. CASE Age \/ CooldownEnds
          BY <3>1 DEF Age, CooldownEnds, row, history, IInv, TypeOK
    <3>2. CASE BoardChanges
          BY <3>2 DEF BoardChanges, row, history, IInv, TypeOK, Boards
    <3>3. CASE ToggleReads
          BY <3>3 DEF ToggleReads, row, history, IInv, TypeOK
    <3>4. QED BY <1>8, <3>1, <3>2, <3>3
  <2>2. UNCHANGED <<enabled, retired, rounds, strikes, poll, operatorOff>>
        BY <1>8 DEF Age, CooldownEnds, BoardChanges, ToggleReads, row, history
  <2>3. disabledAt # "none" => disabledAt' # "none"
        BY <1>8 DEF Age, CooldownEnds, BoardChanges, ToggleReads, row
  <2>4. QED BY <2>1, <2>2, <2>3
            DEF IInv, RetiredIsOff, OffHasAWayBack, PolledIsNotRetired, RoundsWereStrikes,
                ParkingIsEarned
<1>9. CASE ToggleOff
  <2>1. TypeOK'
        BY <1>9 DEF ToggleOff, IInv, TypeOK
  <2>2. QED BY <1>9, <2>1
            DEF ToggleOff, IInv, RetiredIsOff, OffHasAWayBack, PolledIsNotRetired,
                RoundsWereStrikes, ParkingIsEarned
<1>10. CASE ToggleOn
  <2>1. 0 \in 0 .. ParkAfter + 1 /\ strikes' \in 0 .. ParkAfter + 1
        BY <1>10 DEF ToggleOn, IInv, TypeOK
  <2>2. TypeOK'
        BY <1>10, <2>1 DEF ToggleOn, IInv, TypeOK
  <2>3. RoundsWereStrikes'
        BY <1>10, <2>1 DEF ToggleOn, IInv, TypeOK, RoundsWereStrikes
  <2>4. QED BY <1>10, <2>2, <2>3
            DEF ToggleOn, IInv, RetiredIsOff, OffHasAWayBack, PolledIsNotRetired, ParkingIsEarned
<1>11. CASE UNCHANGED vars
       BY <1>11 DEF vars, IInv, TypeOK, RetiredIsOff, OffHasAWayBack, PolledIsNotRetired,
                    RoundsWereStrikes, ParkingIsEarned
<1>12. QED
       BY <1>1, <1>2, <1>3, <1>4, <1>5, <1>6, <1>7, <1>8, <1>9, <1>10, <1>11 DEF Next

LEMMA Invariance == Spec => []IInv
BY Initially, Consecution, PTL DEF Spec
-----------------------------------------------------------------------------
(* The row's counters stay in their bounds and its poll where the code can   *)
(* be.                                                                       *)
THEOREM SourceHealthTypeOK == Spec => []TypeOK
<1>1. IInv => TypeOK
      BY DEF IInv
<1>2. QED BY <1>1, Invariance, PTL

(* A retired source stays off until an operator switches it on, whatever     *)
(* poll of it was under way and whatever recovery runs.                      *)
THEOREM RetiredAlwaysOff == Spec => []RetiredIsOff
<1>1. IInv => RetiredIsOff
      BY DEF IInv
<1>2. QED BY <1>1, Invariance, PTL

(* Whatever switched a source off, something can switch it on again.         *)
THEOREM AlwaysAWayBack == Spec => []OffHasAWayBack
<1>1. IInv => OffHasAWayBack
      BY DEF IInv
<1>2. QED BY <1>1, Invariance, PTL

(* No outage parks a source: each of the rounds that do was a rejection by   *)
(* the board itself.                                                         *)
THEOREM ParkingAlwaysEarned == Spec => []ParkingIsEarned
<1>1. IInv => ParkingIsEarned
      BY DEF IInv
<1>2. QED BY <1>1, Invariance, PTL
=============================================================================
