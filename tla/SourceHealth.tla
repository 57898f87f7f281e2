----------------------------- MODULE SourceHealth -----------------------------
(* The health of one job board's row in sources: the failure backoff of      *)
(* services/poller.py, its re-detection, retirement and parking, the         *)
(* auto-recovery at the start of a cycle and the operator's toggle of        *)
(* routers/sources.py.  The scheduler's cycles exclude each other (PollLock; *)
(* POST /poll/due, which takes no lock, is not modelled here), so one poll   *)
(* of the row is in flight at a time; it works from the copy of the row its  *)
(* cycle read, and the operator may act at any moment between.               *)
EXTENDS Integers

CONSTANTS Threshold,  \* source_failure_disable_threshold
          ParkAfter   \* source_park_after_failed_recoveries

ASSUME ThresholdAssumption == Threshold \in Nat \ {0}
ASSUME ParkAssumption == ParkAfter \in Nat \ {0}

VARIABLES
  enabled, failures,  \* enabled, consecutive_failures
  disabledAt,         \* disabled_at: "none", "recent", "old" (past the cooldown)
  rounds,             \* auto_disables
  retired,            \* retired_reason ("none": retired_at is NULL too)
  board,              \* what the board really does
  cooled,             \* _STILL_LIVE_UNTIL remembers a live probe
  poll,               \* the poll in flight, with its copy of the row
  wants,              \* what the toggle request in flight will write
  operatorOff,        \* history: the operator's last word was "off"
  strikes             \* history: rejected rounds since the last fresh start

vars == <<enabled, failures, disabledAt, rounds, retired, board, cooled, poll,
          wants, operatorOff, strikes>>
row == <<enabled, failures, disabledAt, rounds, retired>>
history == <<operatorOff, strikes>>

Rejections == {"404", "rejected"}           \* _PARKABLE_STATUSES
Reasons == {"dead_board", "duplicate", "recovery_exhausted"}
Verdicts == {"suppress", "disable", "retire_duplicate", "retire_dead"}

(* What the board does to the fetch of a poll, and to the one light request  *)
(* of a probe, which may be answered while every fetch fails.                *)
Boards == {"up",         \* serves both
           "answering",  \* answers the probe, not the fetch
           "down",       \* gives neither a usable answer
           "rejecting"}  \* rejects the fetch, and the probe finds nothing
Answering == board \in {"up", "answering"}
FetchStatuses ==
  CASE board = "rejecting" -> Rejections
    [] board = "answering" -> Rejections \union {"other"}
    [] OTHER -> {"other"}

(* Counters are compared with their limit only, so they stop there.          *)
Next1(n, limit) == IF n < limit THEN n + 1 ELSE limit

Idle == [stage |-> "idle", failures |-> 0, rounds |-> 0, status |-> "other", verdict |-> "count"]

Init == /\ enabled = TRUE /\ failures = 0 /\ disabledAt = "none"
        /\ rounds = 0 /\ retired = "none"
        /\ board = "up" /\ cooled = FALSE /\ poll = Idle
        /\ wants = "none" /\ operatorOff = FALSE /\ strikes = 0
-----------------------------------------------------------------------------
(* A cycle reads the enabled rows and polls this one.                        *)
StartPoll ==
  /\ poll.stage = "idle" /\ enabled
  /\ poll' = [Idle EXCEPT !.stage = "polling", !.failures = failures, !.rounds = rounds]
  /\ UNCHANGED <<row, board, cooled, wants, history>>

(* _record_source_failure up to its probe: below the threshold the failure   *)
(* is only counted.                                                          *)
Fails(status) ==
  poll' = [poll EXCEPT !.status = status,
             !.stage = IF poll.failures + 1 >= Threshold THEN "probing" ELSE "recording"]

(* The clean poll's write.  If the archiving gathered with it, or what comes *)
(* after it, raises, the poll is a failed one after all.                     *)
CleanPoll ==
  /\ poll.stage = "polling" /\ board = "up"
  /\ failures' = 0 /\ rounds' = 0
  /\ \/ poll' = Idle /\ strikes' = 0
     \/ Fails("other") /\ UNCHANGED strikes
  /\ UNCHANGED <<enabled, disabledAt, retired, board, cooled, wants, operatorOff>>

(* The fetch fails: the board rejects it, or there is no usable answer; or   *)
(* the board is up and a later stage of the poll raises.                     *)
PollFails ==
  /\ poll.stage = "polling"
  /\ \E status \in FetchStatuses : Fails(status)
  /\ UNCHANGED <<row, board, cooled, wants, history>>

(* _redetect_before_disabling: a board that answers a probe, now or a while  *)
(* ago, is not disabled, even one that rejects every fetch; another row may  *)
(* own the company's live board; only a 404 with nothing found anywhere is   *)
(* proof of death; all else is "disable".                                    *)
Probe ==
  /\ poll.stage = "probing"
  /\ \E v \in Verdicts :
       /\ cooled => v = "suppress"
       /\ v = "suppress" => cooled \/ Answering
       /\ v = "retire_dead" => ~Answering /\ poll.status = "404"
       /\ cooled' = (v = "suppress")
       /\ poll' = [poll EXCEPT !.stage = "recording", !.verdict = v]
  /\ UNCHANGED <<row, board, wants, history>>

(* The company moved: the row is pointed at its new board.                   *)
Repoint ==
  /\ poll.stage = "probing" /\ ~cooled
  /\ board' = "up" /\ failures' = 0 /\ rounds' = 0
  /\ poll' = Idle /\ strikes' = 0
  /\ UNCHANGED <<enabled, disabledAt, retired, cooled, wants, operatorOff>>

Disabling == poll.verdict \in Verdicts \ {"suppress"}
Rejected == poll.status \in Rejections
RetireReason ==
  CASE poll.verdict = "retire_dead" -> "dead_board"
    [] poll.verdict = "retire_duplicate" -> "duplicate"
    [] poll.verdict = "disable" /\ Rejected /\ poll.rounds >= ParkAfter -> "recovery_exhausted"
    [] OTHER -> retired

(* A faulty failure write that leaves disabled_at alone.                     *)
RecordUnstamped ==
  /\ poll.stage = "recording"
  /\ failures' = Next1(poll.failures, Threshold)
  /\ IF Disabling
     THEN enabled' = FALSE /\ retired' = RetireReason
     ELSE UNCHANGED <<enabled, retired>>
  /\ poll' = Idle
  /\ UNCHANGED <<disabledAt, rounds, strikes, board, cooled, wants, operatorOff>>

(* A faulty failure write that counts every round, an outage's too.          *)
RecordCountsOutages ==
  /\ poll.stage = "recording"
  /\ failures' = Next1(poll.failures, Threshold)
  /\ IF Disabling
     THEN /\ enabled' = FALSE /\ disabledAt' = "recent"
          /\ retired' = RetireReason
          /\ rounds' = Next1(poll.rounds, ParkAfter + 1)
          /\ strikes' = IF Rejected THEN Next1(strikes, ParkAfter + 1) ELSE strikes
     ELSE UNCHANGED <<enabled, disabledAt, rounds, retired, strikes>>
  /\ poll' = Idle
  /\ UNCHANGED <<board, cooled, wants, operatorOff>>

(* The failure write, all of it from the poll's copy of the row.             *)
Record ==
  /\ poll.stage = "recording"
  /\ failures' = Next1(poll.failures, Threshold)
  /\ IF Disabling
     THEN /\ enabled' = FALSE /\ disabledAt' = "recent"
          /\ retired' = RetireReason
          /\ rounds' = IF Rejected THEN Next1(poll.rounds, ParkAfter + 1) ELSE rounds
          /\ strikes' = IF Rejected THEN Next1(strikes, ParkAfter + 1) ELSE strikes
     ELSE UNCHANGED <<enabled, disabledAt, rounds, retired, strikes>>
  /\ poll' = Idle
  /\ UNCHANGED <<board, cooled, wants, operatorOff>>

(* The source's budget, the watchdog or a restart ends the poll, or its last *)
(* write raises: nothing of this is written.                                 *)
PollLost ==
  /\ poll.stage # "idle" /\ poll' = Idle
  /\ UNCHANGED <<row, board, cooled, wants, history>>
-----------------------------------------------------------------------------

(* A faulty recovery that forgets the rounds, as a clean poll does.          *)
RecoverForgets ==
  /\ poll.stage = "idle"
  /\ ~enabled /\ disabledAt = "old" /\ retired = "none"
  /\ enabled' = TRUE /\ failures' = 0 /\ disabledAt' = "none" /\ rounds' = 0
  /\ UNCHANGED <<retired, board, cooled, poll, wants, history>>

(* recover_stale_sources, before the cycle reads its rows.                   *)
Recover ==
  /\ poll.stage = "idle"
  /\ ~enabled /\ disabledAt = "old" /\ retired = "none"
  /\ enabled' = TRUE /\ failures' = 0 /\ disabledAt' = "none"
  /\ UNCHANGED <<rounds, retired, board, cooled, poll, wants, history>>

(* source_recovery_after_hours pass.                                         *)
Age == /\ disabledAt = "recent" /\ disabledAt' = "old"
       /\ UNCHANGED <<enabled, failures, rounds, retired, board, cooled, poll, wants, history>>

(* The cooldown of a live probe ends, or the process restarts.               *)
CooldownEnds == /\ cooled /\ cooled' = FALSE
                /\ UNCHANGED <<row, board, poll, wants, history>>

BoardChanges == /\ board' \in Boards \ {board}
                /\ UNCHANGED <<row, cooled, poll, wants, history>>

(* POST /sources toggle reads enabled, then writes the opposite.             *)
ToggleReads ==
  /\ wants = "none" /\ wants' = IF enabled THEN "off" ELSE "on"
  /\ UNCHANGED <<row, board, cooled, poll, history>>

ToggleOff ==
  /\ wants = "off" /\ wants' = "none"
  /\ enabled' = FALSE /\ operatorOff' = TRUE
  /\ UNCHANGED <<failures, disabledAt, rounds, retired, board, cooled, poll, strikes>>

ToggleOn ==
  /\ wants = "on" /\ wants' = "none"
  /\ enabled' = TRUE /\ retired' = "none" /\ rounds' = 0 /\ operatorOff' = FALSE
  /\ strikes' = IF poll.stage = "idle" THEN 0 ELSE strikes
  /\ UNCHANGED <<failures, disabledAt, board, cooled, poll>>

Next == \/ StartPoll \/ CleanPoll \/ PollFails \/ Probe \/ Repoint \/ Record \/ PollLost
        \/ Recover \/ Age \/ CooldownEnds \/ BoardChanges
        \/ ToggleReads \/ ToggleOff \/ ToggleOn

Spec == Init /\ [][Next]_vars

(* Fairness: cycles keep coming and clocks advance; a poll is not cut short  *)
(* every time, and its writes are not refused every time.                    *)
FairSpec == /\ Spec
            /\ WF_vars(StartPoll) /\ WF_vars(Recover)
            /\ WF_vars(Age) /\ WF_vars(CooldownEnds)
            /\ SF_vars(CleanPoll \/ PollFails) /\ SF_vars(Probe \/ Repoint) /\ SF_vars(Record)
-----------------------------------------------------------------------------
TypeOK ==
  /\ enabled \in BOOLEAN /\ cooled \in BOOLEAN /\ operatorOff \in BOOLEAN
  /\ failures \in 0 .. Threshold
  /\ rounds \in 0 .. ParkAfter + 1 /\ strikes \in 0 .. ParkAfter + 1
  /\ disabledAt \in {"none", "recent", "old"}
  /\ retired \in Reasons \union {"none"}
  /\ board \in Boards
  /\ wants \in {"none", "off", "on"}
  /\ poll \in [stage : {"idle", "polling", "probing", "recording"},
               failures : 0 .. Threshold, rounds : 0 .. ParkAfter + 1,
               status : Rejections \union {"other"}, verdict : Verdicts \union {"count"}]

(* A retired source is off, and stays off until an operator switches it on   *)
(* (recover_stale_sources' docstring).                                       *)
RetiredIsOff == retired # "none" => ~enabled

(* Nothing goes dark for ever by itself (the outage of ingestion_resilience):*)
(* what is off was switched off by an operator, or is retired, or is stamped *)
(* for recovery.                                                             *)
OffHasAWayBack == ~enabled => operatorOff \/ retired # "none" \/ disabledAt # "none"

(* A source is parked only after more than ParkAfter rounds that its board   *)
(* rejected, since it last worked, was re-pointed, or was switched on with   *)
(* no poll of it under way: an outage never spends the parking budget.       *)
ParkingIsEarned == retired = "recovery_exhausted" => strikes > ParkAfter

(* A board that rejects every fetch, and answers no probe, from some day on  *)
(* is left alone in the end: the loop of disabling and recovering it stops.  *)
(* One whose probe answers while its fetch fails is not: it is never         *)
(* disabled, by design, and its polls go on failing.                         *)
DeadBoardIsLeftAlone ==
  <>[](board = "rejecting") /\ <>[](wants = "none") => <>[]~enabled

(* Every outage ends, whatever the board does: a source that was disabled    *)
(* by itself is switched on again, unless it is retired or switched off.     *)
OutageEnds == ~enabled ~> enabled \/ retired # "none" \/ operatorOff

(* recover_stale_sources: "an operator who manually disables a source        *)
(* (leaving disabled_at NULL) is never overridden".                          *)
OperatorOffStaysOff == operatorOff => ~enabled
=============================================================================
