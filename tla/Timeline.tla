---- MODULE Timeline ----
(***************************************************************************)
(* The timeline that the web page shows of one trading day of a market:    *)
(* for the cycle, the settlement and the preview whether they are still to *)
(* come, done or missed, and why missed.  The server does not know what    *)
(* ran; it goes by the snapshots and heartbeats that came in, and by the   *)
(* preview in the latest of them, as far as they are within a window of a  *)
(* day around now.                                                         *)
(***************************************************************************)
EXTENDS Integers, FiniteSets

CONSTANTS
  Day,        \* ticks of a day; the window reaches as far back and ahead
  RunsAt,     \* when the application runs the cycle
  CycleAt,    \* when the timeline has it scheduled: KRX then, US later
  SettleAt,   \* when the settlement is scheduled and run
  PreviewAt,  \* when the server makes the preview
  After,      \* ticks within which a snapshot is of what was scheduled
  Horizon,    \* bound: last tick
  MaxSnaps,   \* bound: snapshots
  MaxBeats    \* bound: heartbeats

ASSUME TimelineAssumption ==
  /\ {Day, CycleAt, SettleAt, PreviewAt, Horizon} \subseteq Nat
  /\ RunsAt \in 0..CycleAt /\ After \in Nat

VARIABLES
  clock,
  came,   \* the snapshots: what made them, the market and day they name, when
  beats,  \* when heartbeats came
  made,   \* when the latest preview was made, -1 for never
  done    \* what ran to its end, whether or not its snapshot came

timeVars == <<clock, came, beats, made, done>>

DayOf(t) == t \div Day

TimeInit ==
  /\ clock = 0
  /\ came = {} /\ beats = {}
  /\ made = -1
  /\ done = {}

Passes ==
  /\ clock < Horizon
  /\ clock' = clock + 1
  /\ UNCHANGED <<came, beats, made, done>>

Comes(what, market, date) ==
  /\ Cardinality(came) < MaxSnaps
  /\ came' = came
       \cup {[what |-> what, market |-> market, day |-> date, at |-> clock]}

(* A cycle that ran, in time or made up for by a catch-up, names its market *)
(* and day; one that failed its market only.  The push may fail.            *)
CycleRuns ==
  /\ clock >= RunsAt /\ "cycle" \notin done
  /\ done' = done \cup {"cycle"}
  /\ Comes("cycle", TRUE, DayOf(clock)) \/ UNCHANGED came
  /\ UNCHANGED <<clock, beats, made>>

CycleFails ==
  /\ clock >= RunsAt
  /\ Comes("error", TRUE, -1)
  /\ UNCHANGED <<clock, beats, made, done>>

SettlementRuns ==
  /\ clock >= SettleAt /\ "settle" \notin done
  /\ done' = done \cup {"settle"}
  /\ Comes("settle", TRUE, DayOf(clock)) \/ UNCHANGED came
  /\ UNCHANGED <<clock, beats, made>>

(* The push after an execution, a stop loss or an order of the user names   *)
(* no market.                                                               *)
NoticeComes ==
  /\ Comes("notice", FALSE, DayOf(clock))
  /\ UNCHANGED <<clock, beats, made, done>>

HeartbeatComes ==
  /\ Cardinality(beats) < MaxBeats
  /\ beats' = beats \cup {clock}
  /\ UNCHANGED <<clock, came, made, done>>

(* The server puts a preview into the latest snapshot.                      *)
PreviewMade ==
  /\ clock >= PreviewAt
  /\ made' = clock
  /\ done' = done \cup {"preview"}
  /\ UNCHANGED <<clock, came, beats>>

TimeNext ==
  \/ Passes \/ CycleRuns \/ CycleFails \/ SettlementRuns
  \/ NoticeComes \/ HeartbeatComes \/ PreviewMade

TimeSpec == TimeInit /\ [][TimeNext]_timeVars

---------------------------------------------------------------------------
InWindow(t) == clock - Day <= t /\ t <= clock + Day
Snaps == {s \in came : InWindow(s.at)}

(* Without the second look. *)
MatchSnapshotInTime(t) == {s \in Snaps : t <= s.at /\ s.at <= t + After}

(* The snapshot of what was scheduled at t: one that came within After of   *)
(* it and names no other market, or one of that market and day that came on *)
(* that day.                                                                *)
MatchSnapshot(t) ==
  {s \in Snaps : \/ t <= s.at /\ s.at <= t + After
                 \/ s.market /\ s.day = DayOf(t) /\ DayOf(s.at) = DayOf(t)}

(* The cause that the page names: a failure that was told, an application   *)
(* that lived without running it, or none that lived.                       *)
ClassifyMissed(t) ==
  LET near == t - (CycleAt - RunsAt) .. t + After
  IN IF \E s \in Snaps : s.what = "error" /\ s.at \in near THEN "failed"
     ELSE IF \E b \in beats : InWindow(b) /\ b \in near THEN "not run"
     ELSE "not there"

(* What is shown of a run at t. *)
Scheduled(t, isDone) ==
  IF ~InWindow(t) THEN "out of view"
  ELSE IF t > clock THEN "scheduled"
  ELSE IF isDone THEN "done" ELSE ClassifyMissed(t)

Time == [cycle |-> CycleAt, settle |-> SettleAt, preview |-> PreviewAt]
PreviewShown == \E s \in Snaps : made >= PreviewAt

Shown(kind) ==
  Scheduled(Time[kind], IF kind = "preview" THEN PreviewShown
                        ELSE MatchSnapshot(Time[kind]) # {})

(* The light of the page: alive within a tick, lately, or not.              *)
HeartbeatStatus ==
  IF clock \in beats THEN "normal"
  ELSE IF clock - 1 \in beats THEN "warning" ELSE "error"

---------------------------------------------------------------------------
(* What ran on its day, late or after failed attempts, and was pushed is    *)
(* shown as done for as long as it is in view, whatever else came; except   *)
(* the run that came before its scheduled time, whose snapshot leaves the   *)
(* window first.                                                            *)
RanIsShown ==
  \A s \in came : \A kind \in {"cycle", "settle"} :
    /\ s.what = kind
    /\ DayOf(s.at) = DayOf(Time[kind])
    /\ Time[kind] <= clock
    /\ InWindow(Time[kind])
    => Shown(kind) = "done" \/ s.at < clock - Day
====
