---- MODULE Freshness ----
(***************************************************************************)
(* What of a strategy's signals enters the preview: the symbols it selects *)
(* on the last day of the dataset, less those whose data do not reach the  *)
(* session they ought to reach, and those no share of which is affordable. *)
(* A day, in Korean time, has six parts; the American session of a date    *)
(* runs through its night into the dawn of the next one, in winter an hour *)
(* longer.  One symbol stands for those of a market.                       *)
(***************************************************************************)
EXTENDS Integers, FiniteSetsExt

CONSTANTS
  LastTradeDay  \* bound: days that are simulated

ASSUME FreshnessAssumption == LastTradeDay \in Nat

VARIABLES
  sessions,  \* of each market, the days with a session
  winter,    \* New York is not on daylight saving time
  today,
  part,      \* of the day: 00-05, 05-06, 06-09, 09-15:30 the Korean session,
             \* until 22:30, until 24
  lastDate,  \* of each market, the last date in the dataset, 0 without data
  selected,  \* the markets whose symbol the strategy selects
  dear,      \* the budget buys no share of the Korean symbol
  preview    \* the candidates of the last preview, None before the first

freshnessVars ==
  <<sessions, winter, today, part, lastDate, selected, dear, preview>>

Markets == {"KR", "US"}
NoDate == [at |-> 0]

LastSession(m, upto) == Max({0} \cup {d \in sessions[m] : d <= upto})

FreshnessInit ==
  /\ sessions \in [Markets -> SUBSET (1..LastTradeDay)]
  /\ winter \in BOOLEAN
  /\ today = 1 /\ part = 0
  /\ lastDate = [m \in Markets |-> 0]
  /\ selected \in SUBSET Markets
  /\ dear \in BOOLEAN
  /\ preview = NoDate

TimePasses ==
  /\ \/ part < 5 /\ part' = part + 1 /\ today' = today
     \/ part = 5 /\ today < LastTradeDay /\ part' = 0 /\ today' = today + 1
  /\ UNCHANGED <<sessions, winter, lastDate, selected, dear, preview>>

(* The day of the last session that is over. *)
ClosedDays(m) ==
  IF m = "KR" THEN LastSession(m, IF part >= 4 THEN today ELSE today - 1)
  ELSE LastSession(m, IF part > (IF winter THEN 1 ELSE 0)
                      THEN today - 1 ELSE today - 2)

(* The feeds; of a symbol that is suspended there is nothing new. *)
Collects(m) ==
  /\ lastDate' = [lastDate EXCEPT ![m] = ClosedDays(m)]
  /\ UNCHANGED <<sessions, winter, today, part, selected, dear, preview>>

---------------------------------------------------------------------------
(* A day for the Korean market too. *)
DaysBackOne(m) == IF part = 0 /\ m = "US" THEN 2 ELSE 1

(* How many days back the session is sought that the data must reach.       *)
DaysBack(m) ==
  IF m = "US" THEN IF part = 0 THEN 2 ELSE 1 ELSE 0

(* Without any session in the calendar the data pass. *)
DataFresh(m) ==
  /\ lastDate[m] # 0
  /\ lastDate[m] >= LastSession(m, today - DaysBack(m))

Candidates ==
  {m \in selected : DataFresh(m) /\ ~(m = "KR" /\ dear)}

(* The jobs after the feeds, the button, or the pull of a cycle.            *)
BuildsPreview ==
  /\ preview' = [at |-> today, in |-> Candidates,
                 current |-> {m \in Markets :
                                lastDate[m] # 0 /\ lastDate[m] = ClosedDays(m)}]
  /\ UNCHANGED <<sessions, winter, today, part, lastDate, selected, dear>>

FreshnessNext ==
  TimePasses \/ BuildsPreview \/ \E m \in Markets : Collects(m)

FreshnessSpec == FreshnessInit /\ [][FreshnessNext]_freshnessVars

---------------------------------------------------------------------------
(* No candidate is of data older than the last session that was over when   *)
(* the preview was built, at whatever hour, season and holiday.             *)
NothingStale == preview # NoDate => preview.in \subseteq preview.current

(* A Korean symbol that is selected and affordable is a candidate if its    *)
(* data are of the last session that was over: whether "the last data of    *)
(* the symbol agree with the previous trading day of its market".           *)
CurrentEnters ==
  (preview # NoDate /\ "KR" \in selected /\ ~dear /\ "KR" \in preview.current)
    => "KR" \in preview.in
====
