---- MODULE Screens ----
(***************************************************************************)
(* The table of stocks behind the screener, in the server's memory: every  *)
(* afternoon a snapshot of the exchange takes its place, and then the jobs *)
(* for the fundamentals and for the indicators, which run for minutes,     *)
(* write their fields into it.  The jobs run on the clock, once after the  *)
(* start of the server, whose threads wait for fixed times only, and at    *)
(* the word of an operator; none of them fails in a way that would have it *)
(* tried again.                                                            *)
(***************************************************************************)
EXTENDS Integers, FiniteSets

CONSTANTS
  MaxDay,  \* bound: days
  MaxOdd   \* bound: failures, starts and refreshes by hand

ScreenJobs == {"naver", "technical"}
NoScreen == -1

VARIABLES
  screenDay,  \* today
  lastJob,    \* the last job of the day: "morning", "krx", "naver", "technical"
  table,      \* the table: number, day, and the day of each job's fields
  jobRun,     \* the jobs: where they are, their table, the day of their data
  odd,        \* failures, starts and refreshes so far
  excused     \* jobs whose fields today's table may lack, and why not

screenVars == <<screenDay, lastJob, table, jobRun, odd, excused>>

NoFields == [j \in ScreenJobs |-> NoScreen]
IdleRun == [pc |-> "idle", to |-> 0, day |-> NoScreen]

ScreenInit ==
  /\ screenDay = 0 /\ lastJob = "morning"
  /\ table = [id |-> 0, day |-> NoScreen, fields |-> NoFields]
  /\ jobRun = [j \in ScreenJobs |-> IdleRun]
  /\ odd = 0
  /\ excused = ScreenJobs

Odd ==
  /\ odd < MaxOdd
  /\ odd' = odd + 1

(* A new snapshot has none of the fields that the jobs write.               *)
Refreshed ==
  table' = [id |-> table.id + 1, day |-> screenDay, fields |-> NoFields]

(* The clock: the snapshot at 15:45, or none if the source fails, in which  *)
(* case the table of the day before stays.                                  *)
KrxRuns ==
  /\ lastJob = "morning"
  /\ lastJob' = "krx"
  /\ \/ Refreshed /\ excused' = {} /\ UNCHANGED odd
     \/ Odd /\ excused' = ScreenJobs /\ UNCHANGED table
  /\ UNCHANGED <<screenDay, jobRun>>

(* A job takes the stocks of the table; of an empty one there are none.     *)
ScreenStarts(j) ==
  jobRun' = [jobRun EXCEPT ![j] =
      [pc |-> IF table.day = NoScreen THEN "empty" ELSE "reads",
       to |-> 0, day |-> screenDay]]

NaverRuns ==
  /\ lastJob = "krx"
  /\ lastJob' = "naver"
  /\ jobRun["naver"].pc = "idle" /\ ScreenStarts("naver")
  /\ UNCHANGED <<screenDay, table, odd, excused>>

TechnicalRuns ==
  /\ lastJob = "naver"
  /\ lastJob' = "technical"
  /\ jobRun["technical"].pc = "idle" /\ ScreenStarts("technical")
  /\ UNCHANGED <<screenDay, table, odd, excused>>

(* It goes on with the table that it started with. *)
ReadsFirst(j) ==
  /\ jobRun[j].pc = "reads"
  /\ jobRun' = [jobRun EXCEPT ![j].pc = "writes", ![j].to = 1]
  /\ UNCHANGED <<screenDay, lastJob, table, odd, excused>>

(* The data are in: the job asks for the table once more, and then writes   *)
(* its fields into what it got.                                             *)
Reads(j) ==
  /\ jobRun[j].pc = "reads"
  /\ jobRun' = [jobRun EXCEPT ![j].pc = "writes", ![j].to = table.id]
  /\ UNCHANGED <<screenDay, lastJob, table, odd, excused>>

WritesScreen(j) ==
  /\ jobRun[j].pc = "writes"
  /\ jobRun' = [jobRun EXCEPT ![j] = IdleRun]
  /\ table' = IF jobRun[j].to = table.id
              THEN [table EXCEPT !.fields[j] = jobRun[j].day] ELSE table
  /\ UNCHANGED <<screenDay, lastJob, odd, excused>>

(* The source answers nothing, or there was nothing to ask for.             *)
WritesNothing(j) ==
  /\ jobRun[j].pc \in {"empty", "reads"}
  /\ jobRun' = [jobRun EXCEPT ![j] = IdleRun]
  /\ IF jobRun[j].pc = "reads" THEN Odd ELSE UNCHANGED odd
  /\ excused' = excused \cup {j}
  /\ UNCHANGED <<screenDay, lastJob, table>>

NextDay ==
  /\ lastJob = "technical"
  /\ \A j \in ScreenJobs : jobRun[j].pc = "idle"
  /\ screenDay < MaxDay
  /\ screenDay' = screenDay + 1
  /\ lastJob' = "morning"
  /\ UNCHANGED <<table, jobRun, odd, excused>>

(* A refresh by hand, at any time, discards what the jobs have written.     *)
Begun ==
  CASE lastJob = "technical" -> ScreenJobs
    [] lastJob = "naver" -> {"naver"}
    [] OTHER -> {}

RefreshByHand ==
  /\ Odd
  /\ Refreshed
  /\ excused' = IF lastJob = "morning" THEN ScreenJobs ELSE excused \cup Begun
  /\ UNCHANGED <<screenDay, lastJob, jobRun>>

(* A start loses the table; its threads refresh and run the jobs one after  *)
(* the other by the clock, and not by each other's end.                     *)
ServerStarts ==
  /\ Odd
  /\ table' = [id |-> table.id + 1, day |-> NoScreen, fields |-> NoFields]
  /\ jobRun' = [j \in ScreenJobs |-> IdleRun]
  /\ excused' = ScreenJobs
  /\ UNCHANGED <<screenDay, lastJob>>

StartRefreshes ==
  /\ table.day = NoScreen
  /\ Refreshed
  /\ UNCHANGED <<screenDay, lastJob, jobRun, odd, excused>>

StartRuns(j) ==
  /\ jobRun[j].pc = "idle"
  /\ j \in excused /\ table.fields[j] = NoScreen
  /\ ScreenStarts(j)
  /\ UNCHANGED <<screenDay, lastJob, table, odd, excused>>

ScreenNext ==
  \/ KrxRuns \/ NaverRuns \/ TechnicalRuns \/ NextDay
  \/ RefreshByHand \/ ServerStarts \/ StartRefreshes
  \/ \E j \in ScreenJobs :
       Reads(j) \/ WritesScreen(j) \/ WritesNothing(j) \/ StartRuns(j)

ScreenSpec == ScreenInit /\ [][ScreenNext]_screenVars

---------------------------------------------------------------------------
(* In the evening, when the jobs of the day have ended, the table is of the *)
(* day and has the fields of the day from each of them, except where their  *)
(* source or the exchange's had failed, or the table was discarded since.   *)
EveningComplete ==
  lastJob = "technical" /\ (\A j \in ScreenJobs : jobRun[j].pc = "idle") =>
    \A j \in ScreenJobs \ excused :
      table.day = screenDay /\ table.fields[j] = screenDay
====
