--------------------------------- MODULE Catchup -------------------------------
(***************************************************************************)
(* Which jobs of the local program run on which day: the jobs of           *)
(* local/localapp/scheduler.py and the catch-up at its start               *)
(* (local/localapp/catchup.py), which reads in cycles.jsonl what has run   *)
(* already and repeats what was missed while the program was off.          *)
(*                                                                         *)
(* A day (KST) is cut into the intervals the code distinguishes:           *)
(*   0 night      to 05:05; the US session of the day before is open       *)
(*   1 dawn       from 05:05, five minutes after its close, to 08:55       *)
(*   2 pre-open   from 08:55, the KRX cycle, to 09:00                      *)
(*   3 morning    KRX session, to 12:00                                    *)
(*   4 noon       from 12:00, the planner of the US night, to 15:30        *)
(*   5 close      to 15:35                                                 *)
(*   6 evening    from 15:35, the KRX settlement                           *)
(*   7 reserve    20 to 10 minutes before the US session opens             *)
(*   8 us_gap     the 10 minutes before it opens                           *)
(*   9 us_open    US session, to midnight                                  *)
(***************************************************************************)
EXTENDS Integers, Sequences, FiniteSetsExt

CONSTANTS
    KrxDays,    \* days of a KRX session
    UsDays,     \* days on whose evening a US session opens
    LastDay,    \* bound: days
    MaxStarts,  \* bound: registrations of the jobs, each with a catch-up thread
    MaxEvents   \* bound: runs that end without an entry, missing credentials, and
                \* cycles asked for by hand

ASSUME ConstantsAssumption ==
    /\ LastDay \in Nat /\ MaxStarts \in Nat /\ MaxEvents \in Nat
    /\ KrxDays \subseteq 0..LastDay /\ UsDays \subseteq 0..LastDay

VARIABLES
    day, slot,  \* the clock
    power,      \* the scheduler: "off", "on", or "asleep" with the machine
    due,        \* jobs whose time has come
    planned,    \* one-shot jobs of the US night
    running,    \* the runs under way
    todo,       \* catch-up thread -> what is left of its CatchupPlan
    fresh,      \* the threads whose plan is of this interval
    log,        \* cycles.jsonl
    starts, events,               \* bounds
    chance, hindered, renewed  \* history

vars == <<day, slot, power, due, planned, running, todo, fresh, log,
          starts, events, chance, hindered, renewed>>

Days    == 0..LastDay
Slots   == 0..9
Threads == 1..MaxStarts
Cron    == 0

Job(market, kind, session) ==
    [market |-> market, kind |-> kind, session |-> session]
Jobs == [market : {"KRX", "US"}, kind : {"cycle", "settle", "stop", "plan", "hand"},
         session : Days]
Runs == [by : Threads \cup {Cron}, job : Jobs, fresh : BOOLEAN]
Kinds   == {"cycle", "catchup_cycle", "post_close_settlement"}
Entries == [kind : Kinds, job : Jobs, day : Days]

Init ==
    /\ day = 0 /\ slot = 1
    /\ power = "off"
    /\ due = {} /\ planned = {} /\ running = {} /\ fresh = {}
    /\ todo = [t \in Threads |-> {}]
    /\ log = <<>>
    /\ starts = 0 /\ events = 0
    /\ chance = {}      \* runs that were due while the program could do them
    /\ hindered = {}    \* runs of these that failed or were cut off
    /\ renewed = {}     \* cycles under way, or done minutes before, when the jobs
                        \* were registered again

Planned  == UNION {todo[t] : t \in Threads}
Underway == due \cup {r.job : r \in running} \cup Planned
Logged   == {log[i].job : i \in DOMAIN log}

Event == events < MaxEvents /\ events' = events + 1

------------------------------------------------------------------------------
(* The calendar.                                                           *)

KrxIntraday == day \in KrxDays /\ slot \in {3, 4}

\* The US session that is open, if any: it goes on after midnight.
UsOpenSession == {d \in UsDays : \/ d = day /\ slot = 9
                                 \/ d = day - 1 /\ slot = 0}

\* Sessions that a settlement may settle: 15:35 for KRX, 05:05 for US.
Closed(market, d) ==
    IF market = "KRX" THEN d < day \/ (d = day /\ slot >= 6)
                      ELSE d < day - 1 \/ (d = day - 1 /\ slot >= 1)

\* The last KRX session that is closed, looking back a week.
KrxTarget == {d \in KrxDays : /\ Closed("KRX", d) /\ d >= day - 6
                              /\ \A e \in KrxDays : Closed("KRX", e) => e <= d}

\* next_session_kst: the first US session from a day on.
NextSession(from) ==
    {d \in UsDays : d >= from /\ \A e \in UsDays : e >= from => d <= e}

\* The first session that opens after now - 30h, if it is closed; that is
\* 04:30 when the opening is at 22:30, so that the night has two parts.
UsTarget(early) ==
    {d \in NextSession(IF slot = 0 /\ early THEN day - 2 ELSE day - 1) :
        Closed("US", d)}

\* next_session_kst within 20 hours: not before 02:30, nor after the opening.
PlanUs(early) ==
    IF day \in UsDays /\ slot # 9 /\ ~(slot = 0 /\ early)
    THEN {Job("US", k, day) : k \in IF slot = 8 THEN {"settle"} ELSE {"cycle", "settle"}}
    ELSE {}

------------------------------------------------------------------------------
(* The plan of a catch-up.                                                 *)

(* Mutant: the entries of both markets count. *)
LastOfAny(market, kinds) ==
    LET at == {i \in DOMAIN log : log[i].kind \in kinds}
    IN  IF at = {} THEN -1 ELSE log[Max(at)].day

\* The date of the last entry of these kinds, or -1.
LastOf(market, kinds) ==
    LET at == {i \in DOMAIN log : log[i].job.market = market /\ log[i].kind \in kinds}
    IN  IF at = {} THEN -1 ELSE log[Max(at)].day

(* Mutant: a catch-up's cycle does not count. *)
CycleKindsJob == {"cycle"}

CycleKinds == {"cycle", "catchup_cycle"}

MissedSettlement(market, target) ==
    {d \in target : LastOf(market, {"post_close_settlement"}) <
                    IF market = "KRX" THEN d ELSE d + 1}

(* Mutant: a cycle of the same day is missed as well. *)
MissedCycleSameDay(market, open) == {d \in open : LastOf(market, CycleKinds) <= day}

MissedCycle(market, open) == {d \in open : LastOf(market, CycleKinds) < day}

KrxOpenSession == {d \in {day} : KrxIntraday}

Plan(early) ==
    {Job("KRX", "settle", d) : d \in MissedSettlement("KRX", KrxTarget)}
    \cup {Job("US", "settle", d) : d \in MissedSettlement("US", UsTarget(early))}
    \cup {Job("KRX", "stop", d) : d \in KrxOpenSession}
    \cup {Job("US", "stop", d) : d \in UsOpenSession}
    \cup {Job("KRX", "cycle", d) : d \in MissedCycle("KRX", KrxOpenSession)}
    \cup {Job("US", "cycle", d) : d \in MissedCycle("US", UsOpenSession)}

\* Settlements come first, then the stop losses, then the cycles; KRX before US.
Before(j, k) ==
    LET rank == [settle |-> 1, stop |-> 2, cycle |-> 3]
    IN  \/ rank[j.kind] < rank[k.kind]
        \/ j.kind = k.kind /\ j.market = "KRX"
        \/ j = k

------------------------------------------------------------------------------
(* The clock and the scheduler.                                            *)

\* What comes due at the beginning of an interval.
DueAt(d, s) ==
    {j \in {Job("KRX", "cycle", d), Job("US", "plan", d), Job("KRX", "settle", d)} :
        s = CASE j.kind = "cycle" -> 2 [] j.kind = "plan" -> 4 [] OTHER -> 6}
    \cup {j \in planned : \/ j.kind = "cycle" /\ s = 7 /\ j.session = d
                          \/ j.kind = "settle" /\ s = 1 /\ j.session = d - 1}

\* KRX sessions only: what the program is expected to do.
Expected(jobs) == {j \in jobs : /\ j.market = "KRX" /\ j.session \in KrxDays
                                /\ j.kind \in {"cycle", "settle"}}

CyclesOf(jobs) == {j \in jobs : j.kind = "cycle"}

\* An awake scheduler has run what was due; a run or a plan lasts into the
\* next interval at most.
Tick ==
    /\ day < LastDay \/ slot < 9
    /\ power = "on" => due = {}
    /\ \A r \in running : r.fresh
    /\ \A t \in Threads : todo[t] # {} => t \in fresh
    /\ day' = IF slot = 9 THEN day + 1 ELSE day
    /\ slot' = IF slot = 9 THEN 0 ELSE slot + 1
    /\ due' = IF power = "off" THEN {} ELSE DueAt(day', slot')
    /\ planned' = planned \ due'
    /\ running' = {[r EXCEPT !.fresh = FALSE] : r \in running}
    /\ fresh' = {}
    /\ chance' = IF power = "on" THEN chance \cup Expected(due') ELSE chance
    /\ UNCHANGED <<power, todo, log, starts, events, hindered, renewed>>

\* What a program that starts now is expected to make up for.
StartChances ==
    {Job("KRX", "cycle", d) : d \in KrxOpenSession}
    \cup {Job("KRX", "settle", d) : d \in {e \in KrxTarget : day \in KrxDays}}

\* _prepare_helpers: without credentials nothing of the plan is run.
Unprepared(early) ==
    /\ Plan(early) # {} /\ Event
    /\ hindered' = hindered \cup StartChances
    /\ UNCHANGED todo

\* start, or the button of the window: register_jobs plans the US night and
\* starts a thread, which decides its plan at once.
Start ==
    /\ power = "off" /\ starts < MaxStarts
    /\ starts' = starts + 1 /\ power' = "on"
    /\ \E early \in BOOLEAN :
        /\ \/ /\ todo' = [todo EXCEPT ![starts'] = Plan(early)]
              /\ UNCHANGED <<events, hindered>>
           \/ Unprepared(early)
        /\ due' = {j \in PlanUs(early) : j.kind = "cycle" /\ slot = 7}
        /\ planned' = PlanUs(early) \ due'
    /\ fresh' = fresh \cup {starts'}
    /\ chance' = chance \cup StartChances
    /\ renewed' = renewed \cup CyclesOf(Underway \cup (due' \cap Logged))
    /\ UNCHANGED <<day, slot, running, log>>

\* The button again: the scheduler ends, the runs and the threads go on.
ToggleOff ==
    /\ power = "on"
    /\ power' = "off" /\ due' = {} /\ planned' = {}
    /\ hindered' = hindered \cup Expected(due)
    /\ UNCHANGED <<day, slot, running, todo, fresh, log, starts, events, chance,
                   renewed>>

\* The program ends, and with it the jobs and the runs.
Exit ==
    /\ power # "off" \/ Underway # {}
    /\ power' = "off" /\ due' = {} /\ planned' = {} /\ running' = {} /\ fresh' = {}
    /\ todo' = [t \in Threads |-> {}]
    /\ hindered' = hindered \cup Expected(Underway)
    /\ UNCHANGED <<day, slot, log, starts, events, chance, renewed>>

\* The machine sleeps, but not in the middle of a run.
Sleep ==
    /\ power = "on" /\ Underway = {}
    /\ power' = "asleep"
    /\ UNCHANGED <<day, slot, due, planned, running, todo, fresh, log, starts, events,
                   chance, hindered, renewed>>

\* A job whose misfire_grace_time is over is dropped: the two cycles' lasts as
\* long as the interval, the others' may be over within it.
Wake ==
    /\ power = "asleep" /\ power' = "on"
    /\ \E late \in SUBSET {j \in due : j.kind # "cycle"} : due' = due \ late
    /\ chance' = chance \cup Expected(due')
    /\ UNCHANGED <<day, slot, planned, running, todo, fresh, log, starts, events,
                   hindered, renewed>>

------------------------------------------------------------------------------
(* The runs.                                                               *)

\* run_cycle and the settlement do nothing for KRX on a holiday.
Skipped(job) == job.market = "KRX" /\ day \notin KrxDays

FirePlanner ==
    /\ power = "on"
    /\ \E j \in due :
        /\ j.kind = "plan"
        /\ due' = due \ {j}
        /\ planned' = IF PlanUs(FALSE) = {} THEN planned ELSE PlanUs(FALSE)
    /\ UNCHANGED <<day, slot, power, running, todo, fresh, log, starts, events, chance,
                   hindered, renewed>>

Fire ==
    /\ power = "on"
    /\ \E j \in due :
        /\ j.kind # "plan"
        /\ due' = due \ {j}
        /\ running' = IF Skipped(j) THEN running
                      ELSE running \cup {[by |-> Cron, job |-> j, fresh |-> TRUE]}
    /\ UNCHANGED <<day, slot, power, planned, todo, fresh, log, starts, events, chance,
                   hindered, renewed>>

\* A KRX cycle is asked for by button, by command, or on the command line.
RunNow ==
    /\ Event
    /\ ~Skipped(Job("KRX", "hand", day))
    /\ running' = running \cup {[by |-> Cron, job |-> Job("KRX", "hand", day), fresh |-> TRUE]}
    /\ UNCHANGED <<day, slot, power, due, planned, todo, fresh, log, starts, chance,
                   hindered, renewed>>

\* The next part of a thread's plan.  The check of the stop losses leaves no entry.
Begin(t) ==
    /\ \A r \in running : r.by # t
    /\ \E job \in todo[t] :
        /\ \A k \in todo[t] : Before(job, k)
        /\ todo' = [todo EXCEPT ![t] = @ \ {job}]
        /\ IF job.kind = "stop" \/ Skipped(job)
           THEN hindered' = hindered \cup Expected({job}) /\ UNCHANGED running
           ELSE /\ running' = running \cup {[by |-> t, job |-> job, fresh |-> t \in fresh]}
                /\ UNCHANGED hindered
    /\ UNCHANGED <<day, slot, power, due, planned, fresh, log, starts, events, chance,
                   renewed>>

EntryKind(r) == IF r.job.kind = "settle" THEN "post_close_settlement"
                ELSE IF r.by = Cron THEN "cycle" ELSE "catchup_cycle"

\* log_cycle: the entry has the date at which the run ends.
Complete(r) ==
    /\ running' = running \ {r}
    /\ log' = Append(log, [kind |-> EntryKind(r), job |-> r.job, day |-> day])
    /\ UNCHANGED <<day, slot, power, due, planned, todo, fresh, starts, events, chance,
                   hindered, renewed>>

\* Every try failed, the balance was not answered, or the entry was not written.
Fail(r) ==
    /\ Event
    /\ running' = running \ {r}
    /\ hindered' = hindered \cup Expected({r.job})
    /\ UNCHANGED <<day, slot, power, due, planned, todo, fresh, log, starts, chance,
                   renewed>>

Next ==
    \/ Tick \/ Start \/ ToggleOff \/ Exit \/ Sleep \/ Wake
    \/ FirePlanner \/ Fire \/ RunNow
    \/ \E t \in Threads : Begin(t)
    \/ \E r \in running : Complete(r) \/ Fail(r)

Spec == Init /\ [][Next]_vars

------------------------------------------------------------------------------
(* Properties.                                                             *)

TypeOK ==
    /\ day \in Days /\ slot \in Slots
    /\ power \in {"off", "on", "asleep"}
    /\ due \subseteq Jobs /\ planned \subseteq Jobs /\ running \subseteq Runs
    /\ todo \in [Threads -> SUBSET Jobs]
    /\ fresh \subseteq Threads
    /\ log \in Seq(Entries)
    /\ starts \in 0..MaxStarts /\ events \in 0..MaxEvents
    /\ chance \subseteq Jobs /\ hindered \subseteq Jobs /\ renewed \subseteq Jobs

\* Entries of two runs of the cycle for one session.
Repeated(market, i, j) ==
    /\ i # j
    /\ log[i].job = log[j].job
    /\ log[i].job.market = market /\ log[i].job.kind = "cycle"

\* The KRX cycle of a day runs once, be it the job's or a catch-up's, unless the
\* jobs were registered again while it was under way, by the button of the window.
KrxCycleOnce ==
    \A i, j \in DOMAIN log : Repeated("KRX", i, j) => log[i].job \in renewed

\* The US cycle of a session runs once on each of its two dates, with the same exception.
UsCycleOncePerDate ==
    \A i, j \in DOMAIN log :
        Repeated("US", i, j) => log[i].day # log[j].day \/ log[i].job \in renewed

\* A KRX cycle was asked for by hand on this day, and counts as the cycle of the day.
ByHand(d) ==
    \E i \in DOMAIN log : log[i].job.kind = "hand" /\ log[i].day = d

\* A KRX cycle that the job or a start during the session could run is run, or on its
\* way, unless it failed or was cut off, or one by hand took its place.
KrxCycleDone ==
    \A c \in chance : c.kind = "cycle" =>
        c \in Logged \cup Underway \cup hindered \/ ByHand(c.session)

\* No session is settled, or planned to be, before it is closed.
SettlesClosed ==
    \A j \in {r.job : r \in running} \cup Planned \cup Logged :
        j.kind = "settle" => Closed(j.market, j.session)

==============================================================================
