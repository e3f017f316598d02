----------------------------- MODULE Catchup_proofs ----------------------------
(***************************************************************************)
(* Type correctness of Catchup, that settlements are of closed sessions,   *)
(* that the KRX cycle of a day runs once, and that it is run whenever the  *)
(* program can run it.                                                     *)
(***************************************************************************)
EXTENDS Catchup, TLAPS

IsKrx(j) == j.market = "KRX" /\ j.kind = "cycle"

SettlesLate(j) == j.kind = "settle" => Closed(j.market, j.session)

\* Settlements under way or done are of closed sessions; one-shot jobs are US jobs.
Settling ==
    /\ \A j \in planned : j.market = "US"
    /\ \A j \in due : SettlesLate(j)
    /\ \A t \in Threads : \A j \in todo[t] : SettlesLate(j)
    /\ \A r \in running : SettlesLate(r.job)
    /\ \A i \in DOMAIN log : SettlesLate(log[i].job)

\* A KRX cycle under way is of today, and has begun, or been planned, at its time.
PlanTimed(t) ==
    \A j \in todo[t] : IsKrx(j) =>
        j.session = day /\ (IF t \in fresh THEN slot \in 3..4 ELSE slot \in 4..5)

RunTimed(r) ==
    IsKrx(r.job) => r.job.session = day /\ (IF r.fresh THEN slot \in 2..4 ELSE slot \in 3..5)

Timing ==
    /\ power = "off" => due = {}
    /\ \A j \in due : IsKrx(j) => j.session = day /\ slot = 2
    /\ \A t \in Threads : PlanTimed(t) /\ (t > starts => todo[t] = {})
    /\ \A r \in running : RunTimed(r)

\* Only cycles and settlements are run.
Sorted ==
    /\ \A j \in planned : j.kind \in {"cycle", "settle"}
    /\ \A j \in due : j.kind \in {"cycle", "settle", "plan"}
    /\ \A t \in Threads : \A j \in todo[t] : j.kind \in {"cycle", "settle", "stop"}
    /\ \A r \in running : r.job.kind \in {"cycle", "settle", "hand"}

\* An entry has the sort of its job, and that of a KRX cycle the date of its session.
Dated(e) ==
    /\ e.day <= day
    /\ e.kind \in CycleKinds <=> e.job.kind \in {"cycle", "hand"}
    /\ IsKrx(e.job) => e.day = e.job.session /\ (e.day < day \/ slot >= 2)

Cycles == {i \in DOMAIN log : log[i].job.market = "KRX" /\ log[i].kind \in CycleKinds}

\* The log is in the order of dates, and one of its KRX cycles is the last.
Ordered ==
    /\ \A i \in DOMAIN log : Dated(log[i])
    /\ \A i, k \in DOMAIN log : i <= k => log[i].day <= log[k].day
    /\ Cycles # {} => \E i \in Cycles : \A k \in Cycles : k <= i

\* Of the places a KRX cycle can be in, due, planned, running and logged, it is in one
\* at most, and there once.
Single(c) ==
    /\ c \in due => c \notin Planned /\ c \notin Logged /\ \A r \in running : r.job # c
    /\ \A t, u \in Threads : c \in todo[t] /\ c \in todo[u] => t = u
    /\ c \in Planned => c \notin Logged /\ \A r \in running : r.job # c
    /\ \A q, r \in running : q.job = c /\ r.job = c => q = r
    /\ \A r \in running : r.job = c => c \notin Logged
    /\ \A i, k \in DOMAIN log : log[i].job = c /\ log[k].job = c => i = k

Once == \A c \in Jobs : IsKrx(c) /\ c \notin renewed => Single(c)

\* What is expected has come due, and while the machine sleeps nothing new is.
Chances ==
    /\ \A c \in chance : c.kind = "cycle" => /\ IsKrx(c) /\ c.session \in KrxDays
                                             /\ \/ c.session < day
                                                \/ c.session = day /\ slot >= 2
    /\ power = "asleep" => \A c \in chance : c.kind = "cycle" => c \notin due

\* The places a cycle can be found in, or one by hand that took its place.
Found(c) ==
    \/ \E i \in DOMAIN log : log[i].job = c
    \/ c \in due
    \/ \E r \in running : r.job = c
    \/ \E t \in Threads : c \in todo[t]
    \/ c \in hindered
    \/ \E i \in DOMAIN log : log[i].job.kind = "hand" /\ log[i].day = c.session

Done == \A c \in chance : c.kind = "cycle" => Found(c)

IInv == Settling /\ Timing /\ Sorted /\ Ordered /\ Once /\ Chances /\ Done

------------------------------------------------------------------------------
(* Type correctness.                                                       *)

LEMMA PlansTyped ==
    ASSUME TypeOK, NEW early \in BOOLEAN
    PROVE  Plan(early) \subseteq Jobs /\ PlanUs(early) \subseteq Jobs
BY ConstantsAssumption
   DEF TypeOK, Plan, PlanUs, Job, Jobs, MissedSettlement, MissedCycle, KrxTarget, UsTarget,
       NextSession,
       KrxOpenSession, UsOpenSession, Days

LEMMA ExpectedTyped ==
    ASSUME TypeOK
    PROVE  StartChances \subseteq Jobs
<1>1. KrxOpenSession \subseteq Days /\ KrxTarget \subseteq Days
  BY ConstantsAssumption DEF TypeOK, KrxOpenSession, KrxTarget, Days
<1>2. \A d \in Days : Job("KRX", "cycle", d) \in Jobs /\ Job("KRX", "settle", d) \in Jobs
  BY DEF Job, Jobs
<1> QED BY <1>1, <1>2 DEF StartChances

LEMMA DueTyped ==
    ASSUME TypeOK, NEW d \in Days, NEW s \in Slots
    PROVE  DueAt(d, s) \subseteq Jobs
BY DEF TypeOK, DueAt, Job, Jobs

LEMMA TickClock ==
    ASSUME TypeOK, Tick
    PROVE  /\ day' \in Days /\ slot' \in Slots
           /\ \/ day' = day /\ slot' = slot + 1
              \/ day' = day + 1 /\ slot' = 0 /\ slot = 9
BY ConstantsAssumption DEF TypeOK, Tick, Days, Slots

LEMMA LogDomain ==
    ASSUME TypeOK
    PROVE  DOMAIN log = 1..Len(log) /\ Len(log) \in Nat /\ \A i \in DOMAIN log : log[i] \in Entries
<1>1. log \in Seq(Entries)
  BY DEF TypeOK
<1> QED BY <1>1

\* What log_cycle does to the log.
LEMMA Appended ==
    ASSUME TypeOK, NEW r \in running, Complete(r)
    PROVE  /\ DOMAIN log = 1..Len(log) /\ Len(log) \in Nat
           /\ DOMAIN log' = 1..(Len(log) + 1)
           /\ \A i \in DOMAIN log : log'[i] = log[i]
           /\ log'[Len(log) + 1] = [kind |-> EntryKind(r), job |-> r.job, day |-> day]
           /\ log'[Len(log) + 1].job = r.job
           /\ log'[Len(log) + 1].day = day
           /\ log'[Len(log) + 1].kind = EntryKind(r)
<1>1. log \in Seq(Entries)
  BY DEF TypeOK
<1>2. log' = Append(log, [kind |-> EntryKind(r), job |-> r.job, day |-> day])
  BY DEF Complete
<1> QED BY <1>1, <1>2

LEMMA UnderwayTyped ==
    ASSUME TypeOK
    PROVE  Underway \subseteq Jobs /\ Logged \subseteq Jobs /\ Planned \subseteq Jobs
<1>1. \A r \in running : r.job \in Jobs
  BY DEF TypeOK, Runs
<1>2. \A i \in DOMAIN log : log[i].job \in Jobs
  BY LogDomain DEF Entries
<1> QED BY <1>1, <1>2 DEF TypeOK, Underway, Logged, Planned

\* A run by hand is added to the runs, and nothing else is changed that matters here.
LEMMA ByHandRuns ==
    ASSUME TypeOK, RunNow
    PROVE  \E x \in Runs : /\ running' = running \cup {x}
                           /\ x.job = Job("KRX", "hand", day) /\ x.job.kind = "hand"
<1> DEFINE x == [by |-> Cron, job |-> Job("KRX", "hand", day), fresh |-> TRUE]
<1>1. Job("KRX", "hand", day) \in Jobs /\ Job("KRX", "hand", day).kind = "hand"
  BY DEF Job, Jobs, TypeOK
<1>2. x \in Runs
  BY <1>1 DEF Runs
<1>3. running' = running \cup {x}
  BY DEF RunNow
<1>4. x.job = Job("KRX", "hand", day)
  OBVIOUS
<1> HIDE DEF x
<1> QED BY <1>1, <1>2, <1>3, <1>4

\* TypeOK is preserved by every step.
LEMMA TypeStep == ASSUME TypeOK, [Next]_vars PROVE TypeOK'
<1> USE DEF TypeOK
<1>1. CASE Tick
  <2>1. day' \in Days /\ slot' \in Slots
    BY <1>1, TickClock
  <2>2. due' \subseteq Jobs
    BY <1>1, <2>1, DueTyped DEF Tick
  <2>3. running' \subseteq Runs
    BY <1>1 DEF Tick, Runs
  <2>4. chance' \subseteq Jobs
    BY <1>1, <2>2 DEF Tick, Expected
  <2> QED BY <1>1, <2>1, <2>2, <2>3, <2>4 DEF Tick
<1>2. CASE Start
  <2>1. starts' \in 1..MaxStarts /\ starts' \in Threads
    BY <1>2, ConstantsAssumption DEF Start, Unprepared, Threads
  <2>2. PICK early \in BOOLEAN :
           /\ \/ /\ todo' = [todo EXCEPT ![starts'] = Plan(early)]
                 /\ UNCHANGED <<events, hindered>>
              \/ /\ Event
                 /\ hindered' = hindered \cup StartChances
                 /\ UNCHANGED todo
           /\ due' = {j \in PlanUs(early) : j.kind = "cycle" /\ slot = 7}
           /\ planned' = PlanUs(early) \ due'
    BY <1>2 DEF Start, Unprepared
  <2>3. todo' \in [Threads -> SUBSET Jobs]
    BY <2>1, <2>2, PlansTyped
  <2>4. hindered' \subseteq Jobs /\ chance' \subseteq Jobs
    BY <1>2, <2>2, ExpectedTyped DEF Start, Unprepared
  <2>5. due' \subseteq Jobs /\ planned' \subseteq Jobs
    BY <2>2, PlansTyped
  <2>6. renewed' \subseteq Jobs
    BY <1>2, <2>5, UnderwayTyped DEF Start, Unprepared, CyclesOf
  <2>7. events' \in 0..MaxEvents
    BY <2>2, ConstantsAssumption DEF Event
  <2> QED BY <1>2, <2>1, <2>3, <2>4, <2>5, <2>6, <2>7, ConstantsAssumption DEF Start, Unprepared
<1>3. CASE ToggleOff
  BY <1>3 DEF ToggleOff, Expected
<1>4. CASE Exit
  BY <1>4, UnderwayTyped DEF Exit, Expected
<1>5. CASE Sleep
  BY <1>5 DEF Sleep
<1>6. CASE Wake
  BY <1>6 DEF Wake, Expected
<1>7. CASE FirePlanner
  BY <1>7, PlansTyped DEF FirePlanner
<1>8. CASE Fire
  <2>1. PICK j \in due : due' = due \ {j} /\
           running' = IF Skipped(j) THEN running
                      ELSE running \cup {[by |-> Cron, job |-> j, fresh |-> TRUE]}
    BY <1>8 DEF Fire
  <2>2. [by |-> Cron, job |-> j, fresh |-> TRUE] \in Runs
    BY DEF Runs
  <2> QED BY <1>8, <2>1, <2>2 DEF Fire
<1>9. CASE \E t \in Threads : Begin(t)
  <2>1. PICK t \in Threads : Begin(t)
    BY <1>9
  <2>2. PICK job \in todo[t] :
           /\ todo' = [todo EXCEPT ![t] = @ \ {job}]
           /\ \/ hindered' = hindered \cup Expected({job}) /\ UNCHANGED running
              \/ /\ running' = running \cup {[by |-> t, job |-> job, fresh |-> t \in fresh]}
                 /\ UNCHANGED hindered
    BY <2>1 DEF Begin
  <2>3. job \in Jobs
    OBVIOUS
  <2>4. (t \in fresh) \in BOOLEAN
    OBVIOUS
  <2>5. [by |-> t, job |-> job, fresh |-> t \in fresh] \in Runs
    BY <2>3, <2>4 DEF Runs
  <2>6. todo' \in [Threads -> SUBSET Jobs]
    BY <2>2
  <2> QED BY <2>1, <2>2, <2>3, <2>5, <2>6 DEF Begin, Expected
<1>10. CASE \E r \in running : Complete(r)
  <2>1. PICK r \in running : Complete(r)
    BY <1>10
  <2>2. EntryKind(r) \in Kinds
    BY DEF EntryKind, Kinds
  <2>3. [kind |-> EntryKind(r), job |-> r.job, day |-> day] \in Entries
    BY <2>2 DEF Entries, Runs
  <2> QED BY <2>1, <2>3 DEF Complete
<1>11. CASE \E r \in running : Fail(r)
  <2>1. PICK r \in running : Fail(r)
    BY <1>11
  <2>2. r.job \in Jobs
    BY DEF Runs
  <2> QED BY <2>1, <2>2, ConstantsAssumption DEF Fail, Event, Expected
<1>12. CASE RunNow
  BY <1>12, ByHandRuns, ConstantsAssumption DEF RunNow, Event
<1>13. CASE UNCHANGED vars
  BY <1>13 DEF vars
<1> QED BY <1>1, <1>2, <1>3, <1>4, <1>5, <1>6, <1>7, <1>8, <1>9, <1>10, <1>11, <1>12, <1>13 DEF Next

\* The variables of Catchup have their types: the clock of scheduler.py, the runs, the
\* plans of catchup.py and the entries of cycles.jsonl.
THEOREM TypeCorrect == Spec => []TypeOK
<1>1. Init => TypeOK
  BY ConstantsAssumption DEF Init, TypeOK, Days, Slots, Threads
<1>2. TypeOK /\ [Next]_vars => TypeOK'
  BY TypeStep
<1> QED BY <1>1, <1>2, PTL DEF Spec

------------------------------------------------------------------------------
(* Settlements are of closed sessions.                                     *)

LEMMA ClosedStays ==
    ASSUME TypeOK, Tick, NEW j \in Jobs, SettlesLate(j)
    PROVE  SettlesLate(j)'
<1>1. day \in Int /\ slot \in 0..9 /\ j.session \in Int
  BY DEF TypeOK, Days, Slots, Jobs
<1>2. \/ day' = day /\ slot' = slot + 1
      \/ day' = day + 1 /\ slot' = 0 /\ slot = 9
  BY TickClock
<1> QED BY <1>1, <1>2 DEF SettlesLate, Closed

LEMMA ClosedSame ==
    ASSUME day' = day, slot' = slot, NEW j
    PROVE  SettlesLate(j)' <=> SettlesLate(j)
BY DEF SettlesLate, Closed

LEMMA PlanSettles ==
    ASSUME TypeOK, NEW early \in BOOLEAN
    PROVE  /\ \A j \in Plan(early) : SettlesLate(j)
           /\ \A j \in PlanUs(early) : j.market = "US"
<1>1. \A d \in MissedSettlement("KRX", KrxTarget) : Closed("KRX", d)
  BY DEF MissedSettlement, KrxTarget
<1>2. \A d \in MissedSettlement("US", UsTarget(early)) : Closed("US", d)
  BY DEF MissedSettlement, UsTarget
<1> QED BY <1>1, <1>2 DEF Plan, PlanUs, Job, SettlesLate

LEMMA SettlingStep == ASSUME TypeOK, Settling, [Next]_vars PROVE Settling'
<1>0. /\ \A i \in DOMAIN log : log[i].job \in Jobs
      /\ \A r \in running : r.job \in Jobs
      /\ \A t \in Threads : \A j \in todo[t] : j \in Jobs
  <2>1. \A i \in DOMAIN log : log[i] \in Entries
    BY LogDomain
  <2> QED BY <2>1 DEF TypeOK, Entries, Runs
<1>1. CASE Tick
  <2>1. \A j \in due' : SettlesLate(j)'
    <3>1. CASE due' = {}
      BY <3>1
    <3>2. CASE due' = DueAt(day', slot')
      <4> SUFFICES ASSUME NEW j \in DueAt(day', slot'), j.kind = "settle"
                   PROVE  Closed(j.market, j.session)'
        BY <3>2 DEF SettlesLate
      <4>1. day' \in Int /\ slot' \in 0..9
        BY <1>1, TickClock DEF Days, Slots
      <4>2. CASE j = Job("KRX", "settle", day') /\ slot' = 6
        BY <4>1, <4>2 DEF Closed, Job
      <4>3. CASE j \in planned /\ slot' = 1 /\ j.session = day' - 1
        <5>1. j.market = "US"
          BY <4>3 DEF Settling
        <5> QED BY <4>1, <4>3, <5>1 DEF Closed
      <4> QED BY <4>2, <4>3 DEF DueAt, Job
    <3> QED BY <1>1, <3>1, <3>2 DEF Tick
  <2>2. \A t \in Threads : \A j \in todo'[t] : SettlesLate(j)'
    BY <1>0, <1>1, ClosedStays DEF Tick, Settling
  <2>3. \A r \in running' : SettlesLate(r.job)'
    <3> SUFFICES ASSUME NEW r \in running PROVE SettlesLate(r.job)'
      <4>1. \A q \in running' : \E r \in running : q.job = r.job
        BY <1>1 DEF Tick, TypeOK, Runs
      <4> QED BY <4>1 DEF SettlesLate
    <3> QED BY <1>0, <1>1, ClosedStays DEF Settling
  <2>4. log' = log /\ \A i \in DOMAIN log : SettlesLate(log[i].job)'
    <3>1. log' = log
      BY <1>1 DEF Tick
    <3>2. ASSUME NEW i \in DOMAIN log PROVE SettlesLate(log[i].job)'
      <4>1. PICK j \in Jobs : j = log[i].job /\ SettlesLate(j)
        BY <1>0 DEF Settling
      <4>2. SettlesLate(j)'
        BY <1>1, <4>1, ClosedStays
      <4> QED BY <3>1, <4>1, <4>2 DEF SettlesLate
    <3> QED BY <3>1, <3>2
  <2>5. \A j \in planned' : j.market = "US"
    BY <1>1 DEF Tick, Settling
  <2> QED BY <2>1, <2>2, <2>3, <2>4, <2>5 DEF Settling
<1>2. ASSUME UNCHANGED <<day, slot>> PROVE \A j : SettlesLate(j)' <=> SettlesLate(j)
  BY <1>2, ClosedSame
<1>3. CASE Start
  <2>1. UNCHANGED <<day, slot, running, log>> /\ starts' \in Threads
    BY <1>3, ConstantsAssumption DEF Start, Unprepared, TypeOK, Threads
  <2>2. PICK early \in BOOLEAN :
           /\ todo' = [todo EXCEPT ![starts'] = Plan(early)] \/ todo' = todo
           /\ due' = {j \in PlanUs(early) : j.kind = "cycle" /\ slot = 7}
           /\ planned' = PlanUs(early) \ due'
    BY <1>3 DEF Start, Unprepared
  <2>3. \A j \in due' : SettlesLate(j)
    BY <2>2 DEF SettlesLate
  <2>4. \A t \in Threads : todo'[t] = todo[t] \/ todo'[t] = Plan(early)
    BY <2>1, <2>2 DEF TypeOK
  <2>5. \A t \in Threads : \A j \in todo'[t] : SettlesLate(j)
    BY <2>4, PlanSettles DEF Settling
  <2>6. \A j \in planned' : j.market = "US"
    BY <2>2, PlanSettles
  <2> QED BY <1>2, <2>1, <2>3, <2>5, <2>6 DEF Settling
<1>4. CASE ToggleOff \/ Sleep \/ Wake
  <2>1. UNCHANGED <<day, slot, running, todo, log>> /\ due' \subseteq due
        /\ planned' \subseteq planned
    BY <1>4 DEF ToggleOff, Sleep, Wake
  <2> QED BY <1>2, <2>1 DEF Settling
<1>5. CASE Exit
  <2>1. /\ UNCHANGED <<day, slot, log>> /\ due' = {} /\ planned' = {} /\ running' = {}
        /\ \A t \in Threads : todo'[t] = {}
    BY <1>5 DEF Exit
  <2> QED BY <1>2, <2>1 DEF Settling
<1>6. CASE FirePlanner
  <2>1. UNCHANGED <<day, slot, running, todo, log>> /\ due' \subseteq due
        /\ (planned' = planned \/ planned' = PlanUs(FALSE))
    BY <1>6 DEF FirePlanner
  <2>2. \A j \in planned' : j.market = "US"
    BY <2>1, PlanSettles DEF Settling
  <2> QED BY <1>2, <2>1, <2>2 DEF Settling
<1>7. CASE Fire
  <2>1. UNCHANGED <<day, slot, planned, todo, log>>
    BY <1>7 DEF Fire
  <2>2. PICK j \in due : /\ due' = due \ {j}
                         /\ running' \subseteq running \cup {[by |-> Cron, job |-> j, fresh |-> TRUE]}
    BY <1>7 DEF Fire
  <2>3. \A r \in running' : r \in running \/ r.job = j
    BY <2>2
  <2>4. \A r \in running' : SettlesLate(r.job)
    BY <2>2, <2>3 DEF Settling
  <2> QED BY <1>2, <2>1, <2>2, <2>4 DEF Settling
<1>8. CASE \E t \in Threads : Begin(t)
  <2>1. PICK t \in Threads : Begin(t)
    BY <1>8
  <2>2. UNCHANGED <<day, slot, due, planned, log>>
    BY <2>1 DEF Begin
  <2>3. PICK job \in todo[t] :
           /\ todo' = [todo EXCEPT ![t] = @ \ {job}]
           /\ running' \subseteq running \cup {[by |-> t, job |-> job, fresh |-> t \in fresh]}
    BY <2>1 DEF Begin
  <2>4. \A r \in running' : r \in running \/ r.job = job
    BY <2>3
  <2>5. \A r \in running' : SettlesLate(r.job)
    BY <2>3, <2>4 DEF Settling
  <2>6. \A u \in Threads : todo'[u] \subseteq todo[u]
    BY <2>3 DEF TypeOK
  <2> QED BY <1>2, <2>2, <2>5, <2>6 DEF Settling
<1>9. CASE \E r \in running : Complete(r)
  <2>1. PICK r \in running : Complete(r)
    BY <1>9
  <2>2. UNCHANGED <<day, slot, due, planned, todo>> /\ running' \subseteq running
    BY <2>1 DEF Complete
  <2>3. \A i \in DOMAIN log' : SettlesLate(log'[i].job)
    <3>1. /\ DOMAIN log' = 1..(Len(log) + 1)
          /\ log'[Len(log) + 1].job = r.job
          /\ \A i \in DOMAIN log : log'[i] = log[i]
          /\ DOMAIN log = 1..Len(log) /\ Len(log) \in Nat
      BY <2>1, Appended
    <3>2. \A i \in DOMAIN log' : i \in DOMAIN log \/ i = Len(log) + 1
      BY <3>1
    <3> QED BY <3>1, <3>2 DEF Settling
  <2> QED BY <1>2, <2>2, <2>3 DEF Settling
<1>10. CASE \E r \in running : Fail(r)
  <2>1. UNCHANGED <<day, slot, due, planned, todo, log>> /\ running' \subseteq running
    BY <1>10 DEF Fail
  <2> QED BY <1>2, <2>1 DEF Settling
<1>11. CASE RunNow
  <2>1. UNCHANGED <<day, slot, due, planned, todo, log>>
    BY <1>11 DEF RunNow
  <2>2. PICK x \in Runs : running' = running \cup {x} /\ x.job.kind = "hand"
    BY <1>11, ByHandRuns
  <2>3. \A r \in running' : SettlesLate(r.job)
    BY <2>2 DEF Settling, SettlesLate
  <2> QED BY <1>2, <2>1, <2>3 DEF Settling
<1>12. CASE UNCHANGED vars
  BY <1>2, <1>12 DEF vars, Settling
<1> QED BY <1>1, <1>3, <1>4, <1>5, <1>6, <1>7, <1>8, <1>9, <1>10, <1>11, <1>12 DEF Next

------------------------------------------------------------------------------
(* The KRX cycle of a day runs once, and whenever the program can run it.  *)

\* The KRX cycle of a plan is of the session that is open, which has none logged.
LEMMA KrxPlan ==
    ASSUME NEW early \in BOOLEAN, NEW j \in Plan(early)
    PROVE  /\ j.kind \in {"cycle", "settle", "stop"}
           /\ IsKrx(j) => /\ j.session = day /\ slot \in 3..4
                          /\ LastOf("KRX", CycleKinds) < day
BY DEF Plan, Job, IsKrx, KrxOpenSession, KrxIntraday, MissedCycle

LEMMA UsPlan ==
    ASSUME NEW early \in BOOLEAN, NEW j \in PlanUs(early)
    PROVE  j.kind \in {"cycle", "settle"} /\ j.market = "US"
BY DEF PlanUs, Job

\* What Start does to the plans.
LEMMA StartPlans ==
    ASSUME TypeOK, Start
    PROVE  /\ starts' = starts + 1 /\ starts' \in Threads
           /\ \E early \in BOOLEAN :
                 /\ due' \subseteq PlanUs(early) /\ planned' \subseteq PlanUs(early)
                 /\ \A t \in Threads : t # starts' => todo'[t] = todo[t]
                 /\ \/ todo'[starts'] = Plan(early) /\ hindered' = hindered
                    \/ todo' = todo /\ hindered' = hindered \cup StartChances
<1>1. starts' = starts + 1 /\ starts' \in Threads
  BY ConstantsAssumption DEF Start, Unprepared, TypeOK, Threads
<1>2. PICK early \in BOOLEAN :
         /\ \/ todo' = [todo EXCEPT ![starts'] = Plan(early)] /\ hindered' = hindered
            \/ todo' = todo /\ hindered' = hindered \cup StartChances
         /\ due' = {j \in PlanUs(early) : j.kind = "cycle" /\ slot = 7}
         /\ planned' = PlanUs(early) \ due'
  BY DEF Start, Unprepared
<1>3. /\ \A t \in Threads : t # starts' => todo'[t] = todo[t]
      /\ \/ todo'[starts'] = Plan(early) /\ hindered' = hindered
         \/ todo' = todo /\ hindered' = hindered \cup StartChances
  BY <1>1, <1>2 DEF TypeOK
<1> QED BY <1>1, <1>2, <1>3

\* What Begin does with the next job of the plan of a thread.
LEMMA BeginJob ==
    ASSUME TypeOK, NEW t \in Threads, Begin(t)
    PROVE  \E job \in todo[t] :
              /\ todo'[t] = todo[t] \ {job}
              /\ \A u \in Threads : u # t => todo'[u] = todo[u]
              /\ \/ job.kind # "stop" /\ hindered' = hindered
                    /\ running' = running \cup {[by |-> t, job |-> job, fresh |-> t \in fresh]}
                 \/ running' = running /\ hindered' = hindered \cup Expected({job})
<1>1. PICK job \in todo[t] :
         /\ todo' = [todo EXCEPT ![t] = @ \ {job}]
         /\ \/ job.kind # "stop" /\ hindered' = hindered
               /\ running' = running \cup {[by |-> t, job |-> job, fresh |-> t \in fresh]}
            \/ running' = running /\ hindered' = hindered \cup Expected({job})
  BY DEF Begin
<1>2. /\ todo'[t] = todo[t] \ {job}
      /\ \A u \in Threads : u # t => todo'[u] = todo[u]
  BY <1>1 DEF TypeOK
<1> QED BY <1>1, <1>2

\* What comes due at a Tick: a KRX cycle, at 08:55.
LEMMA TickDue ==
    ASSUME TypeOK, Settling, Sorted, Tick, NEW j \in due'
    PROVE  /\ j.kind \in {"cycle", "settle", "plan"}
           /\ IsKrx(j) => j.session = day /\ day' = day /\ slot = 1 /\ slot' = 2
<1>1. j \in DueAt(day', slot')
  BY DEF Tick
<1>2. j.kind \in {"cycle", "settle", "plan"}
  BY <1>1 DEF DueAt, Sorted, Job
<1>3. IsKrx(j) => j.session = day' /\ slot' = 2
  BY <1>1 DEF DueAt, Settling, IsKrx, Job
<1> QED BY <1>2, <1>3, TickClock DEF TypeOK, Slots

LEMMA SortedStep == ASSUME TypeOK, Settling, Sorted, [Next]_vars PROVE Sorted'
<1>1. CASE Tick
  <2>1. \A r \in running' : \E q \in running : r.job = q.job
    BY <1>1 DEF Tick, TypeOK, Runs
  <2> QED BY <1>1, <2>1, TickDue DEF Sorted, Tick
<1>2. CASE Start
  <2>1. running' = running
    BY <1>2 DEF Start, Unprepared
  <2>2. \A t \in Threads : \A j \in todo'[t] : j.kind \in {"cycle", "settle", "stop"}
    BY <1>2, StartPlans, KrxPlan DEF Sorted
  <2>3. \A j \in planned' \cup due' : j.kind \in {"cycle", "settle"}
    BY <1>2, StartPlans, UsPlan
  <2> QED BY <2>1, <2>2, <2>3 DEF Sorted
<1>3. CASE ToggleOff
  BY <1>3 DEF ToggleOff, Sorted
<1>4. CASE Exit
  <2>1. \A t \in Threads : todo'[t] = {}
    BY <1>4 DEF Exit
  <2> QED BY <1>4, <2>1 DEF Exit, Sorted
<1>5. CASE Sleep
  BY <1>5 DEF Sleep, Sorted
<1>6. CASE Wake
  BY <1>6 DEF Wake, Sorted
<1>7. CASE FirePlanner
  BY <1>7, UsPlan DEF FirePlanner, Sorted
<1>8. CASE Fire
  <2>1. PICK j \in due : /\ j.kind # "plan" /\ due' \subseteq due
                         /\ running' \subseteq running \cup {[by |-> Cron, job |-> j, fresh |-> TRUE]}
    BY <1>8 DEF Fire
  <2>2. \A r \in running' : r \in running \/ r.job = j
    BY <2>1
  <2>3. \A r \in running' : r.job.kind \in {"cycle", "settle", "hand"}
    BY <2>1, <2>2 DEF Sorted
  <2>4. UNCHANGED <<planned, todo>>
    BY <1>8 DEF Fire
  <2> QED BY <2>1, <2>3, <2>4 DEF Sorted
<1>9. CASE \E t \in Threads : Begin(t)
  <2>1. PICK t \in Threads : Begin(t)
    BY <1>9
  <2>2. PICK job \in todo[t] :
              /\ todo'[t] = todo[t] \ {job}
              /\ \A u \in Threads : u # t => todo'[u] = todo[u]
              /\ \/ job.kind # "stop" /\ hindered' = hindered
                    /\ running' = running \cup {[by |-> t, job |-> job, fresh |-> t \in fresh]}
                 \/ running' = running /\ hindered' = hindered \cup Expected({job})
    BY <2>1, BeginJob
  <2>3. \A r \in running' : r \in running \/ (r.job = job /\ job.kind # "stop")
    BY <2>2
  <2>4. \A r \in running' : r.job.kind \in {"cycle", "settle", "hand"}
    BY <2>2, <2>3 DEF Sorted
  <2>5. \A u \in Threads : todo'[u] \subseteq todo[u]
    BY <2>2
  <2>6. UNCHANGED <<planned, due>>
    BY <2>1 DEF Begin
  <2> QED BY <2>4, <2>5, <2>6 DEF Sorted
<1>10. CASE \E r \in running : Complete(r) \/ Fail(r)
  <2>1. UNCHANGED <<due, planned, todo>> /\ running' \subseteq running
    BY <1>10 DEF Complete, Fail
  <2> QED BY <2>1 DEF Sorted
<1>11. CASE RunNow
  BY <1>11, ByHandRuns DEF RunNow, Sorted
<1>12. CASE UNCHANGED vars
  BY <1>12 DEF vars, Sorted
<1> QED BY <1>1, <1>2, <1>3, <1>4, <1>5, <1>6, <1>7, <1>8, <1>9, <1>10, <1>11, <1>12 DEF Next

LEMMA TimingStep ==
    ASSUME TypeOK, Settling, Sorted, Timing, [Next]_vars
    PROVE  Timing'
<1>1. CASE Tick
  <2>1. /\ power' = power /\ starts' = starts /\ todo' = todo /\ fresh' = {}
        /\ \A t \in Threads : todo[t] # {} => t \in fresh
        /\ \A r \in running : r.fresh
        /\ power = "off" => due' = {}
    BY <1>1 DEF Tick
  <2>2. \A j \in due' : IsKrx(j) => j.session = day' /\ slot' = 2
    BY <1>1, TickDue
  <2>3. ASSUME NEW t \in Threads PROVE PlanTimed(t)'
    BY <1>1, <2>1, TickClock DEF Timing, PlanTimed, TypeOK, Slots
  <2>4. ASSUME NEW r \in running' PROVE RunTimed(r)'
    <3>1. PICK q \in running : r = [q EXCEPT !.fresh = FALSE]
      BY <1>1, <2>4 DEF Tick
    <3>2. r.job = q.job /\ r.fresh = FALSE
      BY <3>1 DEF TypeOK, Runs
    <3>3. IsKrx(q.job) => q.job.session = day /\ slot \in 2..4
      BY <2>1 DEF Timing, RunTimed
    <3> QED BY <1>1, <3>2, <3>3, TickClock DEF RunTimed, TypeOK, Slots
  <2> QED BY <2>1, <2>2, <2>3, <2>4 DEF Timing
<1>2. CASE Start
  <2>1. /\ UNCHANGED <<day, slot, running>> /\ power' = "on"
        /\ starts' = starts + 1 /\ starts' \in Threads /\ fresh' = fresh \cup {starts'}
    BY <1>2, StartPlans DEF Start, Unprepared
  <2>2. PICK early \in BOOLEAN :
           /\ due' \subseteq PlanUs(early)
           /\ \A t \in Threads : t # starts' => todo'[t] = todo[t]
           /\ todo'[starts'] = Plan(early) \/ todo' = todo
    BY <1>2, StartPlans
  <2>3. \A j \in due' : ~ IsKrx(j)
    BY <2>2, UsPlan DEF IsKrx
  <2>4. todo[starts'] = {} /\ \A t \in Threads : t > starts' => todo[t] = {}
    BY <2>1 DEF Timing, TypeOK, Threads
  <2>5. ASSUME NEW t \in Threads PROVE PlanTimed(t)' /\ (t > starts' => todo'[t] = {})
    <3>1. CASE t = starts'
      <4>1. todo'[t] = {} \/ todo'[t] = Plan(early)
        BY <2>2, <2>4, <3>1
      <4>2. \A j \in todo'[t] : IsKrx(j) => j.session = day /\ slot \in 3..4
        BY <4>1, KrxPlan
      <4>3. t \in fresh'
        BY <2>1, <3>1
      <4>4. PlanTimed(t)'
        BY <2>1, <4>2, <4>3 DEF PlanTimed
      <4>5. ~ (t > starts')
        BY <3>1 DEF Threads
      <4> QED BY <4>4, <4>5
    <3>2. CASE t # starts'
      <4>1. todo'[t] = todo[t] /\ (t \in fresh' <=> t \in fresh)
        BY <2>1, <2>2, <3>2
      <4> QED BY <2>1, <2>4, <4>1 DEF Timing, PlanTimed
    <3> QED BY <3>1, <3>2
  <2>6. \A r \in running' : RunTimed(r)'
    BY <2>1 DEF Timing, RunTimed
  <2> QED BY <2>1, <2>3, <2>5, <2>6 DEF Timing
<1>3. CASE ToggleOff \/ Sleep \/ Wake \/ FirePlanner
  <2>1. /\ UNCHANGED <<day, slot, fresh, running, todo, starts>> /\ due' \subseteq due
        /\ power' = "off" => due' = {}
    BY <1>3 DEF ToggleOff, Sleep, Wake, FirePlanner
  <2> QED BY <2>1 DEF Timing, PlanTimed, RunTimed
<1>4. CASE Exit
  <2>1. due' = {} /\ running' = {} /\ \A t \in Threads : todo'[t] = {}
    BY <1>4 DEF Exit
  <2> QED BY <2>1 DEF Timing, PlanTimed
<1>5. CASE Fire
  <2>1. UNCHANGED <<day, slot, power, fresh, todo, starts>> /\ power = "on"
    BY <1>5 DEF Fire
  <2>2. PICK j \in due : /\ due' \subseteq due
                         /\ running' \subseteq running \cup {[by |-> Cron, job |-> j, fresh |-> TRUE]}
    BY <1>5 DEF Fire
  <2>3. ASSUME NEW r \in running' PROVE RunTimed(r)'
    <3>1. CASE r \in running
      BY <2>1, <3>1 DEF Timing, RunTimed
    <3>2. CASE r = [by |-> Cron, job |-> j, fresh |-> TRUE]
      BY <2>1, <3>2 DEF Timing, RunTimed
    <3> QED BY <2>2, <3>1, <3>2
  <2> QED BY <2>1, <2>2, <2>3 DEF Timing, PlanTimed
<1>6. CASE \E t \in Threads : Begin(t)
  <2>1. PICK t \in Threads : Begin(t)
    BY <1>6
  <2>2. UNCHANGED <<day, slot, power, due, fresh, starts>>
    BY <2>1 DEF Begin
  <2>3. PICK job \in todo[t] :
              /\ todo'[t] = todo[t] \ {job}
              /\ \A u \in Threads : u # t => todo'[u] = todo[u]
              /\ \/ job.kind # "stop" /\ hindered' = hindered
                    /\ running' = running \cup {[by |-> t, job |-> job, fresh |-> t \in fresh]}
                 \/ running' = running /\ hindered' = hindered \cup Expected({job})
    BY <2>1, BeginJob
  <2>4. \A u \in Threads : todo'[u] \subseteq todo[u]
    BY <2>3
  <2>5. \A u \in Threads : PlanTimed(u)' /\ (u > starts' => todo'[u] = {})
    BY <2>2, <2>4 DEF Timing, PlanTimed
  <2>6. ASSUME NEW r \in running' PROVE RunTimed(r)'
    <3>1. CASE r \in running
      BY <2>2, <3>1 DEF Timing, RunTimed
    <3>2. CASE r = [by |-> t, job |-> job, fresh |-> t \in fresh]
      <4>1. r.job = job /\ r.fresh = (t \in fresh)
        BY <3>2
      <4>2. PlanTimed(t) /\ job \in todo[t]
        BY DEF Timing
      <4>3. CASE t \in fresh
        BY <2>2, <4>1, <4>2, <4>3 DEF PlanTimed, RunTimed
      <4>4. CASE t \notin fresh
        <5>1. IsKrx(job) => job.session = day /\ slot \in 4..5
          BY <4>2, <4>4 DEF PlanTimed
        <5>2. ~ r.fresh
          BY <4>1, <4>4, Zenon
        <5> QED BY <2>2, <4>1, <5>1, <5>2 DEF RunTimed
      <4> QED BY <4>3, <4>4
    <3> QED BY <2>3, <3>1, <3>2
  <2> QED BY <2>2, <2>5, <2>6 DEF Timing
<1>7. CASE \E r \in running : Complete(r) \/ Fail(r)
  <2>1. UNCHANGED <<day, slot, power, due, fresh, todo, starts>> /\ running' \subseteq running
    BY <1>7 DEF Complete, Fail
  <2> QED BY <2>1 DEF Timing, PlanTimed, RunTimed
<1>8. CASE RunNow
  <2>1. UNCHANGED <<day, slot, power, due, fresh, todo, starts>>
    BY <1>8 DEF RunNow
  <2>2. \A r \in running' : r \in running \/ ~ IsKrx(r.job)
    BY <1>8, ByHandRuns DEF IsKrx
  <2>3. \A r \in running' : RunTimed(r)'
    BY <2>1, <2>2 DEF Timing, RunTimed
  <2> QED BY <2>1, <2>3 DEF Timing, PlanTimed
<1>9. CASE UNCHANGED vars
  BY <1>9 DEF vars, Timing, PlanTimed, RunTimed
<1> QED BY <1>1, <1>2, <1>3, <1>4, <1>5, <1>6, <1>7, <1>8, <1>9 DEF Next

LEMMA OrderedStep ==
    ASSUME TypeOK, Sorted, Timing, Ordered, [Next]_vars
    PROVE  Ordered'
<1>0. DOMAIN log = 1..Len(log) /\ Len(log) \in Nat /\ \A i \in DOMAIN log : log[i] \in Entries
  BY LogDomain
<1>1. CASE Tick
  <2>1. log' = log
    BY <1>1 DEF Tick
  <2>2. ASSUME NEW i \in DOMAIN log PROVE Dated(log[i])'
    <3>1. PICK e \in Entries : e = log[i] /\ Dated(e)
      BY <1>0 DEF Ordered
    <3>2. e.day \in Int /\ e.job.session \in Int /\ day \in Int /\ slot \in Int
      BY <3>1 DEF Entries, Jobs, Days, Slots, TypeOK
    <3>3. Dated(e)'
      BY <1>1, <3>1, <3>2, TickClock DEF Dated
    <3> QED BY <2>1, <3>1, <3>3
  <2>3. Cycles' = Cycles
    BY <2>1 DEF Cycles
  <2> QED BY <2>1, <2>2, <2>3 DEF Ordered
<1>2. CASE \E r \in running : Complete(r)
  <2>1. PICK r \in running : Complete(r)
    BY <1>2
  <2>2. PICK n \in Nat : n = Len(log) + 1
    BY <1>0
  <2>3. /\ DOMAIN log' = 1..n /\ \A i \in DOMAIN log : log'[i] = log[i]
        /\ log'[n].job = r.job /\ log'[n].day = day /\ log'[n].kind = EntryKind(r)
    BY <2>1, <2>2, Appended
  <2>4. /\ \A i \in DOMAIN log : i \in Nat /\ i < n /\ i \in DOMAIN log'
        /\ \A i \in DOMAIN log' : i \in DOMAIN log \/ i = n
        /\ n \in DOMAIN log'
    BY <1>0, <2>2, <2>3
  <2>5. UNCHANGED <<day, slot>> /\ day \in Int
    BY <2>1 DEF Complete, TypeOK, Days
  <2>6. \A i \in DOMAIN log : Dated(log[i]) /\ log[i].day <= day
    BY DEF Ordered, Dated
  <2>7. Dated(log[n])'
    <3>1. IsKrx(r.job) => day = r.job.session /\ slot >= 2
      BY DEF Timing, RunTimed
    <3>2. EntryKind(r) \in CycleKinds <=> r.job.kind \in {"cycle", "hand"}
      BY DEF EntryKind, CycleKinds, Sorted
    <3> QED BY <2>3, <2>5, <3>1, <3>2 DEF Dated
  <2>8. \A i \in DOMAIN log' : Dated(log[i])'
    BY <2>3, <2>4, <2>5, <2>6, <2>7 DEF Dated
  <2>9. ASSUME NEW i \in DOMAIN log', NEW k \in DOMAIN log', i <= k
        PROVE  log'[i].day <= log'[k].day
    <3>1. CASE k = n
      BY <2>3, <2>4, <2>5, <2>6, <3>1
    <3>2. CASE k \in DOMAIN log
      <4>1. i \in DOMAIN log
        BY <1>0, <2>3, <2>4, <2>9, <3>2
      <4> QED BY <2>3, <2>4, <2>9, <3>2, <4>1 DEF Ordered
    <3> QED BY <2>3, <2>4, <3>1, <3>2
  <2>10. Cycles' # {} => \E i \in Cycles' : \A k \in Cycles' : k <= i
    <3>1. Cycles \subseteq Cycles' /\ Cycles' \subseteq Cycles \cup {n}
      BY <2>3, <2>4 DEF Cycles
    <3>2. \A k \in Cycles : k < n
      BY <2>3, <2>4 DEF Cycles
    <3>3. CASE n \in Cycles'
      BY <2>3, <2>4, <3>1, <3>2, <3>3
    <3>4. CASE n \notin Cycles'
      BY <3>1, <3>4 DEF Ordered
    <3> QED BY <3>3, <3>4
  <2> QED BY <2>8, <2>9, <2>10 DEF Ordered
<1>3. ASSUME UNCHANGED <<day, slot, log>> PROVE Ordered'
  BY <1>3 DEF Ordered, Dated, Cycles
<1>4. CASE Start \/ ToggleOff \/ Exit \/ Sleep \/ Wake \/ FirePlanner \/ Fire \/ RunNow
  BY <1>3, <1>4 DEF Start, Unprepared, ToggleOff, Exit, Sleep, Wake, FirePlanner, Fire, RunNow
<1>5. CASE \E t \in Threads : Begin(t)
  BY <1>3, <1>5 DEF Begin
<1>6. CASE \E r \in running : Fail(r)
  BY <1>3, <1>6 DEF Fail
<1>7. CASE UNCHANGED vars
  BY <1>3, <1>7 DEF vars
<1> QED BY <1>1, <1>2, <1>4, <1>5, <1>6, <1>7 DEF Next

\* What the comparison of catchup.py with the last cycle decides: whether one of today
\* is logged.
LEMMA LastDecides ==
    ASSUME TypeOK, Ordered
    PROVE  LastOf("KRX", CycleKinds) < day <=> \A i \in Cycles : log[i].day # day
<1>1. \A i \in Cycles : i \in DOMAIN log /\ log[i].day \in Int /\ log[i].day <= day
  BY LogDomain DEF Ordered, Dated, Cycles, Entries, Days
<1>2. day \in Int /\ day >= 0
  BY DEF TypeOK, Days
<1>3. CASE Cycles = {}
  BY <1>2, <1>3 DEF LastOf, Cycles
<1>4. CASE Cycles # {}
  <2>1. PICK i \in Cycles : \A k \in Cycles : k <= i
    BY <1>4 DEF Ordered
  <2>2. Cycles \subseteq Int
    BY <1>1, LogDomain
  <2>3. Max(Cycles) \in Cycles /\ \A k \in Cycles : Max(Cycles) >= k
    BY <2>1, <2>2 DEF Max
  <2>4. LastOf("KRX", CycleKinds) = log[Max(Cycles)].day
    BY <1>4 DEF LastOf, Cycles
  <2>5. \A k \in Cycles : log[k].day <= log[Max(Cycles)].day
    BY <1>1, <2>2, <2>3 DEF Ordered
  <2> HIDE DEF Cycles
  <2> QED BY <1>1, <1>2, <2>3, <2>4, <2>5
<1> QED BY <1>3, <1>4

LEMMA KrxLogged ==
    ASSUME TypeOK, Ordered, NEW c \in Jobs, IsKrx(c)
    PROVE  /\ c \in Logged => /\ c.session < day \/ (c.session = day /\ slot >= 2)
                              /\ \E i \in Cycles : log[i].job = c /\ log[i].day = c.session
           /\ (\E i \in Cycles : log[i].day = c.session) => c \in Logged \/ ByHand(c.session)
<1>1. \A i \in DOMAIN log : log[i].job \in Jobs /\ Dated(log[i])
  BY LogDomain DEF Ordered, Entries
<1>2. ASSUME c \in Logged
      PROVE  /\ c.session < day \/ (c.session = day /\ slot >= 2)
             /\ \E i \in Cycles : log[i].job = c /\ log[i].day = c.session
  <2>1. PICK i \in DOMAIN log : log[i].job = c
    BY <1>2 DEF Logged
  <2>2. log[i].day = c.session /\ log[i].day <= day /\ (log[i].day < day \/ slot >= 2)
    BY <1>1, <2>1 DEF Dated
  <2>3. i \in Cycles
    BY <1>1, <2>1 DEF Dated, Cycles, IsKrx
  <2> QED BY <2>1, <2>2, <2>3 DEF TypeOK, Days, Jobs
<1>3. ASSUME NEW i \in Cycles, log[i].day = c.session PROVE c \in Logged \/ ByHand(c.session)
  <2>1. i \in DOMAIN log /\ (IsKrx(log[i].job) \/ log[i].job.kind = "hand")
    BY <1>1 DEF Cycles, Dated, IsKrx
  <2>2. CASE IsKrx(log[i].job)
    <3>1. log[i].job \in Jobs /\ log[i].job.session = c.session
      BY <1>1, <1>3, <2>1, <2>2 DEF Dated
    <3>2. log[i].job = c
      BY <2>2, <3>1 DEF Jobs, IsKrx
    <3> QED BY <2>1, <3>2 DEF Logged
  <2> QED BY <1>3, <2>1, <2>2 DEF ByHand
<1> QED BY <1>2, <1>3

LEMMA OnceStep ==
    ASSUME TypeOK, Settling, Sorted, Timing, Ordered, Once, [Next]_vars
    PROVE  Once'
<1> SUFFICES ASSUME NEW c \in Jobs, IsKrx(c), c \notin renewed'
             PROVE  Single(c)'
  BY DEF Once
<1>1. CASE Start
  <2>1. /\ UNCHANGED <<day, slot, running, log>> /\ starts' \in Threads
        /\ c \notin Underway
    BY <1>1, StartPlans DEF Start, Unprepared, CyclesOf, IsKrx
  <2>2. PICK early \in BOOLEAN :
           /\ due' \subseteq PlanUs(early)
           /\ \A t \in Threads : t # starts' => todo'[t] = todo[t]
           /\ todo'[starts'] = Plan(early) \/ todo' = todo
    BY <1>1, StartPlans
  <2>3. c \notin due' /\ \A r \in running' : r.job # c
    BY <2>1, <2>2, UsPlan DEF IsKrx, Underway
  <2>4. \A t \in Threads : c \notin todo[t]
    BY <2>1 DEF Underway, Planned
  <2>5. \A t \in Threads : c \in todo'[t] => t = starts' /\ c \in Plan(early)
    BY <2>1, <2>2, <2>4
  <2>6. \A t \in Threads : c \in todo'[t] => c \notin Logged
    <3>1. SUFFICES ASSUME c \in Plan(early), c \in Logged PROVE FALSE
      BY <2>5
    <3>2. c.session = day /\ LastOf("KRX", CycleKinds) < day
      BY <3>1, KrxPlan
    <3> QED BY <3>1, <3>2, KrxLogged, LastDecides
  <2>7. Logged' = Logged
    BY <2>1 DEF Logged
  <2>8. Single(c)
    <3>1. c \notin renewed
      BY <1>1 DEF Start, Unprepared
    <3> QED BY <3>1 DEF Once
  <2> QED BY <2>1, <2>3, <2>5, <2>6, <2>7, <2>8 DEF Single, Planned
<1> SUFFICES ASSUME ~ Start PROVE Single(c)'
  BY <1>1
<1>2. Single(c)
  <2>1. renewed' = renewed
    BY DEF Next, Tick, ToggleOff, Exit, Sleep, Wake, FirePlanner, Fire, RunNow, Begin, Complete, Fail,
           vars
  <2> QED BY <2>1 DEF Once
<1>3. CASE Tick
  <2>1. UNCHANGED <<todo, log>> /\ running' = {[r EXCEPT !.fresh = FALSE] : r \in running}
        /\ \A r \in running : r.fresh
    BY <1>3 DEF Tick
  <2>2. Planned' = Planned /\ Logged' = Logged
    BY <2>1 DEF Planned, Logged
  <2>3. ASSUME c \in due'
        PROVE  c \notin Planned /\ c \notin Logged /\ \A r \in running : r.job # c
    <3>1. c.session = day /\ slot = 1
      BY <1>3, <2>3, TickDue
    <3>2. \A t \in Threads : c \notin todo[t]
      BY <3>1 DEF Timing, PlanTimed
    <3>3. \A r \in running : r.job # c
      BY <3>1 DEF Timing, RunTimed
    <3>4. c \notin Logged
      BY <3>1, KrxLogged DEF TypeOK, Days
    <3> QED BY <3>2, <3>3, <3>4 DEF Planned
  <2>4. \A q \in running' : \E r \in running : q.job = r.job /\ q = [r EXCEPT !.fresh = FALSE]
    BY <2>1 DEF TypeOK, Runs
  <2>5. \A q, r \in running' : q.job = c /\ r.job = c => q = r
    <3> SUFFICES ASSUME NEW q \in running', NEW r \in running', q.job = c, r.job = c
                 PROVE  q = r
      OBVIOUS
    <3>1. PICK a \in running : a.job = c /\ q = [a EXCEPT !.fresh = FALSE]
      BY <2>4
    <3>2. PICK b \in running : b.job = c /\ r = [b EXCEPT !.fresh = FALSE]
      BY <2>4
    <3>3. a = b
      BY <1>2, <3>1, <3>2 DEF Single
    <3> QED BY <3>1, <3>2, <3>3
  <2>6. c \in due' => \A r \in running' : r.job # c
    BY <2>3, <2>4
  <2>7. \A r \in running' : r.job = c => c \notin Planned /\ c \notin Logged
    BY <1>2, <2>4 DEF Single
  <2> QED BY <1>2, <2>1, <2>2, <2>3, <2>5, <2>6, <2>7 DEF Single
<1>4. CASE ToggleOff \/ Sleep \/ Wake \/ FirePlanner
  <2>1. UNCHANGED <<running, todo, log>> /\ due' \subseteq due
    BY <1>4 DEF ToggleOff, Sleep, Wake, FirePlanner
  <2>2. Planned' = Planned /\ Logged' = Logged
    BY <2>1 DEF Planned, Logged
  <2> QED BY <1>2, <2>1, <2>2 DEF Single
<1>5. CASE Exit
  <2>1. log' = log /\ due' = {} /\ running' = {} /\ \A t \in Threads : todo'[t] = {}
    BY <1>5 DEF Exit
  <2>2. Planned' = {}
    BY <2>1 DEF Planned
  <2> QED BY <1>2, <2>1, <2>2 DEF Single
<1>6. CASE Fire
  <2>1. UNCHANGED <<todo, log>>
    BY <1>6 DEF Fire
  <2>2. Planned' = Planned /\ Logged' = Logged
    BY <2>1 DEF Planned, Logged
  <2>3. PICK j \in due : /\ due' = due \ {j}
                         /\ running' \subseteq running \cup {[by |-> Cron, job |-> j, fresh |-> TRUE]}
    BY <1>6 DEF Fire
  <2>4. \A r \in running' : r \in running \/ (r.job = j /\ r = [by |-> Cron, job |-> j, fresh |-> TRUE])
    BY <2>3
  <2>5. CASE c = j
    BY <1>2, <2>1, <2>2, <2>3, <2>4, <2>5 DEF Single
  <2>6. CASE c # j
    BY <1>2, <2>1, <2>2, <2>3, <2>4, <2>6 DEF Single
  <2> QED BY <2>5, <2>6
<1>7. CASE \E t \in Threads : Begin(t)
  <2>1. PICK t \in Threads : Begin(t)
    BY <1>7
  <2>2. PICK job \in todo[t] :
              /\ todo'[t] = todo[t] \ {job}
              /\ \A u \in Threads : u # t => todo'[u] = todo[u]
              /\ \/ job.kind # "stop" /\ hindered' = hindered
                    /\ running' = running \cup {[by |-> t, job |-> job, fresh |-> t \in fresh]}
                 \/ running' = running /\ hindered' = hindered \cup Expected({job})
    BY <2>1, BeginJob
  <2>3. UNCHANGED <<due, log>>
    BY <2>1 DEF Begin
  <2>4. Logged' = Logged
    BY <2>3 DEF Logged
  <2>5. PICK x : /\ x.job = job
                 /\ \A r \in running' : r \in running \/ r = x
    <3> DEFINE y == [by |-> t, job |-> job, fresh |-> t \in fresh]
    <3>1. y.job = job /\ \A r \in running' : r \in running \/ r = y
      BY <2>2
    <3> HIDE DEF y
    <3> QED BY <3>1
  <2>6. \A u \in Threads : todo'[u] \subseteq todo[u]
    BY <2>2
  <2>7. CASE c = job
    <3>1. c \in Planned /\ \A u \in Threads : c \in todo[u] => u = t
      BY <1>2, <2>2, <2>7 DEF Single, Planned
    <3>2. \A u \in Threads : c \notin todo'[u]
      BY <2>2, <2>6, <2>7, <3>1
    <3>3. c \notin Logged /\ c \notin due /\ \A r \in running : r.job # c
      BY <1>2, <3>1 DEF Single
    <3>4. c \notin Planned'
      BY <3>2 DEF Planned
    <3>5. \A q, r \in running' : q.job = c /\ r.job = c => q = r
      BY <2>5, <3>3
    <3> QED BY <1>2, <2>3, <2>4, <3>2, <3>3, <3>4, <3>5 DEF Single
  <2>8. CASE c # job
    <3>1. c \in Planned' => c \in Planned
      BY <2>6 DEF Planned
    <3>2. \A r \in running' : r.job = c => r \in running
      BY <2>5, <2>8
    <3> QED BY <1>2, <2>3, <2>4, <2>6, <3>1, <3>2 DEF Single
  <2> QED BY <2>7, <2>8
<1>8. CASE \E r \in running : Complete(r)
  <2>1. PICK r \in running : Complete(r)
    BY <1>8
  <2>2. UNCHANGED <<due, todo>> /\ running' = running \ {r}
    BY <2>1 DEF Complete
  <2>3. PICK n \in Nat : n = Len(log) + 1
    BY LogDomain
  <2>4. /\ \A i \in DOMAIN log' : (i \in DOMAIN log /\ log'[i] = log[i]) \/ i = n
        /\ log'[n].job = r.job
    <3>1. /\ DOMAIN log' = 1..n /\ DOMAIN log = 1..Len(log) /\ Len(log) \in Nat
          /\ log'[n].job = r.job
          /\ \A i \in DOMAIN log : log'[i] = log[i]
      BY <2>1, <2>3, Appended
    <3>2. \A i \in DOMAIN log' : i \in DOMAIN log \/ i = n
      BY <2>3, <3>1
    <3> QED BY <3>1, <3>2
  <2>5. Planned' = Planned
    BY <2>2 DEF Planned
  <2>6. c \in Logged' => c \in Logged \/ c = r.job
    BY <2>4 DEF Logged
  <2>7. CASE c = r.job
    <3>1. c \notin due /\ c \notin Planned /\ c \notin Logged
      BY <1>2, <2>7 DEF Single
    <3>2. \A q \in running' : q.job # c
      BY <1>2, <2>2, <2>7 DEF Single
    <3>3. \A i \in DOMAIN log' : log'[i].job = c => i = n
      BY <2>4, <3>1 DEF Logged
    <3>4. \A t, u \in Threads : c \in todo'[t] /\ c \in todo'[u] => t = u
      BY <1>2, <2>2 DEF Single
    <3>5. c \notin due' /\ c \notin Planned'
      BY <2>2, <2>5, <3>1
    <3> QED BY <3>2, <3>3, <3>4, <3>5 DEF Single
  <2>8. CASE c # r.job
    BY <1>2, <2>2, <2>4, <2>5, <2>6, <2>8 DEF Single
  <2> QED BY <2>7, <2>8
<1>9. CASE \E r \in running : Fail(r)
  <2>1. UNCHANGED <<due, todo, log>> /\ running' \subseteq running
    BY <1>9 DEF Fail
  <2>2. Planned' = Planned /\ Logged' = Logged
    BY <2>1 DEF Planned, Logged
  <2> QED BY <1>2, <2>1, <2>2 DEF Single
<1>10. CASE RunNow
  <2>1. UNCHANGED <<due, todo, log>>
    BY <1>10 DEF RunNow
  <2>2. Planned' = Planned /\ Logged' = Logged
    BY <2>1 DEF Planned, Logged
  <2>3. running \subseteq running' /\ \A r \in running' : r.job = c => r \in running
    BY <1>10, ByHandRuns DEF IsKrx
  <2> QED BY <1>2, <2>1, <2>2, <2>3 DEF Single
<1>11. CASE UNCHANGED vars
  BY <1>2, <1>11 DEF vars, Single, Planned, Logged
<1> QED BY <1>3, <1>4, <1>5, <1>6, <1>7, <1>8, <1>9, <1>10, <1>11 DEF Next

\* A cycle among what is expected is of a KRX session whose time has come.
LEMMA ExpectedTime ==
    ASSUME TypeOK, NEW c, c.kind = "cycle"
    PROVE  /\ c \in StartChances => /\ IsKrx(c) /\ c.session \in KrxDays
                                    /\ c.session = day /\ slot \in 3..4
                                    /\ c = Job("KRX", "cycle", day)
           /\ \A jobs : c \in Expected(jobs) =>
                 c \in jobs /\ IsKrx(c) /\ c.session \in KrxDays
BY DEF StartChances, Expected, KrxOpenSession, KrxIntraday, Job, IsKrx

LEMMA ChancesStep ==
    ASSUME TypeOK, Settling, Sorted, Timing, Chances, [Next]_vars
    PROVE  Chances'
<1>1. CASE Tick
  <2>1. /\ power' = power
        /\ chance' = IF power = "on" THEN chance \cup Expected(due') ELSE chance
    BY <1>1 DEF Tick
  <2>2. \A c \in due' : IsKrx(c) => c.session = day /\ day' = day /\ slot = 1 /\ slot' = 2
    BY <1>1, TickDue
  <2>3. ASSUME NEW c \in chance, c.kind = "cycle"
        PROVE  /\ IsKrx(c) /\ c.session \in KrxDays /\ c \notin due'
               /\ c.session < day' \/ (c.session = day' /\ slot' >= 2)
    <3>1. /\ IsKrx(c) /\ c.session \in KrxDays
          /\ c.session < day \/ (c.session = day /\ slot >= 2)
      BY <2>3 DEF Chances
    <3>2. c.session \in Int /\ day \in Int /\ slot \in Int
      BY DEF TypeOK, Jobs, Days, Slots
    <3> QED BY <1>1, <2>2, <3>1, <3>2, TickClock
  <2>4. ASSUME NEW c \in Expected(due'), c.kind = "cycle"
        PROVE  IsKrx(c) /\ c.session \in KrxDays /\ c.session = day' /\ slot' >= 2
    BY <2>2, <2>4, ExpectedTime
  <2> QED BY <2>1, <2>3, <2>4 DEF Chances
<1>2. CASE Start
  <2>1. UNCHANGED <<day, slot>> /\ power' = "on" /\ chance' = chance \cup StartChances
    BY <1>2 DEF Start, Unprepared
  <2>2. \A c \in StartChances : c.kind = "cycle" =>
           IsKrx(c) /\ c.session \in KrxDays /\ c.session = day /\ slot >= 2
    BY ExpectedTime
  <2> QED BY <2>1, <2>2 DEF Chances
<1>3. CASE Sleep
  <2>1. UNCHANGED <<day, slot, chance>> /\ due' = {}
    BY <1>3 DEF Sleep, Underway
  <2> QED BY <2>1 DEF Chances
<1>4. CASE Wake
  <2>1. /\ UNCHANGED <<day, slot>> /\ power' = "on" /\ due' \subseteq due
        /\ chance' = chance \cup Expected(due')
    BY <1>4 DEF Wake
  <2>2. \A c \in Expected(due') : c.kind = "cycle" =>
           IsKrx(c) /\ c.session \in KrxDays /\ c.session = day /\ slot = 2
    BY <2>1, ExpectedTime DEF Timing
  <2> QED BY <2>1, <2>2 DEF Chances
<1>5. ASSUME UNCHANGED <<day, slot, chance>>, power' # "asleep" \/ (power' = power /\ due' = due)
      PROVE  Chances'
  BY <1>5 DEF Chances
<1>6. CASE ToggleOff \/ Exit \/ FirePlanner \/ Fire \/ RunNow
  BY <1>5, <1>6 DEF ToggleOff, Exit, FirePlanner, Fire, RunNow
<1>7. CASE \E t \in Threads : Begin(t)
  BY <1>5, <1>7 DEF Begin
<1>8. CASE \E r \in running : Complete(r) \/ Fail(r)
  BY <1>5, <1>8 DEF Complete, Fail
<1>9. CASE UNCHANGED vars
  BY <1>5, <1>9 DEF vars
<1> QED BY <1>1, <1>2, <1>3, <1>4, <1>6, <1>7, <1>8, <1>9 DEF Next

LEMMA FoundSame ==
    \A c : Found(c) <=> c \in Logged \cup Underway \cup hindered \/ ByHand(c.session)
BY DEF Found, Logged, Underway, Planned, ByHand

LEMMA DoneStep ==
    ASSUME TypeOK, Settling, Sorted, Timing, Ordered, Chances, Done, [Next]_vars
    PROVE  Done'
<1>0. \A c \in chance : c.kind = "cycle" => \A X : c \in X => c \in Expected(X)
  BY DEF Chances, IsKrx, Expected
<1>1. CASE Tick
  <2>1. /\ UNCHANGED <<todo, log, hindered>>
        /\ running' = {[r EXCEPT !.fresh = FALSE] : r \in running}
        /\ power = "on" => due = {}
        /\ chance' = IF power = "on" THEN chance \cup Expected(due') ELSE chance
    BY <1>1 DEF Tick
  <2>2. \A r \in running : \E q \in running' : q.job = r.job
    <3>1. ASSUME NEW r \in running PROVE \E q \in running' : q.job = r.job
      <4>1. [r EXCEPT !.fresh = FALSE] \in running'
        BY <2>1
      <4>2. [r EXCEPT !.fresh = FALSE].job = r.job
        BY DEF TypeOK, Runs
      <4> QED BY <4>1, <4>2
    <3> QED BY <3>1
  <2>3. ASSUME NEW c \in chance, c.kind = "cycle" PROVE Found(c)'
    <3>1. c \notin due
      BY <2>1, <2>3 DEF TypeOK, Timing, Chances
    <3>2. Found(c)
      BY <2>3 DEF Done
    <3>3. CASE \E r \in running : r.job = c
      <4>1. \E q \in running' : q.job = c
        BY <2>2, <3>3
      <4> QED BY <4>1 DEF Found
    <3>4. CASE ~ \E r \in running : r.job = c
      BY <2>1, <3>1, <3>2, <3>4 DEF Found
    <3> QED BY <3>3, <3>4
  <2>4. \A c \in Expected(due') : c \in due'
    BY DEF Expected
  <2> QED BY <2>1, <2>3, <2>4 DEF Done, Found
<1>2. CASE Start
  <2>1. /\ UNCHANGED <<day, slot, running, log>> /\ starts' \in Threads /\ starts' = starts + 1
        /\ chance' = chance \cup StartChances /\ power = "off"
    BY <1>2, StartPlans DEF Start, Unprepared
  <2>2. PICK early \in BOOLEAN :
           /\ \A t \in Threads : t # starts' => todo'[t] = todo[t]
           /\ \/ todo'[starts'] = Plan(early) /\ hindered' = hindered
              \/ todo' = todo /\ hindered' = hindered \cup StartChances
    BY <1>2, StartPlans
  <2>3. due = {} /\ todo[starts'] = {}
    BY <2>1 DEF Timing, TypeOK, Threads
  <2>4. ASSUME NEW c \in chance, c.kind = "cycle" PROVE Found(c)'
    <3>1. \A t \in Threads : c \in todo[t] => c \in todo'[t]
      BY <2>2, <2>3
    <3>2. c \in hindered => c \in hindered'
      BY <2>2
    <3> QED BY <2>1, <2>3, <2>4, <3>1, <3>2 DEF Done, Found
  <2>5. ASSUME NEW c \in StartChances, c.kind = "cycle" PROVE Found(c)'
    <3>1. c = Job("KRX", "cycle", day) /\ IsKrx(c) /\ c.session = day
          /\ day \in KrxDays /\ slot \in {3, 4}
      BY <2>5, ExpectedTime
    <3>2. CASE hindered' = hindered \cup StartChances
      BY <3>2 DEF Found
    <3>3. CASE todo'[starts'] = Plan(early) /\ LastOf("KRX", CycleKinds) < day
      <4>1. day \in MissedCycle("KRX", KrxOpenSession)
        BY <3>1, <3>3 DEF MissedCycle, KrxOpenSession, KrxIntraday
      <4>2. c \in Plan(early)
        BY <3>1, <4>1 DEF Plan
      <4> QED BY <2>1, <3>3, <4>2 DEF Found
    <3>4. CASE ~ (LastOf("KRX", CycleKinds) < day)
      <4>1. \E i \in Cycles : log[i].day = c.session
        BY <3>1, <3>4, LastDecides
      <4>2. c \in Jobs
        BY <3>1, ExpectedTyped
      <4>3. c \in Logged \/ ByHand(c.session)
        BY <3>1, <4>1, <4>2, KrxLogged
      <4> QED BY <2>1, <4>3 DEF Logged, ByHand, Found
    <3> QED BY <2>2, <3>2, <3>3, <3>4
  <2> QED BY <2>1, <2>4, <2>5 DEF Done
<1>3. CASE ToggleOff
  <2>1. UNCHANGED <<chance, running, todo, log>> /\ hindered' = hindered \cup Expected(due)
    BY <1>3 DEF ToggleOff
  <2> QED BY <1>0, <2>1 DEF Done, Found
<1>4. CASE Exit
  <2>1. UNCHANGED <<chance, log>> /\ hindered' = hindered \cup Expected(Underway)
    BY <1>4 DEF Exit
  <2>2. \A c : c \in Underway <=> \/ c \in due \/ \E r \in running : r.job = c
                                  \/ \E t \in Threads : c \in todo[t]
    BY DEF Underway, Planned
  <2> QED BY <1>0, <2>1, <2>2 DEF Done, Found
<1>5. CASE Sleep
  BY <1>5 DEF Sleep, Done, Found
<1>6. CASE Wake
  <2>1. /\ UNCHANGED <<running, todo, log, hindered>>
        /\ chance' = chance \cup Expected(due')
        /\ \A j \in due : j.kind = "cycle" => j \in due'
    BY <1>6 DEF Wake
  <2>2. \A c \in Expected(due') : c \in due'
    BY DEF Expected
  <2> QED BY <2>1, <2>2 DEF Done, Found
<1>7. CASE FirePlanner
  <2>1. /\ UNCHANGED <<chance, running, todo, log, hindered>>
        /\ \A j \in due : j.kind = "cycle" => j \in due'
    BY <1>7 DEF FirePlanner
  <2> QED BY <2>1 DEF Done, Found
<1>8. CASE Fire
  <2>1. UNCHANGED <<day, chance, todo, log, hindered>>
    BY <1>8 DEF Fire
  <2>2. PICK j \in due : /\ due' = due \ {j}
                         /\ running' = IF Skipped(j) THEN running ELSE
                               running \cup {[by |-> Cron, job |-> j, fresh |-> TRUE]}
    BY <1>8 DEF Fire
  <2>3. ASSUME NEW c \in chance, c.kind = "cycle" PROVE Found(c)'
    <3>1. CASE c = j
      <4>1. day \in KrxDays
        BY <2>3, <3>1 DEF Chances, Timing
      <4>2. \E r \in running' : r.job = c
        <5>1. [by |-> Cron, job |-> j, fresh |-> TRUE] \in running'
          BY <2>2, <4>1 DEF Skipped
        <5> QED BY <3>1, <5>1
      <4> QED BY <4>2 DEF Found
    <3>2. CASE c # j
      <4>1. running \subseteq running' /\ (c \in due => c \in due')
        BY <2>2, <3>2
      <4> QED BY <2>1, <2>3, <4>1 DEF Done, Found
    <3> QED BY <3>1, <3>2
  <2> QED BY <2>1, <2>3 DEF Done
<1>9. CASE \E t \in Threads : Begin(t)
  <2>1. PICK t \in Threads : Begin(t)
    BY <1>9
  <2>2. PICK job \in todo[t] :
              /\ todo'[t] = todo[t] \ {job}
              /\ \A u \in Threads : u # t => todo'[u] = todo[u]
              /\ \/ job.kind # "stop" /\ hindered' = hindered
                    /\ running' = running \cup {[by |-> t, job |-> job, fresh |-> t \in fresh]}
                 \/ running' = running /\ hindered' = hindered \cup Expected({job})
    BY <2>1, BeginJob
  <2>3. UNCHANGED <<due, log, chance>>
    BY <2>1 DEF Begin
  <2>4. job \in chance /\ job.kind = "cycle" => Found(job)'
    <3> SUFFICES ASSUME job \in chance, job.kind = "cycle" PROVE Found(job)'
      OBVIOUS
    <3>1. job \in hindered' \/ \E r \in running' : r.job = job
      <4> DEFINE y == [by |-> t, job |-> job, fresh |-> t \in fresh]
      <4>1. job \in Expected({job})
        BY <1>0
      <4>2. y.job = job /\ (y \in running' \/ job \in hindered')
        BY <2>2, <4>1
      <4> HIDE DEF y
      <4> QED BY <4>2
    <3> QED BY <3>1 DEF Found
  <2>5. \A c : c # job /\ Found(c) => Found(c)'
    <3>1. \A u \in Threads : \A c \in todo[u] : c # job => c \in todo'[u]
      BY <2>2
    <3>2. running \subseteq running' /\ hindered \subseteq hindered'
      BY <2>2
    <3> QED BY <2>3, <3>1, <3>2 DEF Found
  <2> QED BY <2>3, <2>4, <2>5 DEF Done
<1>10. CASE \E r \in running : Complete(r)
  <2>1. PICK r \in running : Complete(r)
    BY <1>10
  <2>2. UNCHANGED <<due, todo, chance, hindered>> /\ running' = running \ {r}
    BY <2>1 DEF Complete
  <2>3. /\ \A i \in DOMAIN log : i \in DOMAIN log' /\ log'[i] = log[i]
        /\ \E i \in DOMAIN log' : log'[i].job = r.job
    <3>1. /\ DOMAIN log' = 1..(Len(log) + 1) /\ DOMAIN log = 1..Len(log) /\ Len(log) \in Nat
          /\ log'[Len(log) + 1].job = r.job
          /\ \A i \in DOMAIN log : log'[i] = log[i]
      BY <2>1, Appended
    <3>2. \A i \in DOMAIN log : i \in DOMAIN log'
      BY <3>1
    <3>3. Len(log) + 1 \in DOMAIN log'
      BY <3>1
    <3> QED BY <3>1, <3>2, <3>3
  <2>4. Found(r.job)'
    BY <2>3 DEF Found
  <2>5. \A c : c # r.job /\ Found(c) => Found(c)'
    BY <2>2, <2>3 DEF Found
  <2> QED BY <2>2, <2>4, <2>5 DEF Done
<1>11. CASE \E r \in running : Fail(r)
  <2>1. PICK r \in running : Fail(r)
    BY <1>11
  <2>2. /\ UNCHANGED <<due, todo, log, chance>> /\ running' = running \ {r}
        /\ hindered' = hindered \cup Expected({r.job})
    BY <2>1 DEF Fail
  <2> QED BY <1>0, <2>2 DEF Done, Found
<1>12. CASE RunNow
  <2>1. UNCHANGED <<chance, due, todo, log, hindered>> /\ running \subseteq running'
    BY <1>12, ByHandRuns DEF RunNow
  <2> QED BY <2>1 DEF Done, Found
<1>13. CASE UNCHANGED vars
  BY <1>13 DEF vars, Done, Found
<1> QED BY <1>1, <1>2, <1>3, <1>4, <1>5, <1>6, <1>7, <1>8, <1>9, <1>10, <1>11, <1>12, <1>13 DEF Next

\* The inductive invariant of the scheduler, the threads of the catch-up and the log.
THEOREM Invariance == Spec => []IInv
<1>1. Init => IInv
  BY DEF Init, IInv, Settling, Sorted, Timing, PlanTimed, RunTimed, Ordered, Cycles, Once,
         Single, Planned, Logged, Chances, Done
<1>2. TypeOK /\ IInv /\ [Next]_vars => IInv'
  BY SettlingStep, SortedStep, TimingStep, OrderedStep, OnceStep, ChancesStep, DoneStep DEF IInv
<1> QED BY <1>1, <1>2, TypeCorrect, PTL DEF Spec

\* A settlement, by the job or by a catch-up, is of a session that is closed.
THEOREM SettlesOnlyClosed == Spec => []SettlesClosed
<1>1. IInv => SettlesClosed
  BY DEF IInv, Settling, SettlesClosed, SettlesLate, Planned, Logged
<1> QED BY <1>1, Invariance, PTL

\* The KRX cycle of a day runs once, be it the scheduler's or a catch-up's, unless the
\* jobs were registered again while it was under way.
THEOREM KrxCycleRunsOnce == Spec => []KrxCycleOnce
<1>1. TypeOK /\ IInv => KrxCycleOnce
  <2> SUFFICES ASSUME TypeOK, Once, NEW i \in DOMAIN log, NEW j \in DOMAIN log,
                      Repeated("KRX", i, j), log[i].job \notin renewed
               PROVE  FALSE
    BY DEF KrxCycleOnce, IInv
  <2>1. PICK c \in Jobs : c = log[i].job
    BY LogDomain DEF Entries
  <2>2. Single(c)
    BY <2>1 DEF Repeated, IsKrx, Once
  <2> QED BY <2>1, <2>2 DEF Repeated, Single
<1> QED BY <1>1, TypeCorrect, Invariance, PTL

\* A KRX cycle that the job, or a start during the session, could run is run, or on its
\* way, unless it failed or was cut off.
THEOREM KrxCycleIsDone == Spec => []KrxCycleDone
<1>1. IInv => KrxCycleDone
  BY FoundSame DEF IInv, Done, KrxCycleDone
<1> QED BY <1>1, Invariance, PTL

------------------------------------------------------------------------------
(* The US cycle of a session runs once on each of its two dates.           *)

IsUs(j) == j.market = "US" /\ j.kind = "cycle"

\* While the session of the cycle is open; what is left of an interval ends in the next.
Lasting(j, anew) ==
    \/ j.session = day /\ slot = 9 /\ anew
    \/ j.session = day - 1 /\ (slot = 0 \/ (slot = 1 /\ ~ anew))

OnTime(j, anew) ==
    \/ Lasting(j, anew)
    \/ j.session = day /\ slot = (IF anew THEN 7 ELSE 8)

\* A US cycle is planned before its time and comes due at it, on the day of its session.
UsTiming ==
    /\ power = "off" => planned = {}
    /\ \A j \in planned : IsUs(j) => j.session = day /\ slot < 7
    /\ \A j \in due : /\ IsUs(j) => j.session = day /\ slot = 7
                      /\ j.kind = "plan" => slot = 4
    /\ \A t \in Threads : \A j \in todo[t] : IsUs(j) => Lasting(j, t \in fresh)
    /\ \A r \in running : IsUs(r.job) => OnTime(r.job, r.fresh)
    /\ \A i \in DOMAIN log : IsUs(log[i].job) =>
          \/ log[i].job.session < day
          \/ log[i].job.session = day /\ slot >= 7

UsCycles == {i \in DOMAIN log : log[i].job.market = "US" /\ log[i].kind \in CycleKinds}

UsLast == UsCycles # {} => \E i \in UsCycles : \A k \in UsCycles : k <= i

LoggedToday(c) == \E i \in DOMAIN log : log[i].job = c /\ log[i].day = day

\* Of the places a US cycle can be in, due, planned, running and logged today, it is in
\* one at most, and there once.
UsSingle(c) ==
    /\ c \in due => /\ c \notin Planned /\ ~ LoggedToday(c)
                    /\ \A r \in running : r.job # c
    /\ \A t, u \in Threads : c \in todo[t] /\ c \in todo[u] => t = u
    /\ c \in Planned => ~ LoggedToday(c) /\ \A r \in running : r.job # c
    /\ \A q, r \in running : q.job = c /\ r.job = c => q = r
    /\ \A r \in running : r.job = c => ~ LoggedToday(c)
    /\ \A i, k \in DOMAIN log :
          log[i].job = c /\ log[k].job = c /\ log[i].day = log[k].day => i = k

UsOnce == \A c \in Jobs : IsUs(c) /\ c \notin renewed => UsSingle(c)

UsInv == UsTiming /\ UsLast /\ UsOnce

\* The US cycle of a plan is of the session that is open, and has none logged today.
LEMMA UsCyclePlan ==
    ASSUME NEW early \in BOOLEAN, NEW j \in Plan(early), IsUs(j)
    PROVE  /\ \/ j.session = day /\ slot = 9
              \/ j.session = day - 1 /\ slot = 0
           /\ LastOf("US", CycleKinds) < day
BY DEF Plan, Job, IsUs, UsOpenSession, MissedCycle

\* What comes due at a Tick: a US cycle that was planned, and the planner at noon.
LEMMA UsTickDue ==
    ASSUME TypeOK, Tick, NEW j \in due'
    PROVE  /\ IsUs(j) => j \in planned /\ j.session = day' /\ slot' = 7
           /\ j.kind = "plan" => slot' = 4
<1>1. j \in DueAt(day', slot')
  BY DEF Tick
<1> QED BY <1>1 DEF DueAt, IsUs, Job

\* What the one-shot jobs of the night are planned for.
LEMMA UsNight ==
    ASSUME TypeOK, NEW early \in BOOLEAN, NEW j \in PlanUs(early)
    PROVE  /\ j.kind \in {"cycle", "settle"}
           /\ IsUs(j) => j.session = day /\ slot < 8
<1>1. slot \in 0..9
  BY DEF TypeOK, Slots
<1> QED BY <1>1 DEF PlanUs, Job, IsUs

LEMMA UsTimingStep ==
    ASSUME TypeOK, Sorted, UsTiming, Timing, [Next]_vars
    PROVE  UsTiming'
<1>0. /\ \A i \in DOMAIN log : log[i].job \in Jobs
      /\ day \in Int /\ slot \in 0..9
      /\ \A j \in Jobs : j.session \in Int
  BY LogDomain DEF Entries, Jobs, TypeOK, Days, Slots
<1>1. CASE Tick
  <2>1. /\ UNCHANGED <<power, todo, log>> /\ fresh' = {}
        /\ planned' = planned \ due'
        /\ running' = {[r EXCEPT !.fresh = FALSE] : r \in running}
        /\ \A t \in Threads : todo[t] # {} => t \in fresh
        /\ \A r \in running : r.fresh
        /\ power = "off" \/ due' = DueAt(day', slot')
    BY <1>1 DEF Tick
  <2>2. /\ \A j \in due' : IsUs(j) => j.session = day' /\ slot' = 7
        /\ \A j \in due' : j.kind = "plan" => slot' = 4
    BY <1>1, UsTickDue
  <2>3. ASSUME NEW j \in planned', IsUs(j) PROVE j.session = day' /\ slot' < 7
    <3>1. j \in planned /\ j \notin due' /\ j.session = day /\ slot < 7
      BY <2>1, <2>3 DEF UsTiming
    <3>2. day' = day /\ slot' = slot + 1
      BY <1>1, <3>1, TickClock
    <3>3. due' = DueAt(day', slot')
      BY <2>1, <3>1 DEF UsTiming
    <3>4. slot' # 7
      BY <2>3, <3>1, <3>2, <3>3 DEF DueAt, IsUs
    <3> QED BY <1>0, <3>1, <3>2, <3>4
  <2>4. ASSUME NEW t \in Threads, NEW j \in todo'[t], IsUs(j)
        PROVE  Lasting(j, t \in fresh)'
    <3>1. j \in todo[t] /\ t \in fresh /\ t \notin fresh'
      BY <2>1, <2>4
    <3>2. (j.session = day /\ slot = 9) \/ (j.session = day - 1 /\ slot = 0)
      BY <2>4, <3>1 DEF UsTiming, Lasting
    <3>3. j.session = day' - 1 /\ slot' \in {0, 1}
      <4>1. PICK s \in Int : s = j.session
        BY <1>0, <3>1 DEF TypeOK
      <4>2. s = day' - 1 /\ slot' \in {0, 1}
        BY <1>0, <1>1, <3>2, <4>1, TickClock DEF Slots
      <4> QED BY <4>1, <4>2
    <3> QED BY <3>1, <3>3 DEF Lasting
  <2>5. ASSUME NEW r \in running', IsUs(r.job) PROVE OnTime(r.job, r.fresh)'
    <3>1. PICK q \in running : r = [q EXCEPT !.fresh = FALSE]
      BY <2>1
    <3>2. r.job = q.job /\ r.fresh = FALSE /\ q.fresh
      BY <2>1, <3>1 DEF TypeOK, Runs
    <3>3. OnTime(q.job, q.fresh)
      BY <2>5, <3>2 DEF UsTiming
    <3>4. \/ q.job.session = day /\ slot \in {7, 9}
          \/ q.job.session = day - 1 /\ slot = 0
      BY <3>2, <3>3 DEF OnTime, Lasting
    <3>5. \/ q.job.session = day' /\ slot' = 8
          \/ q.job.session = day' - 1 /\ slot' \in {0, 1}
      <4>1. PICK s \in Int : s = q.job.session
        BY <1>0 DEF TypeOK, Runs
      <4>2. (s = day' /\ slot' = 8) \/ (s = day' - 1 /\ slot' \in {0, 1})
        BY <1>0, <1>1, <3>4, <4>1, TickClock DEF Slots
      <4> QED BY <4>1, <4>2
    <3> QED BY <3>2, <3>5 DEF OnTime, Lasting
  <2>6. ASSUME NEW i \in DOMAIN log, IsUs(log[i].job)
        PROVE  \/ log[i].job.session < day'
               \/ log[i].job.session = day' /\ slot' >= 7
    <3>1. PICK s \in Int : s = log[i].job.session
      BY <1>0
    <3>2. s < day \/ (s = day /\ slot >= 7)
      BY <2>6, <3>1 DEF UsTiming
    <3>3. s < day' \/ (s = day' /\ slot' >= 7)
      BY <1>0, <1>1, <3>2, TickClock
    <3> QED BY <3>1, <3>3
  <2>7. power' = "off" => planned' = {}
    BY <2>1 DEF UsTiming
  <2> QED BY <2>1, <2>2, <2>3, <2>4, <2>5, <2>6, <2>7 DEF UsTiming
<1>2. CASE Start
  <2>1. /\ UNCHANGED <<day, slot, running, log>> /\ power' = "on"
        /\ starts' = starts + 1 /\ starts' \in Threads /\ fresh' = fresh \cup {starts'}
    BY <1>2, StartPlans DEF Start, Unprepared
  <2>2. PICK early \in BOOLEAN :
           /\ \/ todo' = [todo EXCEPT ![starts'] = Plan(early)]
              \/ todo' = todo
           /\ due' = {j \in PlanUs(early) : j.kind = "cycle" /\ slot = 7}
           /\ planned' = PlanUs(early) \ due'
    BY <1>2 DEF Start, Unprepared
  <2>3. \A j \in due' : (IsUs(j) => j.session = day /\ slot = 7) /\ j.kind # "plan"
    BY <2>2, UsNight
  <2>4. \A j \in planned' : IsUs(j) => j.session = day /\ slot < 7
    BY <1>0, <2>2, UsNight DEF IsUs
  <2>5. todo[starts'] = {}
    BY <2>1 DEF Timing, TypeOK, Threads
  <2>6. ASSUME NEW t \in Threads, NEW j \in todo'[t], IsUs(j)
        PROVE  Lasting(j, t \in fresh)'
    <3>1. CASE t = starts'
      <4>1. j \in Plan(early)
        BY <2>1, <2>2, <2>5, <2>6, <3>1 DEF TypeOK
      <4>2. (j.session = day /\ slot = 9) \/ (j.session = day - 1 /\ slot = 0)
        BY <2>6, <4>1, UsCyclePlan
      <4>3. t \in fresh'
        BY <2>1, <3>1
      <4> QED BY <2>1, <4>2, <4>3 DEF Lasting
    <3>2. CASE t # starts'
      <4>1. j \in todo[t] /\ (t \in fresh' <=> t \in fresh)
        BY <2>1, <2>2, <2>6, <3>2 DEF TypeOK
      <4>2. Lasting(j, t \in fresh)
        BY <2>6, <4>1 DEF UsTiming
      <4> QED BY <2>1, <4>1, <4>2 DEF Lasting
    <3> QED BY <3>1, <3>2
  <2>7. \A r \in running' : IsUs(r.job) => OnTime(r.job, r.fresh)'
    BY <2>1 DEF UsTiming, OnTime, Lasting
  <2> QED BY <2>1, <2>3, <2>4, <2>6, <2>7 DEF UsTiming
<1>3. CASE ToggleOff \/ Sleep \/ Wake
  <2>1. /\ UNCHANGED <<day, slot, fresh, running, todo, log>> /\ due' \subseteq due
        /\ planned' \subseteq planned /\ (power' = "off" => planned' = {})
    BY <1>3 DEF ToggleOff, Sleep, Wake
  <2> QED BY <2>1 DEF UsTiming, OnTime, Lasting
<1>4. CASE Exit
  <2>1. /\ UNCHANGED <<day, slot, log>> /\ due' = {} /\ planned' = {} /\ running' = {}
        /\ \A t \in Threads : todo'[t] = {}
    BY <1>4 DEF Exit
  <2> QED BY <2>1 DEF UsTiming
<1>5. CASE FirePlanner
  <2>1. /\ UNCHANGED <<day, slot, power, fresh, running, todo, log>> /\ due' \subseteq due
        /\ planned' = planned \/ planned' = PlanUs(FALSE)
        /\ slot = 4 /\ power = "on"
    BY <1>5 DEF FirePlanner, UsTiming
  <2>2. \A j \in planned' : IsUs(j) => j.session = day /\ slot < 7
    <3>1. \A j \in PlanUs(FALSE) : IsUs(j) => j.session = day
      BY UsNight
    <3>2. CASE planned' = planned
      BY <3>2 DEF UsTiming
    <3>3. CASE planned' = PlanUs(FALSE)
      <4>1. \A j \in planned' : IsUs(j) => j.session = day
        BY <3>1, <3>3, Zenon
      <4>2. slot < 7
        BY <2>1
      <4> QED BY <4>1, <4>2
    <3> QED BY <2>1, <3>2, <3>3
  <2> QED BY <2>1, <2>2 DEF UsTiming, OnTime, Lasting
<1>6. CASE Fire
  <2>1. UNCHANGED <<day, slot, power, planned, fresh, todo, log>>
    BY <1>6 DEF Fire
  <2>2. PICK j \in due : /\ due' \subseteq due
                         /\ running' \subseteq running \cup {[by |-> Cron, job |-> j, fresh |-> TRUE]}
    BY <1>6 DEF Fire
  <2>3. ASSUME NEW r \in running', IsUs(r.job) PROVE OnTime(r.job, r.fresh)'
    <3>1. CASE r \in running
      BY <2>1, <2>3, <3>1 DEF UsTiming, OnTime, Lasting
    <3>2. CASE r = [by |-> Cron, job |-> j, fresh |-> TRUE]
      BY <2>1, <2>3, <3>2 DEF UsTiming, OnTime, Lasting
    <3> QED BY <2>2, <3>1, <3>2
  <2> QED BY <2>1, <2>2, <2>3 DEF UsTiming, Lasting
<1>7. CASE \E t \in Threads : Begin(t)
  <2>1. PICK t \in Threads : Begin(t)
    BY <1>7
  <2>2. UNCHANGED <<day, slot, power, due, planned, fresh, log>>
    BY <2>1 DEF Begin
  <2>3. PICK job \in todo[t] :
              /\ todo'[t] = todo[t] \ {job}
              /\ \A u \in Threads : u # t => todo'[u] = todo[u]
              /\ \/ job.kind # "stop" /\ hindered' = hindered
                    /\ running' = running \cup {[by |-> t, job |-> job, fresh |-> t \in fresh]}
                 \/ running' = running /\ hindered' = hindered \cup Expected({job})
    BY <2>1, BeginJob
  <2>4. \A u \in Threads : todo'[u] \subseteq todo[u]
    BY <2>3
  <2>5. \A u \in Threads : \A j \in todo'[u] : IsUs(j) => Lasting(j, u \in fresh)'
    BY <2>2, <2>4 DEF UsTiming, Lasting
  <2>6. ASSUME NEW r \in running', IsUs(r.job) PROVE OnTime(r.job, r.fresh)'
    <3>1. CASE r \in running
      BY <2>2, <2>6, <3>1 DEF UsTiming, OnTime, Lasting
    <3>2. CASE r = [by |-> t, job |-> job, fresh |-> t \in fresh]
      <4>1. r.job = job /\ r.fresh = (t \in fresh)
        BY <3>2
      <4>2. Lasting(job, t \in fresh)
        BY <2>6, <4>1 DEF UsTiming
      <4>3. OnTime(r.job, r.fresh)
        BY <4>1, <4>2, Zenon DEF OnTime
      <4> QED BY <2>2, <4>3 DEF OnTime, Lasting
    <3> QED BY <2>3, <3>1, <3>2
  <2> QED BY <2>2, <2>5, <2>6 DEF UsTiming
<1>8. CASE \E r \in running : Complete(r)
  <2>1. PICK r \in running : Complete(r)
    BY <1>8
  <2>2. UNCHANGED <<day, slot, power, due, planned, fresh, todo>> /\ running' \subseteq running
    BY <2>1 DEF Complete
  <2>3. PICK n \in Nat : n = Len(log) + 1
    BY LogDomain
  <2>4. /\ \A i \in DOMAIN log' : (i \in DOMAIN log /\ log'[i] = log[i]) \/ i = n
        /\ log'[n].job = r.job
    <3>1. /\ DOMAIN log' = 1..n /\ DOMAIN log = 1..Len(log) /\ Len(log) \in Nat
          /\ log'[n].job = r.job
          /\ \A i \in DOMAIN log : log'[i] = log[i]
      BY <2>1, <2>3, Appended
    <3>2. \A i \in DOMAIN log' : i \in DOMAIN log \/ i = n
      BY <2>3, <3>1
    <3> QED BY <3>1, <3>2
  <2>5. IsUs(r.job) => r.job.session < day \/ (r.job.session = day /\ slot >= 7)
    <3>1. r.job.session \in Int
      BY <1>0 DEF TypeOK, Runs
    <3> QED BY <1>0, <3>1 DEF UsTiming, OnTime, Lasting
  <2> QED BY <2>2, <2>4, <2>5 DEF UsTiming, OnTime, Lasting
<1>9. CASE \E r \in running : Fail(r)
  <2>1. UNCHANGED <<day, slot, power, due, planned, fresh, todo, log>> /\ running' \subseteq running
    BY <1>9 DEF Fail
  <2> QED BY <2>1 DEF UsTiming, OnTime, Lasting
<1>10. CASE RunNow
  <2>1. UNCHANGED <<day, slot, power, due, planned, fresh, todo, log>>
    BY <1>10 DEF RunNow
  <2>2. \A r \in running' : r \in running \/ ~ IsUs(r.job)
    BY <1>10, ByHandRuns DEF IsUs
  <2> QED BY <2>1, <2>2 DEF UsTiming, OnTime, Lasting
<1>11. CASE UNCHANGED vars
  BY <1>11 DEF vars, UsTiming, OnTime, Lasting
<1> QED BY <1>1, <1>2, <1>3, <1>4, <1>5, <1>6, <1>7, <1>8, <1>9, <1>10, <1>11 DEF Next

LEMMA UsLastStep ==
    ASSUME TypeOK, UsLast, [Next]_vars
    PROVE  UsLast'
<1>1. CASE \E r \in running : Complete(r)
  <2>1. PICK r \in running : Complete(r)
    BY <1>1
  <2>2. PICK n \in Nat : n = Len(log) + 1
    BY LogDomain
  <2>3. /\ DOMAIN log' = 1..n /\ DOMAIN log = 1..Len(log) /\ Len(log) \in Nat
        /\ \A i \in DOMAIN log : log'[i] = log[i]
    BY <2>1, <2>2, Appended
  <2>4. /\ \A i \in DOMAIN log : i \in DOMAIN log' /\ i < n
        /\ \A i \in DOMAIN log' : i \in DOMAIN log \/ i = n
    BY <2>2, <2>3
  <2>5. UsCycles \subseteq UsCycles' /\ UsCycles' \subseteq UsCycles \cup {n}
    BY <2>3, <2>4 DEF UsCycles
  <2>6. \A k \in UsCycles : k < n /\ k <= n
    BY <2>3, <2>4 DEF UsCycles
  <2>7. CASE n \in UsCycles'
    BY <2>5, <2>6, <2>7 DEF UsLast
  <2>8. CASE n \notin UsCycles'
    BY <2>5, <2>8 DEF UsLast
  <2> QED BY <2>7, <2>8
<1>2. CASE log' = log
  BY <1>2 DEF UsLast, UsCycles
<1>3. CASE Tick \/ Start \/ ToggleOff \/ Exit \/ Sleep \/ Wake \/ FirePlanner \/ Fire \/ RunNow
  BY <1>2, <1>3 DEF Tick, Start, Unprepared, ToggleOff, Exit, Sleep, Wake, FirePlanner, Fire,
                    RunNow
<1>4. CASE \E t \in Threads : Begin(t)
  BY <1>2, <1>4 DEF Begin
<1>5. CASE \E r \in running : Fail(r)
  BY <1>2, <1>5 DEF Fail
<1> QED BY <1>1, <1>2, <1>3, <1>4, <1>5 DEF Next, vars

\* A cycle that is missed today, by the comparison of catchup.py, is not logged today.
LEMMA UsMissed ==
    ASSUME TypeOK, Ordered, UsLast, LastOf("US", CycleKinds) < day, NEW c \in Jobs, IsUs(c)
    PROVE  ~ LoggedToday(c)
<1> SUFFICES ASSUME NEW i \in DOMAIN log, log[i].job = c, log[i].day = day
             PROVE  FALSE
  BY DEF LoggedToday
<1>1. i \in UsCycles
  BY DEF UsCycles, Ordered, Dated, IsUs
<1>2. UsCycles \subseteq Int /\ UsCycles \subseteq DOMAIN log
  BY LogDomain DEF UsCycles
<1>3. PICK m \in UsCycles : \A k \in UsCycles : k <= m
  BY <1>1 DEF UsLast
<1>4. Max(UsCycles) \in UsCycles /\ \A k \in UsCycles : Max(UsCycles) >= k
  BY <1>2, <1>3 DEF Max
<1>5. LastOf("US", CycleKinds) = log[Max(UsCycles)].day
  BY <1>1 DEF LastOf, UsCycles
<1>6. day <= log[Max(UsCycles)].day
  <2> HIDE DEF UsCycles
  <2> QED BY <1>1, <1>2, <1>4 DEF Ordered
<1>7. log[Max(UsCycles)].day \in Int /\ day \in Int
  BY <1>2, <1>4, LogDomain DEF Entries, Days, TypeOK
<1> QED BY <1>5, <1>6, <1>7

LEMMA UsOnceStep ==
    ASSUME TypeOK, Sorted, Timing, Ordered, UsTiming, UsLast, UsOnce, [Next]_vars
    PROVE  UsOnce'
<1> SUFFICES ASSUME NEW c \in Jobs, IsUs(c), c \notin renewed'
             PROVE  UsSingle(c)'
  BY DEF UsOnce
<1>0. day \in Int /\ slot \in 0..9 /\ c.session \in Int
  BY DEF TypeOK, Days, Slots, Jobs
<1>1. CASE Start
  <2>1. /\ UNCHANGED <<day, slot, running, log>> /\ starts' \in Threads
        /\ c \notin Underway /\ ~ (c \in due' /\ c \in Logged)
    BY <1>1, StartPlans DEF Start, Unprepared, CyclesOf, IsUs
  <2>2. PICK early \in BOOLEAN :
           /\ \/ todo' = [todo EXCEPT ![starts'] = Plan(early)]
              \/ todo' = todo
           /\ due' = {j \in PlanUs(early) : j.kind = "cycle" /\ slot = 7}
    BY <1>1 DEF Start, Unprepared
  <2>3. \A r \in running' : r.job # c
    BY <2>1 DEF Underway
  <2>4. \A t \in Threads : c \notin todo[t]
    BY <2>1 DEF Underway, Planned
  <2>5. \A t \in Threads : c \in todo'[t] => t = starts' /\ c \in Plan(early)
    BY <2>1, <2>2, <2>4 DEF TypeOK
  <2>6. c \in Plan(early) => ~ LoggedToday(c) /\ slot # 7
    BY UsCyclePlan, UsMissed
  <2>7. LoggedToday(c)' <=> LoggedToday(c)
    BY <2>1 DEF LoggedToday
  <2>8. c \in due' => slot = 7 /\ ~ LoggedToday(c)
    BY <2>1, <2>2 DEF LoggedToday, Logged
  <2>9. UsSingle(c)
    <3>1. c \notin renewed
      BY <1>1 DEF Start, Unprepared
    <3> QED BY <3>1 DEF UsOnce
  <2>10. c \in Planned' => c \in Plan(early)
    BY <2>5 DEF Planned
  <2>11. \A i, k \in DOMAIN log' :
            log'[i].job = c /\ log'[k].job = c /\ log'[i].day = log'[k].day => i = k
    BY <2>1, <2>9 DEF UsSingle
  <2> QED BY <2>3, <2>5, <2>6, <2>7, <2>8, <2>10, <2>11 DEF UsSingle
<1> SUFFICES ASSUME ~ Start PROVE UsSingle(c)'
  BY <1>1
<1>2. UsSingle(c)
  <2>1. renewed' = renewed
    BY DEF Next, Tick, ToggleOff, Exit, Sleep, Wake, FirePlanner, Fire, RunNow, Begin, Complete, Fail,
           vars
  <2> QED BY <2>1 DEF UsOnce
<1>3. CASE Tick
  <2>1. UNCHANGED <<todo, log>> /\ running' = {[r EXCEPT !.fresh = FALSE] : r \in running}
        /\ \A r \in running : r.fresh
        /\ \A t \in Threads : todo[t] # {} => t \in fresh
    BY <1>3 DEF Tick
  <2>2. Planned' = Planned
    BY <2>1 DEF Planned
  <2>3. LoggedToday(c)' => LoggedToday(c)
    <3>1. CASE day' = day
      BY <2>1, <3>1 DEF LoggedToday
    <3>2. CASE day' = day + 1
      <4>1. \A i \in DOMAIN log : log[i].day <= day /\ log[i].day \in Int
        BY LogDomain DEF Ordered, Dated, Entries, Days
      <4>2. \A i \in DOMAIN log : log[i].day # day'
        BY <1>0, <3>2, <4>1
      <4> QED BY <2>1, <4>2 DEF LoggedToday
    <3> QED BY <1>3, <3>1, <3>2, TickClock
  <2>4. ASSUME c \in due'
        PROVE  c \notin Planned /\ ~ LoggedToday(c) /\ \A r \in running : r.job # c
    <3>1. c.session = day /\ slot = 6
      <4>1. c \in planned /\ c.session = day' /\ slot' = 7
        BY <1>3, <2>4, UsTickDue
      <4> QED BY <1>0, <1>3, <4>1, TickClock
    <3>2. \A t \in Threads : c \notin todo[t]
      BY <3>1 DEF UsTiming, Lasting
    <3>3. \A r \in running : r.job # c
      BY <3>1 DEF UsTiming, OnTime, Lasting
    <3>4. ~ LoggedToday(c)
      BY <1>0, <3>1 DEF LoggedToday, UsTiming
    <3> QED BY <3>2, <3>3, <3>4 DEF Planned
  <2>5. \A q \in running' : \E r \in running : q.job = r.job /\ q = [r EXCEPT !.fresh = FALSE]
    BY <2>1 DEF TypeOK, Runs
  <2>6. \A q, r \in running' : q.job = c /\ r.job = c => q = r
    <3> SUFFICES ASSUME NEW q \in running', NEW r \in running', q.job = c, r.job = c
                 PROVE  q = r
      OBVIOUS
    <3>1. PICK a \in running : a.job = c /\ q = [a EXCEPT !.fresh = FALSE]
      BY <2>5
    <3>2. PICK b \in running : b.job = c /\ r = [b EXCEPT !.fresh = FALSE]
      BY <2>5
    <3>3. a = b
      BY <1>2, <3>1, <3>2 DEF UsSingle
    <3> QED BY <3>1, <3>2, <3>3
  <2>7. c \in due' => \A r \in running' : r.job # c
    BY <2>4, <2>5
  <2>8. \A r \in running' : r.job = c => c \notin Planned /\ ~ LoggedToday(c)
    BY <1>2, <2>5 DEF UsSingle
  <2> QED BY <1>2, <2>1, <2>2, <2>3, <2>4, <2>6, <2>7, <2>8 DEF UsSingle
<1>4. CASE ToggleOff \/ Sleep \/ Wake \/ FirePlanner
  <2>1. UNCHANGED <<day, running, todo, log>> /\ due' \subseteq due
    BY <1>4 DEF ToggleOff, Sleep, Wake, FirePlanner
  <2>2. Planned' = Planned /\ LoggedToday(c)' = LoggedToday(c)
    BY <2>1 DEF Planned, LoggedToday
  <2> QED BY <1>2, <2>1, <2>2 DEF UsSingle
<1>5. CASE Exit
  <2>1. log' = log /\ due' = {} /\ running' = {} /\ \A t \in Threads : todo'[t] = {}
    BY <1>5 DEF Exit
  <2>2. Planned' = {}
    BY <2>1 DEF Planned
  <2> QED BY <1>2, <2>1, <2>2 DEF UsSingle
<1>6. CASE Fire
  <2>1. UNCHANGED <<day, todo, log>>
    BY <1>6 DEF Fire
  <2>2. Planned' = Planned /\ LoggedToday(c)' = LoggedToday(c)
    BY <2>1 DEF Planned, LoggedToday
  <2>3. PICK j \in due : /\ due' = due \ {j}
                         /\ running' \subseteq running \cup {[by |-> Cron, job |-> j, fresh |-> TRUE]}
    BY <1>6 DEF Fire
  <2>4. \A r \in running' : r \in running \/ (r.job = j /\ r = [by |-> Cron, job |-> j, fresh |-> TRUE])
    BY <2>3
  <2>5. CASE c = j
    BY <1>2, <2>1, <2>2, <2>3, <2>4, <2>5 DEF UsSingle
  <2>6. CASE c # j
    BY <1>2, <2>1, <2>2, <2>3, <2>4, <2>6 DEF UsSingle
  <2> QED BY <2>5, <2>6
<1>7. CASE \E t \in Threads : Begin(t)
  <2>1. PICK t \in Threads : Begin(t)
    BY <1>7
  <2>2. PICK job \in todo[t] :
              /\ todo'[t] = todo[t] \ {job}
              /\ \A u \in Threads : u # t => todo'[u] = todo[u]
              /\ \/ job.kind # "stop" /\ hindered' = hindered
                    /\ running' = running \cup {[by |-> t, job |-> job, fresh |-> t \in fresh]}
                 \/ running' = running /\ hindered' = hindered \cup Expected({job})
    BY <2>1, BeginJob
  <2>3. UNCHANGED <<day, due, log>>
    BY <2>1 DEF Begin
  <2>4. LoggedToday(c)' = LoggedToday(c)
    BY <2>3 DEF LoggedToday
  <2>5. PICK x : /\ x.job = job
                 /\ \A r \in running' : r \in running \/ r = x
    <3> DEFINE y == [by |-> t, job |-> job, fresh |-> t \in fresh]
    <3>1. y.job = job /\ \A r \in running' : r \in running \/ r = y
      BY <2>2
    <3> HIDE DEF y
    <3> QED BY <3>1
  <2>6. \A u \in Threads : todo'[u] \subseteq todo[u]
    BY <2>2
  <2>7. CASE c = job
    <3>1. c \in Planned /\ \A u \in Threads : c \in todo[u] => u = t
      BY <1>2, <2>2, <2>7 DEF UsSingle, Planned
    <3>2. \A u \in Threads : c \notin todo'[u]
      BY <2>2, <2>6, <2>7, <3>1
    <3>3. ~ LoggedToday(c) /\ c \notin due /\ \A r \in running : r.job # c
      BY <1>2, <3>1 DEF UsSingle
    <3>4. c \notin Planned'
      BY <3>2 DEF Planned
    <3>5. \A q, r \in running' : q.job = c /\ r.job = c => q = r
      BY <2>5, <3>3
    <3> QED BY <1>2, <2>3, <2>4, <3>2, <3>3, <3>4, <3>5 DEF UsSingle
  <2>8. CASE c # job
    <3>1. c \in Planned' => c \in Planned
      BY <2>6 DEF Planned
    <3>2. \A r \in running' : r.job = c => r \in running
      BY <2>5, <2>8
    <3> QED BY <1>2, <2>3, <2>4, <2>6, <3>1, <3>2 DEF UsSingle
  <2> QED BY <2>7, <2>8
<1>8. CASE \E r \in running : Complete(r)
  <2>1. PICK r \in running : Complete(r)
    BY <1>8
  <2>2. UNCHANGED <<day, due, todo>> /\ running' = running \ {r}
    BY <2>1 DEF Complete
  <2>3. PICK n \in Nat : n = Len(log) + 1
    BY LogDomain
  <2>4. /\ \A i \in DOMAIN log' : (i \in DOMAIN log /\ log'[i] = log[i]) \/ i = n
        /\ log'[n].job = r.job /\ log'[n].day = day
    <3>1. /\ DOMAIN log' = 1..n /\ DOMAIN log = 1..Len(log) /\ Len(log) \in Nat
          /\ log'[n].job = r.job /\ log'[n].day = day
          /\ \A i \in DOMAIN log : log'[i] = log[i]
      BY <2>1, <2>3, Appended
    <3>2. \A i \in DOMAIN log' : i \in DOMAIN log \/ i = n
      BY <2>3, <3>1
    <3> QED BY <3>1, <3>2
  <2>5. Planned' = Planned
    BY <2>2 DEF Planned
  <2>6. LoggedToday(c)' => LoggedToday(c) \/ c = r.job
    BY <2>2, <2>4 DEF LoggedToday
  <2>7. CASE c = r.job
    <3>1. c \notin due /\ c \notin Planned /\ ~ LoggedToday(c)
      BY <1>2, <2>7 DEF UsSingle
    <3>2. \A q \in running' : q.job # c
      BY <1>2, <2>2, <2>7 DEF UsSingle
    <3>3. \A i, k \in DOMAIN log' :
             log'[i].job = c /\ log'[k].job = c /\ log'[i].day = log'[k].day => i = k
      <4>1. \A i \in DOMAIN log : log[i].job = c => log[i].day # day
        BY <3>1 DEF LoggedToday
      <4> QED BY <1>2, <2>4, <4>1 DEF UsSingle
    <3>4. \A t, u \in Threads : c \in todo'[t] /\ c \in todo'[u] => t = u
      BY <1>2, <2>2 DEF UsSingle
    <3>5. c \notin due' /\ c \notin Planned'
      BY <2>2, <2>5, <3>1
    <3> QED BY <3>2, <3>3, <3>4, <3>5 DEF UsSingle
  <2>8. CASE c # r.job
    BY <1>2, <2>2, <2>4, <2>5, <2>6, <2>8 DEF UsSingle
  <2> QED BY <2>7, <2>8
<1>9. CASE \E r \in running : Fail(r)
  <2>1. UNCHANGED <<day, due, todo, log>> /\ running' \subseteq running
    BY <1>9 DEF Fail
  <2>2. Planned' = Planned /\ LoggedToday(c)' = LoggedToday(c)
    BY <2>1 DEF Planned, LoggedToday
  <2> QED BY <1>2, <2>1, <2>2 DEF UsSingle
<1>10. CASE RunNow
  <2>1. UNCHANGED <<day, due, todo, log>>
    BY <1>10 DEF RunNow
  <2>2. Planned' = Planned /\ LoggedToday(c)' = LoggedToday(c)
    BY <2>1 DEF Planned, LoggedToday
  <2>3. running \subseteq running' /\ \A r \in running' : r.job = c => r \in running
    BY <1>10, ByHandRuns DEF IsUs
  <2> QED BY <1>2, <2>1, <2>2, <2>3 DEF UsSingle
<1>11. CASE UNCHANGED vars
  BY <1>2, <1>11 DEF vars, UsSingle, Planned, LoggedToday
<1> QED BY <1>3, <1>4, <1>5, <1>6, <1>7, <1>8, <1>9, <1>10, <1>11 DEF Next

\* The US cycle of a session runs once on each of its two dates, be it the scheduler's
\* or a catch-up's (scheduler.py, catchup.py), unless the jobs were registered again while
\* it was under way or minutes after it was done.
THEOREM UsCycleRunsOncePerDate == Spec => []UsCycleOncePerDate
<1>1. Init => UsInv
  BY DEF Init, UsInv, UsTiming, UsLast, UsCycles, UsOnce, UsSingle, Planned
<1>2. TypeOK /\ IInv /\ UsInv /\ [Next]_vars => UsInv'
  BY UsTimingStep, UsLastStep, UsOnceStep DEF UsInv, IInv
<1>3. TypeOK /\ UsInv => UsCycleOncePerDate
  <2> SUFFICES ASSUME TypeOK, UsOnce, NEW i \in DOMAIN log, NEW j \in DOMAIN log,
                      Repeated("US", i, j), log[i].job \notin renewed, log[i].day = log[j].day
               PROVE  FALSE
    BY DEF UsCycleOncePerDate, UsInv
  <2>1. PICK c \in Jobs : c = log[i].job
    BY LogDomain DEF Entries
  <2>2. UsSingle(c)
    BY <2>1 DEF Repeated, IsUs, UsOnce
  <2> QED BY <2>1, <2>2 DEF Repeated, UsSingle
<1> QED BY <1>1, <1>2, <1>3, TypeCorrect, Invariance, PTL DEF Spec
=============================================================================
