------------------------------- MODULE KillSwitch -------------------------------
(***************************************************************************)
(* The kill switch (local/localapp/killswitch.py) and the threads that     *)
(* read and write it: the cycles of run_cycle (trader.py, runner.py), the  *)
(* LIQUIDATE_ALL and reset commands (gui.py), and within a session the     *)
(* monitor (intraday_stop.py) and the execution notices (trader.py), whose *)
(* trigger cancels the pending orders and runs a cycle (intraday_loop.py). *)
(*                                                                         *)
(* killswitch.json is changed by activate, reset and update_day_start.     *)
(* Each of them loads the file, changes the copy, writes it to the         *)
(* temporary file and puts that in the place of the file; no lock spans    *)
(* the four, and all threads share the one temporary file.                 *)
(*                                                                         *)
(* Of the orders only the buys are modelled, and of them only what the     *)
(* switch is to do about them: no new ones, and a cancel for the open ones.*)
(***************************************************************************)
EXTENDS Naturals

CONSTANTS
    Orders,      \* buys that previews may ask for
    Jobs,        \* threads of the scheduler and of commands
    Monitor,     \* the thread ks-monitor
    Notices,     \* threads of the execution notices
    MaxLevel,    \* equity is one of 1 .. MaxLevel
    Limit,       \* a loss of so many levels in a day fires the switch
    MaxEvents    \* bound: midnights, resets, LIQUIDATE_ALL commands and crashes

Watchers == Notices \cup {Monitor}
Threads  == Jobs \cup Watchers
Loop     == "loop"
Traders  == Jobs \cup {Loop}
None     == "none"

ASSUME ConstantsAssumption ==
    /\ Jobs \cap Watchers = {}
    /\ {Loop, None} \cap Threads = {}
    /\ MaxLevel \in Nat /\ Limit \in Nat \ {0}
    /\ MaxEvents \in Nat

VARIABLES
    \* the world
    today, equity,
    ord,      \* order -> "new", "open", "tried" after a cancel, or "closed"
    \* the files
    file,     \* killswitch.json: [active, start, day]; start 0 is none
    tmp,      \* killswitch.json.tmp: its content in a set, {} if it is absent
    saved,    \* the orders of pending_orders.json
    \* the program
    on,       \* the intraday loop runs
    lock,     \* holder of _CYCLE_LOCK
    th,       \* thread -> where it is and what it has in hand
    pend,     \* Trader -> the orders of its pending
    \* bounds and history
    events,
    latch,    \* the last activate or reset to finish was an activate
    mixed,    \* two changes of the file of different kinds have overlapped
    warned    \* threads with a cycle that was asked for when the latch was set

world   == <<today, equity, ord>>
history == <<latch, mixed, warned>>
vars == <<world, file, tmp, saved, on, lock, th, pend, events, history>>

Blank  == [active |-> FALSE, start |-> 0, day |-> 0]
Idle   == [at |-> "idle", change |-> None, copy |-> Blank, eq |-> 0, day |-> 0,
           ks |-> FALSE]

(* The Trader a thread's cycle runs on. *)
Own(t) == IF t \in Watchers THEN Loop ELSE t

Init ==
    /\ today = 1
    /\ equity \in 1 .. MaxLevel
    /\ ord = [o \in Orders |-> "new"]
    /\ \E s \in 0 .. MaxLevel : file = [Blank EXCEPT !.start = s]  \* of day 0
    /\ tmp = {} /\ saved = {}
    /\ on = FALSE /\ lock = None
    /\ th = [t \in Threads |-> Idle]
    /\ pend = [x \in Traders |-> {}]
    /\ events = 0
    /\ latch = FALSE /\ mixed = FALSE /\ warned = {}

Moves(t, x) == th' = [th EXCEPT ![t] = x]
Goes(t, l)  == Moves(t, [th[t] EXCEPT !.at = l])
At(t, l)    == th[t].at = l

(* t asks for a cycle. *)
Warn(t) == warned' = IF latch THEN warned \cup {t} ELSE warned \ {t}

Working == {"open", "tried"}

(* The orders of a Trader that _resolve_pending finds undecided.           *)
Unresolved(x) == {o \in pend[x] : ord[o] \in Working}

(* check_daily_loss: the day of the recorded start plays no part.          *)
Loss(f, e) == f.start > 0 /\ e + Limit <= f.start

-----------------------------------------------------------------------------
(* Changing the file *)

Changing(t) == th[t].at \in {"write", "replace"}

(* killswitch.load within a change that makes the file f.                  *)
LoadsFor(t, change, f) ==
    /\ Moves(t, [th[t] EXCEPT !.at = "write", !.change = change, !.copy = f])
    /\ mixed' = (mixed \/ \E s \in Threads : Changing(s) /\ th[s].change # change)
    /\ UNCHANGED <<world, file, tmp, saved, on, lock, pend, events,
                   latch, warned>>

ActivateLoads(t) ==
    At(t, "activate") /\ LoadsFor(t, "activate", [file EXCEPT !.active = TRUE])

(* The start of the day stays as it is. *)
ResetLoads(t) ==
    At(t, "reset") /\ LoadsFor(t, "reset", [file EXCEPT !.active = FALSE])

(* Mutant: the first cycle of a day starts a new record. *)
DayLoadsNew(t) ==
    /\ At(t, "day") /\ file.day # th[t].day
    /\ LoadsFor(t, "day", [Blank EXCEPT !.day = th[t].day, !.start = th[t].eq])

(* update_day_start: the first cycle of a day ... *)
DayLoads(t) ==
    /\ At(t, "day") /\ file.day # th[t].day
    /\ LoadsFor(t, "day", [file EXCEPT !.day = th[t].day, !.start = th[t].eq])

(* ... and the others, which write nothing. *)
DayKnown(t) ==
    /\ At(t, "day") /\ file.day = th[t].day
    /\ Moves(t, [th[t] EXCEPT !.at = "gate", !.day = 0])
    /\ UNCHANGED <<world, file, tmp, saved, on, lock, pend, events, history>>

(* state_store.save_json: the temporary file ... *)
Writes(t) ==
    /\ At(t, "write")
    /\ tmp' = {th[t].copy}
    /\ Goes(t, "replace")
    /\ UNCHANGED <<world, file, saved, on, lock, pend, events, history>>

(* What a change of the file is followed by: in a cycle its next part; a   *)
(* trigger that starts with the cancels; the run_cycle of LIQUIDATE_ALL.   *)
After(t) ==
    CASE th[t].change = "day" -> "gate"
      [] th[t].change = "activate" /\ lock = t -> "trade"
      [] th[t].change = "activate" /\ lock # t /\ t \in Watchers -> "cancel"
      [] th[t].change = "activate" /\ lock # t /\ t \in Jobs -> "start"
      [] OTHER -> "idle"

(* ... and os.replace.  A cycle that activated goes on as active. *)
Replaces(t) ==
    /\ At(t, "replace")
    /\ file' \in tmp /\ tmp' = {}
    /\ IF After(t) = "idle"
       THEN Moves(t, Idle)
       ELSE Moves(t, [th[t] EXCEPT !.at = After(t), !.change = None, !.copy = Blank,
                                   !.day = 0,
                                   !.ks = (After(t) = "trade")])
    /\ CASE th[t].change = "activate" ->
              /\ latch' = TRUE
              /\ UNCHANGED warned
         [] th[t].change = "reset" ->
              /\ latch' = FALSE
              /\ warned' = {}
         [] OTHER -> UNCHANGED <<latch, warned>>
    /\ UNCHANGED <<today, equity, ord, saved, on, lock, pend, events, mixed>>

(* The thread leaves what it is doing, for l, and releases the lock.       *)
Leaves(t, l) ==
    /\ Moves(t, IF l = "idle" THEN Idle ELSE [Idle EXCEPT !.at = l])
    /\ lock' = IF lock = t THEN None ELSE lock
    /\ warned' = warned \ {t}

(* An exception ends a trigger or a command; run_cycle tries the cycle     *)
(* again, or gives up.                                                     *)
Raises(t) ==
    \/ Leaves(t, "idle")
    \/ t \in Jobs /\ lock = t /\ Leaves(t, "start")

(* os.replace raises: another thread has taken the temporary file.         *)
ReplaceFails(t) ==
    /\ At(t, "replace") /\ tmp = {}
    /\ Raises(t)
    /\ UNCHANGED <<world, file, tmp, saved, on, pend, events, latch, mixed>>

-----------------------------------------------------------------------------
(* Cycles *)

(* The scheduler or RUN_CYCLE_NOW starts a run_cycle; the user resets the  *)
(* switch or orders everything to be sold.                                 *)
Starts(t) ==
    /\ t \in Jobs /\ At(t, "idle")
    /\ \/ /\ Moves(t, [Idle EXCEPT !.at = "start"])
          /\ UNCHANGED events
       \/ /\ events < MaxEvents /\ events' = events + 1
          /\ \/ Moves(t, [Idle EXCEPT !.at = "reset"])
             \/ Moves(t, [Idle EXCEPT !.at = "activate"])
    /\ UNCHANGED <<world, file, tmp, saved, on, lock, pend, history>>

(* Each attempt of run_cycle makes a new Trader. *)
MakesTrader(t) ==
    /\ At(t, "start")
    /\ Goes(t, "ready")
    /\ pend' = [pend EXCEPT ![t] = saved]
    /\ Warn(t)
    /\ UNCHANGED <<world, file, tmp, saved, on, lock, events,
                   latch, mixed>>

(* Trader.cycle: the lock, the day, _resolve_pending. *)
EntersCycle(t) ==
    /\ At(t, "ready") /\ lock = None
    /\ lock' = t
    /\ Moves(t, [th[t] EXCEPT !.at = "balance", !.day = today])
    /\ pend' = [pend EXCEPT ![Own(t)] = Unresolved(Own(t))]
    /\ UNCHANGED <<world, file, tmp, saved, on, events, history>>

ReadsBalance(t) ==
    /\ At(t, "balance")
    /\ Moves(t, [th[t] EXCEPT !.at = "day", !.eq = equity])
    /\ UNCHANGED <<world, file, tmp, saved, on, lock, pend, events, history>>

(* A cycle without a balance returns at once; nothing is tried again.      *)
BalanceFails(t) ==
    /\ At(t, "balance")
    /\ Leaves(t, "idle")
    /\ UNCHANGED <<world, file, tmp, saved, on, pend, events, latch, mixed>>

(* ks_active, once for the whole cycle. *)
Gate(t) ==
    /\ At(t, "gate")
    /\ Moves(t, [th[t] EXCEPT !.at = IF file.active THEN "trade" ELSE "check",
                              !.eq = IF file.active THEN 0 ELSE @,
                              !.ks = file.active])
    /\ UNCHANGED <<world, file, tmp, saved, on, lock, pend, events, history>>

(* check_daily_loss in a cycle.  A run_cycle that could not pull the risk  *)
(* limits skips it.                                                        *)
CycleChecks(t) ==
    /\ At(t, "check") /\ lock = t
    /\ \E l \in {"activate", "trade"} :
          /\ l = "activate" => Loss(file, th[t].eq)
          /\ l = "trade" => ~Loss(file, th[t].eq) \/ t \in Jobs
          /\ Moves(t, [th[t] EXCEPT !.at = l, !.eq = 0])
    /\ UNCHANGED <<world, file, tmp, saved, on, lock, pend, events, history>>

(* Mutant: the entries are not skipped. *)
BuysActive(t, o) ==
    /\ At(t, "trade") /\ t \in Jobs
    /\ ord[o] = "new"
    /\ ord'  = [ord EXCEPT ![o] = "open"]
    /\ pend' = [pend EXCEPT ![t] = @ \cup {o}]
    /\ UNCHANGED <<today, equity, file, tmp, saved, on, lock, th, events, history>>

(* _enter_from_preview; the cycle of a trigger has no candidates.          *)
Buys(t, o) ==
    /\ At(t, "trade") /\ ~th[t].ks /\ t \in Jobs
    /\ ord[o] = "new"
    /\ ord'  = [ord EXCEPT ![o] = "open"]
    /\ pend' = [pend EXCEPT ![t] = @ \cup {o}]
    /\ UNCHANGED <<today, equity, file, tmp, saved, on, lock, th, events, history>>

(* _wait_pending, the last snapshot and _save. *)
CycleEnds(t) ==
    /\ At(t, "trade")
    /\ pend' = [pend EXCEPT ![Own(t)] = Unresolved(Own(t))]
    /\ saved' = Unresolved(Own(t))
    /\ Leaves(t, "idle")
    /\ UNCHANGED <<world, file, tmp, on, events, latch, mixed>>

(* The last snapshot fails: nothing is saved. *)
CycleRaises(t) ==
    /\ At(t, "trade")
    /\ Raises(t)
    /\ UNCHANGED <<world, file, tmp, saved, on, pend, events, latch, mixed>>

-----------------------------------------------------------------------------
(* The watchers of a session *)

(* is_active ends an evaluation before it begins. *)
Wakes(t) ==
    /\ t \in Watchers /\ At(t, "idle") /\ on
    /\ ~file.active
    /\ Moves(t, [Idle EXCEPT !.at = "snapshot"])
    /\ UNCHANGED <<world, file, tmp, saved, on, lock, pend, events, history>>

ReadsEquity(t) ==
    /\ At(t, "snapshot")
    /\ Moves(t, [th[t] EXCEPT !.at = "check", !.eq = equity])
    /\ UNCHANGED <<world, file, tmp, saved, on, lock, pend, events, history>>

EquityFails(t) ==
    /\ At(t, "snapshot")
    /\ Leaves(t, "idle")
    /\ UNCHANGED <<world, file, tmp, saved, on, pend, events, latch, mixed>>

(* Mutant: the limit itself is no loss. *)
WatcherChecksBelow(t) ==
    /\ At(t, "check") /\ lock # t
    /\ Moves(t, [Idle EXCEPT !.at = IF th[t].eq + Limit < file.start THEN "activate"
                                                                   ELSE "idle"])
    /\ UNCHANGED <<world, file, tmp, saved, on, lock, pend, events, history>>

(* check_daily_loss outside of a cycle. *)
WatcherChecks(t) ==
    /\ At(t, "check") /\ lock # t
    /\ Moves(t, [Idle EXCEPT !.at = IF Loss(file, th[t].eq) THEN "activate" ELSE "idle"])
    /\ UNCHANGED <<world, file, tmp, saved, on, lock, pend, events, history>>

(* The trigger: cancel_all_pending for the orders of the loop's Trader,    *)
(* and then its cycle.                                                     *)
Cancels(t) ==
    /\ At(t, "cancel") /\ lock = None
    /\ ord' = [o \in Orders |-> IF o \in pend[Loop] /\ ord[o] \in Working
                               THEN "tried" ELSE ord[o]]
    /\ Goes(t, "ready")
    /\ Warn(t)
    /\ UNCHANGED <<today, equity, file, tmp, saved, on, lock, pend, events,
                   latch, mixed>>

-----------------------------------------------------------------------------
(* The session, the world, a crash *)

LoopStarts ==
    /\ ~on /\ \A t \in Watchers : At(t, "idle")
    /\ on' = TRUE
    /\ pend' = [pend EXCEPT ![Loop] = saved]
    /\ UNCHANGED <<world, file, tmp, saved, lock, th, events, history>>

LoopStops ==
    /\ on /\ on' = FALSE
    /\ UNCHANGED <<world, file, tmp, saved, lock, th, pend, events, history>>

EquityMoves ==
    /\ equity' \in (1 .. MaxLevel) \ {equity}
    /\ UNCHANGED <<today, ord, file, tmp, saved, on, lock, th, pend, events, history>>

Midnight ==
    /\ today' = today + 1
    /\ events < MaxEvents /\ events' = events + 1
    /\ UNCHANGED <<equity, ord, file, tmp, saved, on, lock, th, pend, history>>

(* KIS executes or cancels an order. *)
OrderCloses(o) ==
    /\ ord[o] \in Working
    /\ ord' = [ord EXCEPT ![o] = "closed"]
    /\ UNCHANGED <<today, equity, file, tmp, saved, on, lock, th, pend, events, history>>

Crashes ==
    /\ events < MaxEvents /\ events' = events + 1
    /\ on' = FALSE /\ lock' = None
    /\ th' = [t \in Threads |-> Idle]
    /\ pend' = [x \in Traders |-> {}]
    /\ warned' = {}
    /\ UNCHANGED <<world, file, tmp, saved, latch, mixed>>

-----------------------------------------------------------------------------
Changes(t) ==
    \/ ActivateLoads(t) \/ ResetLoads(t) \/ DayLoads(t) \/ DayKnown(t)
    \/ Writes(t) \/ Replaces(t) \/ ReplaceFails(t)

CycleStep(t) ==
    \/ MakesTrader(t) \/ EntersCycle(t) \/ ReadsBalance(t) \/ BalanceFails(t)
    \/ Gate(t) \/ CycleChecks(t) \/ CycleEnds(t) \/ CycleRaises(t)

WatcherStep(t) ==
    ReadsEquity(t) \/ EquityFails(t) \/ WatcherChecks(t) \/ Cancels(t)

ThreadStep(t) == Changes(t) \/ CycleStep(t) \/ WatcherStep(t)

Next ==
    \/ \E t \in Threads : ThreadStep(t) \/ Wakes(t)
    \/ \E t \in Jobs : Starts(t) \/ \E o \in Orders : Buys(t, o)
    \/ LoopStarts \/ LoopStops \/ EquityMoves \/ Midnight \/ Crashes
    \/ \E o \in Orders : OrderCloses(o)

Spec == Init /\ [][Next]_vars

(* Threads keep being scheduled, the monitor wakes every minute, a thread  *)
(* that waits for the lock gets it when it is free often enough, and KIS   *)
(* does not refuse every query for the balance.                            *)
Fairness ==
    /\ \A t \in Threads : WF_vars(ThreadStep(t))
    /\ WF_vars(Wakes(Monitor))
    /\ SF_vars(EntersCycle(Monitor) \/ Cancels(Monitor))
    /\ SF_vars(ReadsEquity(Monitor))

FairSpec == Spec /\ Fairness

-----------------------------------------------------------------------------
FileType == [active : BOOLEAN, start : Nat, day : Nat]

ThreadType ==
    [at : {"idle", "start", "ready", "balance", "day", "gate", "check", "trade",
           "activate", "reset", "write", "replace", "snapshot", "cancel"},
     change : {"activate", "reset", "day", None},
     copy : FileType, eq : Nat, day : Nat, ks : BOOLEAN]

TypeOK ==
    /\ today \in Nat /\ equity \in Nat
    /\ ord \in [Orders -> {"new", "open", "tried", "closed"}]
    /\ file \in FileType /\ tmp \subseteq FileType
    /\ saved \subseteq Orders
    /\ on \in BOOLEAN /\ lock \in Threads \cup {None}
    /\ th \in [Threads -> ThreadType]
    /\ pend \in [Traders -> SUBSET Orders]
    /\ events \in Nat
    /\ latch \in BOOLEAN /\ mixed \in BOOLEAN
    /\ warned \subseteq Threads

(* killswitch.py:3-4: the switch stays until the user resets it, provided  *)
(* the file has no concurrent use.  No more is needed than that changes of *)
(* different kinds do not overlap: activations of two watchers and a cycle *)
(* may share the temporary file and fail in part, and crashes may come     *)
(* between, but the file is active exactly from an activation to a reset.  *)
SwitchExact == mixed \/ file.active = latch

(* INV-KS-1 over threads: a cycle asked for after an activation, however   *)
(* long it waited for the lock and whatever other cycles did meanwhile,    *)
(* sends no buy until a reset.  (The cycle already past its gate when the  *)
(* switch is activated may.)                                               *)
BuysBlocked ==
    [][\A t \in Jobs, o \in Orders :
          /\ o \in pend'[t] \ pend[t]
          /\ ord[o] = "new" /\ ord'[o] # "new"
          => mixed \/ t \notin warned]_vars

(* Why they hold.  A cycle has the lock, ...                               *)
OnlyHolder ==
    \A t \in Threads :
        /\ th[t].at \in {"balance", "day", "gate", "trade"} => lock = t
        /\ lock = t => th[t].at \in {"balance", "day", "gate", "check", "activate",
                                     "write", "replace", "trade"}

(* ... changes are of one of three kinds, and update_day_start is part of  *)
(* a cycle and a reset is not; ...                                         *)
ChangeKinds ==
    \A t \in Threads : Changing(t) =>
        /\ th[t].change \in {"activate", "reset", "day"}
        /\ th[t].change = "day" => lock = t
        /\ th[t].change = "reset" => lock # t

(* ... changes that overlap are of the same kind, and agree on what to     *)
(* make of the switch, in their copies and in the temporary file that one  *)
(* of them may put in place for another; ...                               *)
Agrees(change, f) ==
    f.active = IF change = "day" THEN latch ELSE change = "activate"

ChangesAgree ==
    mixed \/ \A t \in Threads : Changing(t) =>
        /\ Agrees(th[t].change, th[t].copy)
        /\ At(t, "replace") => \A f \in tmp : Agrees(th[t].change, f)
        /\ \A s \in Threads : Changing(s) => th[s].change = th[t].change

(* ... and a thread that was warned finds the switch active at its gate.   *)
WarnedStop ==
    mixed \/ \A t \in warned :
        /\ latch
        /\ At(t, "trade") => th[t].ks
        /\ At(t, "check") => lock # t

(* The monitor sees to it that a loss that lasts does not leave the switch *)
(* off, not even when the user keeps resetting it.                         *)
LossTriggers == <>[](on /\ Loss(file, equity)) => []<>file.active
=============================================================================
