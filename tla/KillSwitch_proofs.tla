--------------------------- MODULE KillSwitch_proofs ---------------------------
(***************************************************************************)
(* TypeOK, SwitchExact and BuysBlocked for any threads, orders and bounds. *)
(*                                                                         *)
(* Most steps change neither the file nor what is being written to it.     *)
(* What such a step of a thread has to show is in QuietStep; the four      *)
(* steps of a change of the file are dealt with one by one.                *)
(***************************************************************************)
EXTENDS KillSwitch, TLAPS

-----------------------------------------------------------------------------
(* Types *)

Places == {"idle", "start", "ready", "balance", "day", "gate", "check", "trade",
           "activate", "reset", "write", "replace", "snapshot", "cancel"}

LEMMA ThreadFields ==
    ASSUME NEW x \in ThreadType
    PROVE  /\ x.at \in Places /\ x.change \in {"activate", "reset", "day", None}
           /\ x.copy \in FileType /\ x.eq \in Nat /\ x.day \in Nat /\ x.ks \in BOOLEAN
  BY DEF ThreadType, Places

LEMMA AtType ==
    ASSUME NEW x \in ThreadType, NEW l \in Places
    PROVE  [x EXCEPT !.at = l] \in ThreadType
  BY DEF ThreadType, Places

LEMMA IdleType ==
    /\ Idle \in ThreadType
    /\ \A l \in Places : [Idle EXCEPT !.at = l] \in ThreadType
  BY DEF Idle, Blank, ThreadType, FileType, Places

LEMMA MovesTo ==
    ASSUME TypeOK, NEW t \in Threads, NEW x, Moves(t, x)
    PROVE  /\ th'[t] = x
           /\ \A s \in Threads : s # t => th'[s] = th[s]
  BY DEF TypeOK, Moves

LEMMA MovesType ==
    ASSUME TypeOK, NEW t \in Threads, NEW x \in ThreadType, Moves(t, x)
    PROVE  th' \in [Threads -> ThreadType]
  BY DEF TypeOK, Moves

LEMMA GoesType ==
    ASSUME TypeOK, NEW t \in Threads, NEW l \in Places, Goes(t, l)
    PROVE  th' \in [Threads -> ThreadType]
<1>1. [th[t] EXCEPT !.at = l] \in ThreadType
  BY AtType DEF TypeOK
<1>2. Moves(t, [th[t] EXCEPT !.at = l])
  BY DEF Goes
<1> QED  BY <1>1, <1>2, MovesType

LEMMA LeavesType ==
    ASSUME TypeOK, NEW t \in Threads, NEW l \in Places, Leaves(t, l)
    PROVE  /\ th' \in [Threads -> ThreadType]
           /\ lock' \in Threads \cup {None} /\ warned' \subseteq Threads
<1>1. PICK x \in ThreadType : Moves(t, x)
  BY IdleType DEF Leaves
<1> QED  BY <1>1, MovesType DEF Leaves, TypeOK

LEMMA RaisesType ==
    ASSUME TypeOK, NEW t \in Threads, Raises(t)
    PROVE  /\ th' \in [Threads -> ThreadType]
           /\ lock' \in Threads \cup {None} /\ warned' \subseteq Threads
<1>1. CASE Leaves(t, "idle")
  BY <1>1, LeavesType DEF Places
<1>2. CASE Leaves(t, "start")
  BY <1>2, LeavesType DEF Places
<1> QED  BY <1>1, <1>2 DEF Raises

LEMMA LoadsType ==
    ASSUME TypeOK, NEW t \in Threads, NEW change \in {"activate", "reset", "day"},
           NEW f \in FileType, LoadsFor(t, change, f)
    PROVE  TypeOK'
<1>1. [th[t] EXCEPT !.at = "write", !.change = change, !.copy = f] \in ThreadType
  BY DEF TypeOK, ThreadType
<1>2. th' \in [Threads -> ThreadType]
  BY <1>1, MovesType DEF LoadsFor
<1>3. mixed' \in BOOLEAN
  BY DEF LoadsFor, TypeOK
<1> QED  BY <1>2, <1>3 DEF TypeOK, LoadsFor, world

LEMMA UnresolvedType ==
    ASSUME TypeOK, NEW x \in Traders
    PROVE  Unresolved(x) \subseteq Orders
  BY DEF TypeOK, Unresolved

LEMMA OwnType == ASSUME NEW t \in Threads PROVE Own(t) \in Traders
  BY DEF Own, Traders, Threads

LEMMA ChangesType ==
    ASSUME TypeOK, NEW t \in Threads, Changes(t)
    PROVE  TypeOK'
<1>0. th[t] \in ThreadType /\ file \in FileType
  BY DEF TypeOK
<1>1. CASE ActivateLoads(t)
  <2>1. [file EXCEPT !.active = TRUE] \in FileType
    BY <1>0 DEF FileType
  <2> QED  BY <1>1, <2>1, LoadsType DEF ActivateLoads
<1>2. CASE ResetLoads(t)
  <2>1. [file EXCEPT !.active = FALSE] \in FileType
    BY <1>0 DEF FileType
  <2> QED  BY <1>2, <2>1, LoadsType DEF ResetLoads
<1>3. CASE DayLoads(t)
  <2>1. [file EXCEPT !.day = th[t].day, !.start = th[t].eq] \in FileType
    BY <1>0, ThreadFields DEF FileType
  <2> QED  BY <1>3, <2>1, LoadsType DEF DayLoads
<1>4. CASE DayKnown(t)
  <2>1. [th[t] EXCEPT !.at = "gate", !.day = 0] \in ThreadType
    BY <1>0 DEF ThreadType
  <2> QED  BY <1>4, <2>1, MovesType DEF DayKnown, TypeOK, world, history
<1>5. CASE Writes(t)
  <2>1. th' \in [Threads -> ThreadType]
    BY <1>5, GoesType DEF Writes, Places
  <2>2. tmp' \subseteq FileType
    BY <1>5, <1>0, ThreadFields DEF Writes
  <2> QED  BY <1>5, <2>1, <2>2 DEF Writes, TypeOK, world, history
<1>6. CASE Replaces(t)
  <2>1. After(t) \in Places
    BY DEF After, Places
  <2>2. Blank \in FileType
    BY DEF Blank, FileType
  <2>3. [th[t] EXCEPT !.at = After(t), !.change = None, !.copy = Blank, !.day = 0,
                      !.ks = (After(t) = "trade")] \in ThreadType
    BY <1>0, <2>1, <2>2 DEF ThreadType, Places
  <2>4. th' \in [Threads -> ThreadType]
    BY <1>6, <2>3, IdleType, MovesType DEF Replaces
  <2>5. file' \in FileType /\ tmp' \subseteq FileType
    BY <1>6 DEF Replaces, TypeOK
  <2>6. /\ ord' \in [Orders -> {"new", "open", "tried", "closed"}]
        /\ latch' \in BOOLEAN /\ warned' \subseteq Threads
    <3>1. CASE th[t].change = "activate"
      BY <1>6, <3>1 DEF Replaces, TypeOK
    <3>2. CASE th[t].change = "reset"
      BY <1>6, <3>2 DEF Replaces, TypeOK
    <3>3. CASE th[t].change \notin {"activate", "reset"}
      BY <1>6, <3>3 DEF Replaces, TypeOK
    <3> QED  BY <3>1, <3>2, <3>3
  <2> QED  BY <1>6, <2>4, <2>5, <2>6 DEF Replaces, TypeOK
<1>7. CASE ReplaceFails(t)
  BY <1>7, RaisesType DEF ReplaceFails, TypeOK, world, history
<1> QED  BY <1>1, <1>2, <1>3, <1>4, <1>5, <1>6, <1>7 DEF Changes

LEMMA CycleType ==
    ASSUME TypeOK, NEW t \in Threads, CycleStep(t)
    PROVE  TypeOK'
<1>0. th[t] \in ThreadType /\ Unresolved(Own(t)) \subseteq Orders
  BY OwnType, UnresolvedType DEF TypeOK
<1>1. CASE MakesTrader(t)
  <2>1. th' \in [Threads -> ThreadType]
    BY <1>1, GoesType DEF MakesTrader, Places
  <2>2. pend' \in [Traders -> SUBSET Orders] /\ warned' \subseteq Threads
    BY <1>1 DEF MakesTrader, Warn, TypeOK
  <2> QED  BY <1>1, <2>1, <2>2 DEF MakesTrader, TypeOK, world
<1>2. CASE EntersCycle(t)
  <2>1. [th[t] EXCEPT !.at = "balance", !.day = today] \in ThreadType
    BY <1>0 DEF TypeOK, ThreadType
  <2>2. th' \in [Threads -> ThreadType]
    BY <1>2, <2>1, MovesType DEF EntersCycle
  <2>3. pend' \in [Traders -> SUBSET Orders] /\ lock' \in Threads \cup {None}
    BY <1>0, <1>2 DEF EntersCycle, TypeOK
  <2> QED  BY <1>2, <2>2, <2>3 DEF EntersCycle, TypeOK, world, history
<1>3. CASE ReadsBalance(t)
  <2>1. [th[t] EXCEPT !.at = "day", !.eq = equity] \in ThreadType
    BY <1>0 DEF TypeOK, ThreadType
  <2> QED  BY <1>3, <2>1, MovesType DEF ReadsBalance, TypeOK, world, history
<1>4. CASE BalanceFails(t)
  BY <1>4, LeavesType DEF BalanceFails, TypeOK, world, history, Places
<1>5. CASE Gate(t)
  <2>1. file.active \in BOOLEAN
    BY DEF TypeOK, FileType
  <2>2. [th[t] EXCEPT !.at = IF file.active THEN "trade" ELSE "check",
                      !.eq = IF file.active THEN 0 ELSE @,
                      !.ks = file.active] \in ThreadType
    BY <1>0, <2>1 DEF ThreadType
  <2> QED  BY <1>5, <2>2, MovesType DEF Gate, TypeOK, world, history
<1>6. CASE CycleChecks(t)
  <2>1. PICK l \in {"activate", "trade"} : Moves(t, [th[t] EXCEPT !.at = l, !.eq = 0])
    BY <1>6 DEF CycleChecks
  <2>2. [th[t] EXCEPT !.at = l, !.eq = 0] \in ThreadType
    BY <1>0 DEF ThreadType
  <2>3. th' \in [Threads -> ThreadType]
    BY <2>1, <2>2, MovesType
  <2> QED  BY <1>6, <2>3 DEF CycleChecks, TypeOK, world, history
<1>7. CASE CycleEnds(t)
  <2>1. /\ th' \in [Threads -> ThreadType]
        /\ lock' \in Threads \cup {None} /\ warned' \subseteq Threads
    BY <1>7, LeavesType DEF CycleEnds, Places
  <2>2. pend' \in [Traders -> SUBSET Orders] /\ saved' \subseteq Orders
    BY <1>0, <1>7 DEF CycleEnds, TypeOK
  <2> QED  BY <1>7, <2>1, <2>2 DEF CycleEnds, TypeOK, world, history
<1>8. CASE CycleRaises(t)
  BY <1>8, RaisesType DEF CycleRaises, TypeOK, world, history
<1> QED  BY <1>1, <1>2, <1>3, <1>4, <1>5, <1>6, <1>7, <1>8 DEF CycleStep

LEMMA WatcherType ==
    ASSUME TypeOK, NEW t \in Threads, WatcherStep(t) \/ Wakes(t)
    PROVE  TypeOK'
<1>0. th[t] \in ThreadType
  BY DEF TypeOK
<1>1. CASE Wakes(t)
  <2>1. th' \in [Threads -> ThreadType]
    BY <1>1, IdleType, MovesType DEF Wakes, Places
  <2> QED  BY <1>1, <2>1 DEF Wakes, TypeOK, world, history
<1>2. CASE ReadsEquity(t)
  <2>1. [th[t] EXCEPT !.at = "check", !.eq = equity] \in ThreadType
    BY <1>0 DEF TypeOK, ThreadType
  <2> QED  BY <1>2, <2>1, MovesType DEF ReadsEquity, TypeOK, world, history
<1>3. CASE EquityFails(t)
  BY <1>3, LeavesType DEF EquityFails, TypeOK, world, history, Places
<1>4. CASE WatcherChecks(t)
  <2>1. [Idle EXCEPT !.at = IF Loss(file, th[t].eq) THEN "activate" ELSE "idle"]
            \in ThreadType
    BY IdleType DEF Places
  <2> QED  BY <1>4, <2>1, MovesType DEF WatcherChecks, TypeOK, world, history
<1>5. CASE Cancels(t)
  <2>1. th' \in [Threads -> ThreadType]
    BY <1>5, GoesType DEF Cancels, Places
  <2>2. /\ ord' \in [Orders -> {"new", "open", "tried", "closed"}]
        /\ warned' \subseteq Threads
    BY <1>5 DEF Cancels, Warn, TypeOK
  <2> QED  BY <1>5, <2>1, <2>2 DEF Cancels, TypeOK
<1> QED  BY <1>1, <1>2, <1>3, <1>4, <1>5 DEF WatcherStep

LEMMA StartsType ==
    ASSUME TypeOK, NEW t \in Jobs, Starts(t) \/ \E o \in Orders : Buys(t, o)
    PROVE  TypeOK'
<1>0. t \in Threads
  BY DEF Threads
<1>1. CASE Starts(t)
  <2>1. PICK x \in ThreadType : Moves(t, x)
    BY <1>1, IdleType DEF Starts, Places
  <2>2. th' \in [Threads -> ThreadType] /\ events' \in Nat
    BY <1>0, <1>1, <2>1, MovesType DEF Starts, TypeOK
  <2> QED  BY <1>1, <2>2 DEF Starts, TypeOK, world, history
<1>2. ASSUME NEW o \in Orders, Buys(t, o) PROVE TypeOK'
  BY <1>2 DEF Buys, TypeOK, Traders, history
<1> QED  BY <1>1, <1>2

LEMMA WorldType ==
    ASSUME TypeOK, \/ LoopStarts \/ LoopStops \/ EquityMoves \/ Midnight \/ Crashes
                   \/ \E o \in Orders : OrderCloses(o)
    PROVE  TypeOK'
<1>1. CASE LoopStarts
  BY <1>1 DEF LoopStarts, TypeOK, Traders, world, history
<1>2. CASE LoopStops
  BY <1>2 DEF LoopStops, TypeOK, world, history
<1>3. CASE EquityMoves
  BY <1>3, ConstantsAssumption DEF EquityMoves, TypeOK, history
<1>4. CASE Midnight
  BY <1>4 DEF Midnight, TypeOK, history
<1>5. CASE Crashes
  <2>1. th' \in [Threads -> ThreadType]
    BY <1>5, IdleType DEF Crashes
  <2>2. pend' \in [Traders -> SUBSET Orders]
    BY <1>5 DEF Crashes
  <2>3. on' \in BOOLEAN /\ lock' \in Threads \cup {None}
    BY <1>5 DEF Crashes
  <2>4. events' \in Nat
    BY <1>5 DEF Crashes, TypeOK
  <2> QED  BY <1>5, <2>1, <2>2, <2>3, <2>4 DEF Crashes, TypeOK, world
<1>6. ASSUME NEW o \in Orders, OrderCloses(o) PROVE TypeOK'
  BY <1>6 DEF OrderCloses, TypeOK, history
<1> QED  BY <1>1, <1>2, <1>3, <1>4, <1>5, <1>6

LEMMA InitType == Init => TypeOK
<1> SUFFICES ASSUME Init PROVE TypeOK
  OBVIOUS
<1>1. equity \in Nat
  BY ConstantsAssumption DEF Init
<1>2. file \in FileType
  <2>1. PICK n \in 0 .. MaxLevel : file = [Blank EXCEPT !.start = n]
    BY DEF Init
  <2>2. n \in Nat
    BY ConstantsAssumption
  <2> QED  BY <2>1, <2>2 DEF Blank, FileType
<1>3. th \in [Threads -> ThreadType]
  BY IdleType DEF Init
<1>4. /\ ord \in [Orders -> {"new", "open", "tried", "closed"}]
      /\ pend \in [Traders -> SUBSET Orders]
  BY DEF Init
<1> QED  BY <1>1, <1>2, <1>3, <1>4 DEF Init, TypeOK

LEMMA NextType == TypeOK /\ [Next]_vars => TypeOK'
<1> SUFFICES ASSUME TypeOK, [Next]_vars PROVE TypeOK'
  OBVIOUS
<1>1. CASE UNCHANGED vars
  BY <1>1 DEF TypeOK, vars, world, history
<1>2. ASSUME NEW t \in Threads, ThreadStep(t) \/ Wakes(t) PROVE TypeOK'
  BY <1>2, ChangesType, CycleType, WatcherType DEF ThreadStep
<1>3. ASSUME NEW t \in Jobs, Starts(t) \/ \E o \in Orders : Buys(t, o) PROVE TypeOK'
  BY <1>3, StartsType
<1> QED  BY <1>1, <1>2, <1>3, WorldType DEF Next

(* Every variable keeps its type, whatever the constants are.              *)
THEOREM TypeCorrect == Spec => []TypeOK
  BY InitType, NextType, PTL DEF Spec

-----------------------------------------------------------------------------
(* The invariant *)

Held   == {"balance", "day", "gate", "check", "activate", "write", "replace", "trade"}
Inside == {"balance", "day", "gate", "trade"}

Safe ==
    /\ OnlyHolder /\ ChangeKinds
    /\ SwitchExact /\ ChangesAgree /\ WarnedStop

IInv == TypeOK /\ Safe

(* A step of t that does not write, and after which t is not changing the  *)
(* file:                                                                   *)
(* it may take or release the lock and be warned, and has to say why the   *)
(* place it goes to with x is one for a thread with, or without, the lock  *)
(* and with, or without, a warning.                                        *)
LEMMA QuietStep ==
    ASSUME IInv, NEW t \in Threads, NEW x, Moves(t, x),
           x.at \notin {"write", "replace"},
           UNCHANGED <<file, tmp, latch, mixed>>,
           \/ lock' = lock
           \/ lock = None /\ lock' = t
           \/ lock = t /\ lock' = None,
           x.at \in Inside => lock' = t,
           lock' = t => x.at \in Held,
           warned' \subseteq warned \cup {t},
           mixed \/ t \notin warned' \/ /\ latch
                                        /\ x.at = "trade" => x.ks
                                        /\ x.at = "check" => lock' # t
    PROVE  Safe'
<1>1. th'[t] = x /\ \A s \in Threads : s # t => th'[s] = th[s]
  BY MovesTo DEF IInv
<1>2. None \notin Threads
  BY ConstantsAssumption
<1>3. \A s \in Threads : s # t => (lock' = s <=> lock = s)
  BY <1>2
<1>4. OnlyHolder'
  BY <1>1, <1>3 DEF IInv, Safe, OnlyHolder, Held, Inside
<1>5. \A s \in Threads : Changing(s)' => s # t /\ Changing(s) /\ th'[s] = th[s]
  BY <1>1 DEF Changing
<1>6. ChangeKinds'
  BY <1>3, <1>5 DEF IInv, Safe, ChangeKinds
<1>7. SwitchExact'
  BY DEF IInv, Safe, SwitchExact
<1>8. ChangesAgree'
  BY <1>5 DEF IInv, Safe, ChangesAgree, Agrees, At
<1>9. WarnedStop'
  <2> SUFFICES ASSUME ~mixed, NEW s \in warned'
               PROVE  /\ latch
                      /\ th'[s].at = "trade" => th'[s].ks
                      /\ th'[s].at = "check" => lock' # s
    BY DEF WarnedStop, At
  <2>1. CASE s = t
    BY <1>1, <2>1
  <2>2. CASE s # t
    <3>1. s \in warned /\ s \in Threads
      BY <2>2 DEF IInv, TypeOK
    <3> QED  BY <1>1, <1>3, <2>2, <3>1 DEF IInv, Safe, WarnedStop, At
  <2> QED  BY <2>1, <2>2
<1> QED  BY <1>4, <1>6, <1>7, <1>8, <1>9 DEF Safe

(* A step that leaves the threads and all that Safe speaks of alone.       *)
LEMMA OtherStep ==
    ASSUME IInv, UNCHANGED <<file, tmp, lock, th, latch, mixed, warned>>
    PROVE  Safe'
  BY DEF IInv, Safe, OnlyHolder, ChangeKinds, SwitchExact, ChangesAgree, WarnedStop,
         Changing, At, Agrees

LEMMA LeavesStep ==
    ASSUME IInv, NEW t \in Threads, NEW l \in {"idle", "start"}, Leaves(t, l),
           UNCHANGED <<file, tmp, latch, mixed>>
    PROVE  Safe'
<1>1. PICK x : Moves(t, x) /\ x.at = l
  BY DEF Leaves, Idle
<1>2. lock' # t /\ (lock' = lock \/ (lock = t /\ lock' = None))
  <2>1. None # t
    BY ConstantsAssumption
  <2>2. CASE lock = t
    BY <2>1, <2>2 DEF Leaves
  <2>3. CASE lock # t
    <3>1. lock' = lock
      BY <2>3 DEF Leaves
    <3> QED  BY <2>3, <3>1
  <2> QED  BY <2>2, <2>3
<1>3. warned' \subseteq warned \cup {t} /\ t \notin warned'
  BY DEF Leaves
<1> QED  BY <1>1, <1>2, <1>3, QuietStep DEF Inside

LEMMA RaisesStep ==
    ASSUME IInv, NEW t \in Threads, Raises(t),
           UNCHANGED <<file, tmp, latch, mixed>>
    PROVE  Safe'
  BY LeavesStep DEF Raises

LEMMA CycleSafe ==
    ASSUME IInv, NEW t \in Threads, CycleStep(t)
    PROVE  Safe'
<1>0. /\ th[t] \in ThreadType /\ None \notin Threads
      /\ mixed \/ t \notin warned \/ latch
      /\ th[t].at \in Inside => lock = t
      /\ lock = t => th[t].at \in Held
  BY ConstantsAssumption DEF IInv, TypeOK, Safe, WarnedStop, OnlyHolder, Inside, Held
<1>1. CASE MakesTrader(t)
  <2>1. PICK x : Moves(t, x) /\ x.at = "ready"
    BY <1>0, <1>1 DEF MakesTrader, Goes, ThreadType
  <2>2. lock' = lock /\ lock # t
    BY <1>0, <1>1 DEF MakesTrader, At, Held
  <2>3. warned' \subseteq warned \cup {t} /\ (t \notin warned' \/ latch)
    BY <1>1 DEF MakesTrader, Warn
  <2> QED  BY <1>1, <2>1, <2>2, <2>3, QuietStep DEF MakesTrader, Inside
<1>2. CASE EntersCycle(t)
  <2>1. PICK x : Moves(t, x) /\ x.at = "balance"
    <3>1. [th[t] EXCEPT !.at = "balance", !.day = today].at = "balance"
      BY <1>0 DEF ThreadType
    <3> QED  BY <1>2, <3>1 DEF EntersCycle
  <2> QED  BY <1>0, <1>2, <2>1, QuietStep DEF EntersCycle, Held, history
<1>3. CASE ReadsBalance(t)
  <2>1. PICK x : Moves(t, x) /\ x.at = "day"
    <3>1. [th[t] EXCEPT !.at = "day", !.eq = equity].at = "day"
      BY <1>0 DEF ThreadType
    <3> QED  BY <1>3, <3>1 DEF ReadsBalance
  <2>2. lock' = lock /\ lock = t
    BY <1>0, <1>3 DEF ReadsBalance, At, Inside
  <2> QED  BY <1>0, <1>3, <2>1, <2>2, QuietStep DEF ReadsBalance, Held, history
<1>4. CASE BalanceFails(t)
  BY <1>4, LeavesStep DEF BalanceFails, history
<1>5. CASE Gate(t)
  <2>0. file.active \in BOOLEAN
    BY DEF IInv, TypeOK, FileType
  <2>1. PICK x : /\ Moves(t, x) /\ x.ks = file.active
                 /\ x.at = IF file.active THEN "trade" ELSE "check"
    <3> DEFINE y == [th[t] EXCEPT !.at = IF file.active THEN "trade" ELSE "check",
                                  !.eq = IF file.active THEN 0 ELSE @,
                                  !.ks = file.active]
    <3>1. y.ks = file.active /\ y.at = IF file.active THEN "trade" ELSE "check"
      BY <1>0, <2>0 DEF ThreadType
    <3>2. Moves(t, y)
      BY <1>5 DEF Gate
    <3> QED  BY <3>1, <3>2
  <2>2. lock' = lock /\ lock = t
    BY <1>0, <1>5 DEF Gate, At, Inside
  <2>3. mixed \/ file.active = latch
    BY DEF IInv, Safe, SwitchExact
  <2>4. x.at \in {"trade", "check"}
    BY <2>1
  <2>5. mixed \/ t \notin warned \/ (latch /\ file.active /\ x.at = "trade" /\ x.ks)
    BY <1>0, <2>1, <2>3
  <2> QED  BY <1>5, <2>1, <2>2, <2>4, <2>5, QuietStep DEF Gate, Held, history
<1>6. CASE CycleChecks(t)
  <2>1. PICK x : Moves(t, x) /\ x.at \in {"activate", "trade"}
    <3>1. PICK l \in {"activate", "trade"} : Moves(t, [th[t] EXCEPT !.at = l, !.eq = 0])
      BY <1>6 DEF CycleChecks
    <3>2. [th[t] EXCEPT !.at = l, !.eq = 0].at = l
      BY <1>0 DEF ThreadType
    <3> QED  BY <3>1, <3>2
  <2>2. lock' = lock /\ lock = t
    BY <1>6 DEF CycleChecks
  <2>3. mixed \/ t \notin warned
    BY <1>6 DEF CycleChecks, IInv, Safe, WarnedStop
  <2> QED  BY <1>6, <2>1, <2>2, <2>3, QuietStep DEF CycleChecks, Held, history
<1>7. CASE CycleEnds(t)
  BY <1>7, LeavesStep DEF CycleEnds, history
<1>8. CASE CycleRaises(t)
  BY <1>8, RaisesStep DEF CycleRaises, history
<1> QED  BY <1>1, <1>2, <1>3, <1>4, <1>5, <1>6, <1>7, <1>8 DEF CycleStep

LEMMA WatcherSafe ==
    ASSUME IInv, NEW t \in Threads, WatcherStep(t) \/ Wakes(t)
    PROVE  Safe'
<1>0. /\ th[t] \in ThreadType
      /\ mixed \/ t \notin warned \/ latch
      /\ lock = t => th[t].at \in Held
  BY DEF IInv, TypeOK, Safe, WarnedStop, OnlyHolder, Held
<1>1. CASE Wakes(t)
  <2>1. PICK x : Moves(t, x) /\ x.at = "snapshot"
    BY <1>1 DEF Wakes, Idle
  <2>2. lock' = lock /\ lock # t
    BY <1>0, <1>1 DEF Wakes, At, Held
  <2> QED  BY <1>0, <1>1, <2>1, <2>2, QuietStep DEF Wakes, Inside, history
<1>2. CASE ReadsEquity(t)
  <2>1. PICK x : Moves(t, x) /\ x.at = "check"
    <3>1. [th[t] EXCEPT !.at = "check", !.eq = equity].at = "check"
      BY <1>0 DEF ThreadType
    <3> QED  BY <1>2, <3>1 DEF ReadsEquity
  <2>2. lock' = lock /\ lock # t
    BY <1>0, <1>2 DEF ReadsEquity, At, Held
  <2> QED  BY <1>0, <1>2, <2>1, <2>2, QuietStep DEF ReadsEquity, Inside, history
<1>3. CASE EquityFails(t)
  BY <1>3, LeavesStep DEF EquityFails, history
<1>4. CASE WatcherChecks(t)
  <2>1. PICK x : Moves(t, x) /\ x.at \in {"activate", "idle"}
    BY <1>4 DEF WatcherChecks, Idle
  <2>2. lock' = lock /\ lock # t
    BY <1>4 DEF WatcherChecks
  <2> QED  BY <1>0, <1>4, <2>1, <2>2, QuietStep DEF WatcherChecks, Inside, history
<1>5. CASE Cancels(t)
  <2>1. PICK x : Moves(t, x) /\ x.at = "ready"
    BY <1>0, <1>5 DEF Cancels, Goes, ThreadType
  <2>2. lock' = lock /\ lock # t
    BY <1>5, ConstantsAssumption DEF Cancels
  <2>3. warned' \subseteq warned \cup {t} /\ (t \notin warned' \/ latch)
    BY <1>5 DEF Cancels, Warn
  <2> QED  BY <1>5, <2>1, <2>2, <2>3, QuietStep DEF Cancels, Inside
<1> QED  BY <1>1, <1>2, <1>3, <1>4, <1>5 DEF WatcherStep

LEMMA StartsSafe ==
    ASSUME IInv, NEW t \in Jobs, Starts(t)
    PROVE  Safe'
<1>0. t \in Threads
  BY DEF Threads
<1>1. PICK x : Moves(t, x) /\ x.at \in {"start", "reset", "activate"}
  BY DEF Starts, Idle
<1>2. lock' = lock /\ lock # t
  BY <1>0 DEF Starts, At, IInv, Safe, OnlyHolder
<1>3. mixed \/ t \notin warned \/ latch
  BY DEF IInv, Safe, WarnedStop
<1> QED  BY <1>0, <1>1, <1>2, <1>3, QuietStep DEF Starts, Inside, history

-----------------------------------------------------------------------------
(* Changes of the file *)

LEMMA LoadsSafe ==
    ASSUME IInv, NEW t \in Threads, NEW change \in {"activate", "reset", "day"},
           NEW f, LoadsFor(t, change, f), ~Changing(t),
           change = "day" => lock = t,
           change = "reset" => lock # t,
           lock = t => change # "reset",
           mixed \/ Agrees(change, f)
    PROVE  Safe'
<1>1. th[t] \in ThreadType
  BY DEF IInv, TypeOK
<1>2. PICK x : Moves(t, x) /\ x.at = "write" /\ x.change = change /\ x.copy = f
  <2> DEFINE y == [th[t] EXCEPT !.at = "write", !.change = change, !.copy = f]
  <2>1. y.at = "write" /\ y.change = change /\ y.copy = f
    BY <1>1 DEF ThreadType
  <2>2. Moves(t, y)
    BY DEF LoadsFor
  <2> QED  BY <2>1, <2>2
<1>3. th'[t] = x /\ \A s \in Threads : s # t => th'[s] = th[s]
  BY <1>2, MovesTo DEF IInv
<1>4. /\ UNCHANGED <<file, tmp, lock, latch, warned>>
      /\ mixed' = (mixed \/ \E s \in Threads : Changing(s) /\ th[s].change # change)
  BY DEF LoadsFor
<1>5. OnlyHolder'
  BY <1>2, <1>3, <1>4 DEF IInv, Safe, OnlyHolder
<1>6. ChangeKinds'
  BY <1>2, <1>3, <1>4 DEF IInv, Safe, ChangeKinds, Changing
<1>7. SwitchExact'
  BY <1>4 DEF IInv, Safe, SwitchExact
<1>8. ChangesAgree'
  <2> SUFFICES ASSUME ~mixed' PROVE ChangesAgree'
    BY DEF ChangesAgree
  <2>1. ~mixed /\ \A s \in Threads : Changing(s) => th[s].change = change
    BY <1>4
  <2>2. \A s \in Threads : Changing(s)' => th'[s].change = change
    BY <1>2, <1>3, <2>1 DEF Changing
  <2>3. ASSUME NEW s \in Threads, Changing(s)'
        PROVE  /\ Agrees(th[s].change, th[s].copy)'
               /\ At(s, "replace")' => \A g \in tmp' : Agrees(th[s].change, g)'
    <3>1. CASE s = t
      BY <1>2, <1>3, <1>4, <2>1, <3>1 DEF Agrees, At
    <3>2. CASE s # t
      BY <1>3, <1>4, <2>1, <2>3, <3>2 DEF IInv, Safe, ChangesAgree, Changing, Agrees, At
    <3> QED  BY <3>1, <3>2
  <2> QED  BY <2>2, <2>3 DEF ChangesAgree
<1>9. WarnedStop'
  <2>1. \A s \in warned : s \in Threads
    BY DEF IInv, TypeOK
  <2> QED  BY <1>2, <1>3, <1>4, <2>1 DEF IInv, Safe, WarnedStop, At
<1> QED  BY <1>5, <1>6, <1>7, <1>8, <1>9 DEF Safe

LEMMA WritesSafe ==
    ASSUME IInv, NEW t \in Threads, Writes(t)
    PROVE  Safe'
<1>1. th[t] \in ThreadType
  BY DEF IInv, TypeOK
<1>2. PICK x : /\ Moves(t, x) /\ x.at = "replace"
               /\ x.change = th[t].change /\ x.copy = th[t].copy
  BY <1>1 DEF Writes, Goes, ThreadType
<1>3. th'[t] = x /\ \A s \in Threads : s # t => th'[s] = th[s]
  BY <1>2, MovesTo DEF IInv
<1>4. /\ UNCHANGED <<file, lock, latch, warned, mixed>>
      /\ tmp' = {th[t].copy} /\ th[t].at = "write"
  BY DEF Writes, history, At
<1>5. OnlyHolder'
  BY <1>2, <1>3, <1>4 DEF IInv, Safe, OnlyHolder
<1>6. ChangeKinds'
  BY <1>2, <1>3, <1>4 DEF IInv, Safe, ChangeKinds, Changing
<1>7. SwitchExact'
  BY <1>4 DEF IInv, Safe, SwitchExact
<1>8. ChangesAgree'
  <2> SUFFICES ASSUME ~mixed PROVE ChangesAgree'
    BY <1>4 DEF ChangesAgree
  <2>1. \A s \in Threads : Changing(s)' =>
            Changing(s) /\ th'[s].change = th[s].change /\ th'[s].copy = th[s].copy
    BY <1>2, <1>3, <1>4 DEF Changing
  <2>2. Changing(t)
    BY <1>4 DEF Changing
  <2>3. Agrees(th[t].change, th[t].copy)
    BY <2>2 DEF IInv, Safe, ChangesAgree
  <2>4. ASSUME NEW s \in Threads, Changing(s)'
        PROVE  /\ Agrees(th[s].change, th[s].copy)'
               /\ \A g \in tmp' : Agrees(th[s].change, g)'
               /\ \A r \in Threads : Changing(r)' => th'[r].change = th'[s].change
    <3>1. th[s].change = th[t].change /\ Agrees(th[s].change, th[s].copy)
      BY <2>1, <2>2, <2>4 DEF IInv, Safe, ChangesAgree
    <3>2. \A r \in Threads : Changing(r) => th[r].change = th[s].change
      BY <2>1, <2>4 DEF IInv, Safe, ChangesAgree
    <3> QED  BY <1>4, <2>1, <2>3, <2>4, <3>1, <3>2 DEF Agrees
  <2> QED  BY <2>4 DEF ChangesAgree
<1>9. WarnedStop'
  <2>1. \A s \in warned : s \in Threads
    BY DEF IInv, TypeOK
  <2> QED  BY <1>2, <1>3, <1>4, <2>1 DEF IInv, Safe, WarnedStop, At
<1> QED  BY <1>5, <1>6, <1>7, <1>8, <1>9 DEF Safe

LEMMA ReplacesSafe ==
    ASSUME IInv, NEW t \in Threads, Replaces(t)
    PROVE  Safe'
<1>1. th[t] \in ThreadType /\ Changing(t) /\ th[t].at = "replace"
  BY DEF IInv, TypeOK, Replaces, Changing, At
<1>2. /\ th[t].change \in {"activate", "reset", "day"}
      /\ th[t].change = "day" => lock = t
      /\ th[t].change = "reset" => lock # t
  BY <1>1 DEF IInv, Safe, ChangeKinds
<1>3. PICK x : Moves(t, x) /\ x.at = After(t) /\ (x.at = "trade" => x.ks)
  <2> DEFINE y == [th[t] EXCEPT !.at = After(t), !.change = None, !.copy = Blank,
                                !.day = 0, !.ks = (After(t) = "trade")]
  <2>1. y.at = After(t) /\ (y.at = "trade" => y.ks)
    BY <1>1 DEF ThreadType
  <2>2. Idle.at = "idle"
    BY DEF Idle
  <2> HIDE DEF y
  <2>3. CASE After(t) = "idle"
    BY <2>2, <2>3 DEF Replaces
  <2>4. CASE After(t) # "idle"
    <3>1. Moves(t, y)
      BY <2>4 DEF Replaces, y
    <3> QED  BY <2>1, <3>1
  <2> QED  BY <2>3, <2>4
<1>4. th'[t] = x /\ \A s \in Threads : s # t => th'[s] = th[s]
  BY <1>3, MovesTo DEF IInv
<1>5. /\ x.at \in {"gate", "trade", "cancel", "start", "idle"}
      /\ x.at \in {"gate", "trade"} <=> lock = t
  BY <1>2, <1>3 DEF After, Threads
<1>6. /\ file' \in tmp /\ tmp' = {} /\ lock' = lock /\ mixed' = mixed
      /\ th[t].change = "activate" => latch' = TRUE /\ warned' = warned
      /\ th[t].change = "reset" => latch' = FALSE /\ warned' = {}
      /\ th[t].change = "day" => latch' = latch /\ warned' = warned
  BY <1>2 DEF Replaces
<1>7. OnlyHolder'
  BY <1>4, <1>5, <1>6 DEF IInv, Safe, OnlyHolder
<1>8. \A s \in Threads : Changing(s)' => s # t /\ Changing(s) /\ th'[s] = th[s]
  BY <1>4, <1>5 DEF Changing
<1>9. ChangeKinds'
  BY <1>6, <1>8 DEF IInv, Safe, ChangeKinds
<1>10. SwitchExact'
  <2> SUFFICES ASSUME ~mixed PROVE file'.active = latch'
    BY <1>6 DEF SwitchExact
  <2>1. Agrees(th[t].change, file')
    BY <1>1, <1>6 DEF IInv, Safe, ChangesAgree, At
  <2> QED  BY <1>2, <1>6, <2>1 DEF Agrees
<1>11. ChangesAgree'
  <2> SUFFICES ASSUME ~mixed, NEW s \in Threads, Changing(s)'
               PROVE  /\ Agrees(th[s].change, th[s].copy)'
                      /\ \A r \in Threads : Changing(r)' => th'[r].change = th'[s].change
    BY <1>6 DEF ChangesAgree
  <2>1. th[s].change = th[t].change /\ Agrees(th[s].change, th[s].copy)
    BY <1>1, <1>8 DEF IInv, Safe, ChangesAgree
  <2>2. \A r \in Threads : Changing(r) => th[r].change = th[s].change
    BY <1>8 DEF IInv, Safe, ChangesAgree
  <2>3. Agrees(th[s].change, th[s].copy)'
    BY <1>2, <1>6, <1>8, <2>1 DEF Agrees
  <2> QED  BY <1>8, <2>2, <2>3
<1>12. WarnedStop'
  <2> SUFFICES ASSUME ~mixed, NEW s \in warned'
               PROVE  /\ latch'
                      /\ th'[s].at = "trade" => th'[s].ks
                      /\ th'[s].at = "check" => lock # s
    BY <1>6 DEF WarnedStop, At
  <2>1. s \in warned /\ s \in Threads /\ latch'
    BY <1>2, <1>6 DEF IInv, TypeOK, Safe, WarnedStop
  <2> QED  BY <1>3, <1>4, <1>5, <2>1 DEF IInv, Safe, WarnedStop, At
<1> QED  BY <1>7, <1>9, <1>10, <1>11, <1>12 DEF Safe

LEMMA ChangesSafe ==
    ASSUME IInv, NEW t \in Threads, Changes(t)
    PROVE  Safe'
<1>0. /\ th[t] \in ThreadType /\ file \in FileType
      /\ mixed \/ (file.active = latch /\ (t \notin warned \/ latch))
      /\ th[t].at \in Inside => lock = t
      /\ lock = t => th[t].at \in Held
  BY DEF IInv, TypeOK, Safe, SwitchExact, WarnedStop, OnlyHolder, Inside, Held
<1>1. CASE ActivateLoads(t)
  <2>1. Agrees("activate", [file EXCEPT !.active = TRUE])
    BY <1>0 DEF Agrees, FileType
  <2> QED  BY <1>1, <2>1, LoadsSafe DEF ActivateLoads, Changing, At
<1>2. CASE ResetLoads(t)
  <2>1. Agrees("reset", [file EXCEPT !.active = FALSE])
    BY <1>0 DEF Agrees, FileType
  <2>2. lock # t
    BY <1>0, <1>2 DEF ResetLoads, At, Held
  <2> QED  BY <1>2, <2>1, <2>2, LoadsSafe DEF ResetLoads, Changing, At
<1>3. CASE DayLoads(t)
  <2>1. mixed \/ Agrees("day", [file EXCEPT !.day = th[t].day, !.start = th[t].eq])
    BY <1>0 DEF Agrees, FileType
  <2>2. lock = t
    BY <1>0, <1>3 DEF DayLoads, At, Inside
  <2> QED  BY <1>3, <2>1, <2>2, LoadsSafe DEF DayLoads, Changing, At
<1>4. CASE DayKnown(t)
  <2>1. PICK x : Moves(t, x) /\ x.at = "gate"
    <3>1. [th[t] EXCEPT !.at = "gate", !.day = 0].at = "gate"
      BY <1>0 DEF ThreadType
    <3> QED  BY <1>4, <3>1 DEF DayKnown
  <2>2. lock' = lock /\ lock = t
    BY <1>0, <1>4 DEF DayKnown, At, Inside
  <2> QED  BY <1>0, <1>4, <2>1, <2>2, QuietStep DEF DayKnown, Held, history
<1>5. CASE Writes(t)
  BY <1>5, WritesSafe
<1>6. CASE Replaces(t)
  BY <1>6, ReplacesSafe
<1>7. CASE ReplaceFails(t)
  BY <1>7, RaisesStep DEF ReplaceFails, history
<1> QED  BY <1>1, <1>2, <1>3, <1>4, <1>5, <1>6, <1>7 DEF Changes

-----------------------------------------------------------------------------
(* The theorems *)

LEMMA InitInv == Init => IInv
<1> SUFFICES ASSUME Init PROVE Safe
  BY InitType DEF IInv
<1>1. \A t \in Threads : th[t].at = "idle" /\ ~Changing(t) /\ lock # t
  BY ConstantsAssumption DEF Init, Idle, Changing
<1>2. file.active = latch /\ warned = {}
  BY DEF Init, Blank
<1> QED  BY <1>1, <1>2 DEF Safe, OnlyHolder, ChangeKinds, SwitchExact, ChangesAgree,
                           WarnedStop

LEMMA CrashSafe == IInv /\ Crashes => Safe'
<1> SUFFICES ASSUME IInv, Crashes PROVE Safe'
  OBVIOUS
<1>1. \A t \in Threads : th'[t].at = "idle" /\ ~Changing(t)' /\ lock' # t
  BY ConstantsAssumption DEF Crashes, Idle, Changing
<1>2. UNCHANGED <<file, latch, mixed>> /\ warned' = {}
  BY DEF Crashes
<1> QED  BY <1>1, <1>2 DEF IInv, Safe, OnlyHolder, ChangeKinds, SwitchExact,
                                 ChangesAgree, WarnedStop, At

LEMMA NextInv == IInv /\ [Next]_vars => IInv'
<1> SUFFICES ASSUME IInv, [Next]_vars PROVE Safe'
  BY NextType DEF IInv
<1>1. CASE UNCHANGED vars
  BY <1>1, OtherStep DEF vars, world, history
<1>2. ASSUME NEW t \in Threads, ThreadStep(t) \/ Wakes(t) PROVE Safe'
  BY <1>2, ChangesSafe, CycleSafe, WatcherSafe DEF ThreadStep
<1>3. ASSUME NEW t \in Jobs, Starts(t) PROVE Safe'
  BY <1>3, StartsSafe
<1>4. ASSUME NEW t \in Jobs, NEW o \in Orders, Buys(t, o) PROVE Safe'
  BY <1>4, OtherStep DEF Buys, history
<1>5. CASE LoopStarts \/ LoopStops \/ EquityMoves \/ Midnight
  BY <1>5, OtherStep DEF LoopStarts, LoopStops, EquityMoves, Midnight, history
<1>6. ASSUME NEW o \in Orders, OrderCloses(o) PROVE Safe'
  BY <1>6, OtherStep DEF OrderCloses, history
<1> QED  BY <1>1, <1>2, <1>3, <1>4, <1>5, <1>6, CrashSafe DEF Next

(* As long as no two changes of different kinds overlap, the file says     *)
(* active exactly from an activation to a reset, for any number of         *)
(* threads, failed saves and crashes.                                      *)
THEOREM SwitchIsExact == Spec => []SwitchExact
<1>1. IInv => SwitchExact
  BY DEF IInv, Safe
<1> QED  BY <1>1, InitInv, NextInv, PTL DEF Spec

(* And then a cycle asked for after an activation buys nothing until a     *)
(* reset.                                                                  *)
THEOREM WarnedBuysNothing == Spec => BuysBlocked
<1>1. ASSUME IInv, NEW s \in Jobs, NEW t \in Jobs, NEW o \in Orders, NEW i \in Orders,
             Buys(s, i), o \in pend'[t] \ pend[t]
      PROVE  mixed \/ t \notin warned
  <2>1. At(s, "trade") /\ ~th[s].ks /\ (t # s => pend'[t] = pend[t])
    BY <1>1 DEF Buys, IInv, TypeOK, Traders
  <2>2. t = s
    BY <1>1, <2>1
  <2> QED  BY <1>1, <2>1, <2>2 DEF IInv, Safe, WarnedStop
<1>2. ASSUME IInv, [Next]_vars, NEW o \in Orders, ord[o] = "new", ord'[o] # "new"
      PROVE  \E s \in Jobs, i \in Orders : Buys(s, i)
  <2>1. ord' # ord
    BY <1>2
  <2>2. ASSUME NEW t \in Threads, Changes(t) PROVE FALSE
    <3>1. ASSUME Replaces(t) PROVE FALSE
      <4>1. o \in Orders /\ ord[o] = "new"
        BY <1>2
      <4>2. CASE th[t].change = "activate"
        BY <1>2, <3>1, <4>2 DEF Replaces
      <4>3. CASE th[t].change = "reset"
        BY <1>2, <3>1, <4>3 DEF Replaces
      <4>4. CASE th[t].change \notin {"activate", "reset"}
        BY <2>1, <3>1, <4>4 DEF Replaces
      <4> QED  BY <4>2, <4>3, <4>4
    <3> QED  BY <2>1, <2>2, <3>1 DEF Changes, ActivateLoads, ResetLoads, DayLoads, LoadsFor,
                                     DayKnown, Writes, ReplaceFails, world
  <2>3. ASSUME NEW t \in Threads, CycleStep(t) PROVE FALSE
    BY <2>1, <2>3 DEF CycleStep, MakesTrader, EntersCycle, ReadsBalance, BalanceFails, Gate,
                      CycleChecks, CycleEnds, CycleRaises, world
  <2>4. ASSUME NEW t \in Threads, WatcherStep(t) \/ Wakes(t) PROVE FALSE
    <3>1. ~Cancels(t)
      BY <1>2 DEF Cancels, Working
    <3> QED  BY <2>1, <2>4, <3>1 DEF WatcherStep, Wakes, ReadsEquity, EquityFails,
                                     WatcherChecks, world
  <2>5. ASSUME NEW t \in Jobs, Starts(t) PROVE FALSE
    BY <2>1, <2>5 DEF Starts, world
  <2>6. ASSUME NEW i \in Orders, OrderCloses(i) PROVE FALSE
    BY <1>2, <2>6 DEF OrderCloses, IInv, TypeOK, Working
  <2>7. ~(LoopStarts \/ LoopStops \/ EquityMoves \/ Midnight \/ Crashes)
    BY <2>1 DEF LoopStarts, LoopStops, EquityMoves, Midnight, Crashes, world
  <2>8. ~UNCHANGED vars
    BY <2>1 DEF vars, world
  <2> QED  BY <1>2, <2>2, <2>3, <2>4, <2>5, <2>6, <2>7, <2>8 DEF Next, ThreadStep
<1>3. IInv /\ [Next]_vars =>
        \A t \in Jobs, o \in Orders :
            /\ o \in pend'[t] \ pend[t]
            /\ ord[o] = "new" /\ ord'[o] # "new"
            => mixed \/ t \notin warned
  BY <1>1, <1>2
<1> QED  BY <1>3, InitInv, NextInv, PTL DEF Spec, BuysBlocked
=============================================================================
