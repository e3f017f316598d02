------------------------------ MODULE TraderStore ------------------------------
(***************************************************************************)
(* The files ledger.json and pending_orders.json and the Trader objects    *)
(* that read and write them (local/localapp/trader.py, runner.py,          *)
(* intraday_loop.py, gui.py).                                              *)
(*                                                                         *)
(* run_cycle, the settlement after the close and a RECONCILE_NOW command   *)
(* each make a Trader of their own, which reads both files when it is made *)
(* and is thrown away at the end.  The intraday loop keeps one Trader for  *)
(* the whole session.  A Trader changes its own copy; Trader._save writes  *)
(* the copy back, one file after the other, at the end of a cycle and      *)
(* after a reconciliation that found something to deduct, and nowhere      *)
(* else.  Every save is made under _CYCLE_LOCK.  A run_cycle or            *)
(* RECONCILE_NOW Trader, and that of the loop, is made outside of it.      *)
(*                                                                         *)
(* One ledger key; orders of one unit that execute as a whole.  How a      *)
(* Trader follows partial executions is the subject of OrderFills.         *)
(***************************************************************************)
EXTENDS Naturals

CONSTANTS
    Buys, Sells,  \* order numbers, by side
    Jobs,         \* threads that run cycles, settlements and commands
    Loop,         \* the intraday loop
    MaxMishaps,   \* bound: crashes, sales by hand, saves that are stale or
                  \* raise between the two files, and whether a notice
                  \* crossed a cycle of the loop, in total
    MaxDeducted   \* bound: units deducted by reconciliations

Orders  == Buys \cup Sells
Traders == Jobs \cup {Loop}
None    == "none"

ASSUME ConstantsAssumption ==
    /\ Buys \cap Sells = {}
    /\ Loop \notin Jobs
    /\ None \notin Traders
    /\ MaxMishaps \in Nat
    /\ MaxDeducted \in Nat

VARIABLES
    \* KIS
    book,        \* order -> "new", "working", "filled" or "cancelled"
    position,    \* units KIS holds
    \* the files
    ledgerFile,  \* [qty, has]: the quantity of the key and, as a record of
                 \* how it came about, how often each order's fill is in it
    pendingFile, \* the orders of pending_orders.json
    \* the program
    lock,        \* the Trader whose thread holds _CYCLE_LOCK
    act,         \* Trader -> [pc, kind, todo, kis]
    mem,         \* Trader -> its copy: [ledger, pending]
    notice,      \* the execution notice in the loop's hands: [pc, order]
    \* bounds and history
    crashes, external,
    crossed,     \* orders whose notice was in hand during a cycle of the loop
    deducted,    \* units that reconciliations took out as sold by hand
    stale,       \* Traders made before the last write of another one
    staleSaves,  \* saves of a stale copy
    tornSaves    \* saves that ended between the two files

kisVars  == <<book, position>>
files    == <<ledgerFile, pendingFile>>
noticeVars == <<notice, crossed>>
bounds   == <<crashes, external>>
saveVars == <<stale, staleSaves, tornSaves>>
vars == <<kisVars, files, lock, act, mem, noticeVars, bounds, deducted, saveVars>>

Ledger == [qty : Nat, has : [Orders -> Nat]]
Copy   == [ledger : Ledger, pending : SUBSET Orders]

-----------------------------------------------------------------------------
(* _apply_fill on a copy of the ledger. *)
Filled(l, o) ==
    [qty |-> IF o \in Buys THEN l.qty + 1 ELSE IF l.qty > 0 THEN l.qty - 1 ELSE 0,
     has |-> [l.has EXCEPT ![o] = @ + 1]]

Off   == [pc |-> "off", kind |-> None, todo |-> {}, kis |-> 0]
Empty == [ledger |-> [qty |-> 0, has |-> [o \in Orders |-> 0]], pending |-> {}]
Idle  == [pc |-> "idle", order |-> None]
Files == [ledger |-> ledgerFile, pending |-> pendingFile]

Init ==
    /\ book = [o \in Orders |-> "new"]
    /\ \E q \in {0, 1} :
          /\ position = q
          /\ ledgerFile = [qty |-> q, has |-> [o \in Orders |-> 0]]
    /\ pendingFile = {}
    /\ lock = None
    /\ act = [t \in Traders |-> Off]
    /\ mem = [t \in Traders |-> Empty]
    /\ notice = Idle /\ crossed = {}
    /\ crashes = 0 /\ external = 0
    /\ deducted = 0
    /\ stale = {}
    /\ staleSaves = 0 /\ tornSaves = 0

(* The thread of Trader t goes on with x; its copy becomes c. *)
Moves(t, x) == act' = [act EXCEPT ![t] = x]
Holds(t, c) == mem' = [mem EXCEPT ![t] = c]

Crossings == IF crossed = {} THEN 0 ELSE 1
MayFail == crashes + external + staleSaves + tornSaves + Crossings < MaxMishaps

Pc(t) == act[t].pc
Saving == \E t \in Traders : Pc(t) = "wrote"

-----------------------------------------------------------------------------
(* Making and dropping Traders *)

(* run_cycle or RECONCILE_NOW makes its Trader, without the lock: it reads *)
(* the ledger first ...                                                    *)
JobReadsLedger(t) ==
    /\ Pc(t) = "off" /\ t \in Jobs
    /\ \E k \in {"cycle", "manual"} : Moves(t, [Off EXCEPT !.pc = "reading", !.kind = k])
    /\ Holds(t, [Empty EXCEPT !.ledger = ledgerFile])
    /\ stale' = stale \ {t}
    /\ UNCHANGED <<kisVars, files, lock, noticeVars, bounds, deducted, staleSaves, tornSaves>>

(* ... as intraday_loop.start does for the session, ... *)
LoopReadsLedger ==
    /\ Pc(Loop) = "off"
    /\ Moves(Loop, [Off EXCEPT !.pc = "reading", !.kind = "loop"])
    /\ Holds(Loop, [Empty EXCEPT !.ledger = ledgerFile])
    /\ stale' = stale \ {Loop}
    /\ UNCHANGED <<kisVars, files, lock, noticeVars, bounds, deducted, staleSaves, tornSaves>>

(* ... and the pending orders after it. *)
ReadsPending(t) ==
    /\ Pc(t) = "reading"
    /\ Moves(t, [act[t] EXCEPT !.pc = "made"])
    /\ Holds(t, [mem[t] EXCEPT !.pending = pendingFile])
    /\ UNCHANGED <<kisVars, files, lock, noticeVars, bounds, deducted, saveVars>>

(* The loop stops at the close; its copy is not saved.  A notice still in  *)
(* hand keeps the Trader: it is gone once that is done.                    *)
LoopStops ==
    /\ Pc(Loop) = "made" /\ notice = Idle
    /\ Moves(Loop, Off)
    /\ Holds(Loop, Empty)
    /\ UNCHANGED <<kisVars, files, lock, noticeVars, bounds, deducted, saveVars>>

(* The thread of t is done and releases the lock: a job drops its Trader,  *)
(* the loop keeps it.                                                      *)
Leaves(t) ==
    /\ lock' = None
    /\ \/ /\ t = Loop
          /\ Moves(t, [Off EXCEPT !.pc = "made", !.kind = "loop"])
          /\ UNCHANGED mem
       \/ t # Loop /\ Moves(t, Off) /\ Holds(t, Empty)

(* Cycles and settlements report under the lock, RECONCILE_NOW after it.   *)
GoesToReport(t) ==
    IF act[t].kind = "manual" THEN Leaves(t)
    ELSE /\ Moves(t, [act[t] EXCEPT !.pc = "report", !.kis = 0])
         /\ UNCHANGED <<lock, mem>>

-----------------------------------------------------------------------------
(* The loop *)

(* An execution notice of an order its copy has pending.  The handler      *)
(* takes no lock for this: a cycle of the monitor may be under way.        *)
LoopMatches(o) ==
    /\ notice = Idle
    /\ Pc(Loop) \notin {"off", "reading"}
    /\ o \in mem[Loop].pending /\ book[o] = "filled"
    /\ notice' = [pc |-> "matched", order |-> o]
    /\ \/ lock # Loop /\ UNCHANGED crossed
       \/ lock = Loop /\ MayFail /\ crossed' = crossed \cup {o}
    /\ UNCHANGED <<kisVars, files, lock, act, mem, bounds, deducted, saveVars>>

(* _apply_fill changes the ledger under the lock, and releases it ...      *)
LoopApplies(o) ==
    /\ notice = [pc |-> "matched", order |-> o]
    /\ Pc(Loop) = "made" /\ lock = None
    /\ Holds(Loop, [mem[Loop] EXCEPT !.ledger = Filled(@, o)])
    /\ notice' = [notice EXCEPT !.pc = "applied"]
    /\ UNCHANGED <<kisVars, files, lock, act, crossed, bounds, deducted, saveVars>>

(* ... before the order leaves the pending ones, without it.  In between   *)
(* the loss is evaluated: the trigger may run a cycle of this Trader, and  *)
(* so may the monitor.                                                     *)
LoopRemoves(o) ==
    /\ notice = [pc |-> "applied", order |-> o]
    /\ Holds(Loop, [mem[Loop] EXCEPT !.pending = @ \ {o}])
    /\ notice' = Idle
    /\ UNCHANGED <<kisVars, files, lock, act, crossed, bounds, deducted, saveVars>>

(* KIS accepts an order; the Trader registers it, or its reply is lost. *)
Sends(t, o) ==
    /\ book[o] = "new"
    /\ book' = [book EXCEPT ![o] = "working"]
    /\ \/ Holds(t, [mem[t] EXCEPT !.pending = @ \cup {o}])
       \/ UNCHANGED mem
    /\ UNCHANGED <<position, files, lock, act, noticeVars, bounds, deducted, saveVars>>

(* A stop loss. *)
LoopSells(o) ==
    /\ Pc(Loop) = "made" /\ lock = None
    /\ o \in Sells /\ mem[Loop].ledger.qty > 0
    /\ Sends(Loop, o)

-----------------------------------------------------------------------------
(* Cycles *)

(* A run_cycle, or the kill switch trigger of the loop, gets the lock.     *)
EntersCycle(t) ==
    /\ Pc(t) = "made" /\ act[t].kind \in {"cycle", "loop"} /\ lock = None
    /\ lock' = t
    /\ Moves(t, [act[t] EXCEPT !.pc = "resolve", !.todo = mem[t].pending])
    /\ IF t = Loop /\ notice # Idle
          THEN MayFail /\ crossed' = crossed \cup {notice.order}
          ELSE UNCHANGED crossed
    /\ UNCHANGED <<kisVars, files, mem, notice, bounds, deducted, saveVars>>

(* Mutant: a filled order stays in the pending orders. *)
ResolvesKeeps(t, o) ==
    /\ Pc(t) \in {"resolve", "wait"} /\ o \in act[t].todo
    /\ Moves(t, [act[t] EXCEPT !.todo = @ \ {o}])
    /\ \/ book[o] = "filled" /\ Holds(t, [mem[t] EXCEPT !.ledger = Filled(@, o)])
       \/ UNCHANGED mem
    /\ UNCHANGED <<kisVars, files, lock, noticeVars, bounds, deducted, saveVars>>

(* Mutant: an order that the inquiry does not list counts as cancelled.    *)
ResolvesUnlisted(t, o) ==
    /\ Pc(t) \in {"resolve", "wait"} /\ o \in act[t].todo
    /\ Moves(t, [act[t] EXCEPT !.todo = @ \ {o}])
    /\ \/ book[o] = "filled" /\ Holds(t, [ledger |-> Filled(mem[t].ledger, o),
                                         pending |-> mem[t].pending \ {o}])
       \/ Holds(t, [mem[t] EXCEPT !.pending = @ \ {o}])
       \/ UNCHANGED mem
    /\ UNCHANGED <<kisVars, files, lock, noticeVars, bounds, deducted, saveVars>>

(* _resolve_pending asks for one order.  One that is still working or not  *)
(* listed, as those of other days, changes nothing; nor does a failed query. *)
Resolves(t, o) ==
    /\ Pc(t) \in {"resolve", "wait"} /\ o \in act[t].todo
    /\ Moves(t, [act[t] EXCEPT !.todo = @ \ {o}])
    /\ \/ /\ book[o] = "filled" /\ o \in mem[t].pending
          /\ Holds(t, [ledger |-> Filled(mem[t].ledger, o),
                       pending |-> mem[t].pending \ {o}])
       \/ /\ book[o] = "cancelled"
          /\ Holds(t, [mem[t] EXCEPT !.pending = @ \ {o}])
       \/ UNCHANGED mem
    /\ UNCHANGED <<kisVars, files, lock, noticeVars, bounds, deducted, saveVars>>

(* The handler has removed the order since the pass listed it: the fill is *)
(* added again and the missing key ends the cycle.                         *)
ResolvesGone(o) ==
    /\ Pc(Loop) \in {"resolve", "wait"} /\ o \in act[Loop].todo \ mem[Loop].pending
    /\ book[o] = "filled"
    /\ Holds(Loop, [mem[Loop] EXCEPT !.ledger = Filled(@, o)])
    /\ lock' = None
    /\ Moves(Loop, [Off EXCEPT !.pc = "made", !.kind = "loop"])
    /\ UNCHANGED <<kisVars, files, noticeVars, bounds, deducted, saveVars>>

InCycle(t) == act[t].kind \in {"cycle", "loop"}

(* The balance is read: the cycle goes on, or returns without a save.      *)
ChecksHealth(t) ==
    /\ Pc(t) = "resolve" /\ InCycle(t) /\ act[t].todo = {}
    /\ \/ Moves(t, [act[t] EXCEPT !.pc = "trade"]) /\ UNCHANGED <<lock, mem>>
       \/ Leaves(t)
    /\ UNCHANGED <<kisVars, files, noticeVars, bounds, deducted, saveVars>>

(* An exit of what is held or an entry of what is not; the trigger of the  *)
(* loop makes no entries.                                                  *)
Trades(t, o) ==
    /\ Pc(t) = "trade"
    /\ IF o \in Sells THEN mem[t].ledger.qty > 0
                      ELSE mem[t].ledger.qty = 0 /\ t # Loop
    /\ Sends(t, o)

WaitsPending(t) ==
    /\ Pc(t) = "trade"
    /\ Moves(t, [act[t] EXCEPT !.pc = "wait", !.todo = mem[t].pending])
    /\ UNCHANGED <<kisVars, files, lock, mem, noticeVars, bounds, deducted, saveVars>>

-----------------------------------------------------------------------------
(* Trader._save, under the lock *)

(* A write of t makes the copies of all other Traders stale. *)
Outdates(t) == stale' = stale \cup {u \in Traders \ {t} : Pc(u) # "off"}

SavesLedger(t) ==
    /\ Pc(t) = "wait" /\ act[t].todo = {}
    /\ \/ t \notin stale /\ UNCHANGED staleSaves
       \/ t \in stale /\ MayFail /\ staleSaves' = staleSaves + 1
    /\ ledgerFile' = mem[t].ledger
    /\ Outdates(t)
    /\ Moves(t, [act[t] EXCEPT !.pc = "wrote"])
    /\ UNCHANGED <<kisVars, pendingFile, lock, mem, noticeVars, bounds, deducted, tornSaves>>

SavesPending(t) ==
    /\ Pc(t) = "wrote"
    /\ pendingFile' = mem[t].pending
    /\ Outdates(t)
    /\ GoesToReport(t)
    /\ UNCHANGED <<kisVars, ledgerFile, noticeVars, bounds, deducted, staleSaves, tornSaves>>

(* Anything under the lock raises: what the copy of a job held is lost.    *)
Raises(t) ==
    /\ lock = t
    /\ Leaves(t)
    /\ \/ Pc(t) # "wrote" /\ UNCHANGED tornSaves
       \/ Pc(t) = "wrote" /\ MayFail /\ tornSaves' = tornSaves + 1
    /\ UNCHANGED <<kisVars, files, noticeVars, bounds, deducted, stale, staleSaves>>

-----------------------------------------------------------------------------
(* Settlement and RECONCILE_NOW *)

(* The settlement makes its Trader under the lock. *)
EntersSettlement(t) ==
    /\ Pc(t) = "off" /\ t \in Jobs /\ lock = None
    /\ lock' = t
    /\ Moves(t, [Off EXCEPT !.pc = "resolve", !.kind = "settle", !.todo = pendingFile])
    /\ Holds(t, Files)
    /\ stale' = stale \ {t}
    /\ UNCHANGED <<kisVars, files, noticeVars, bounds, deducted, staleSaves, tornSaves>>

(* reconcile_with_kis reads the balance: the settlement under the lock and *)
(* after resolving, the command before it takes the lock.                  *)
ReadsBalance(t) ==
    /\ \/ Pc(t) = "resolve" /\ act[t].kind = "settle" /\ act[t].todo = {}
       \/ Pc(t) = "made" /\ act[t].kind = "manual"
    /\ Moves(t, [act[t] EXCEPT !.pc = "balance", !.kis = position])
    /\ UNCHANGED <<kisVars, files, lock, mem, noticeVars, bounds, deducted, saveVars>>

Compares(t) == Pc(t) = "balance" /\ lock = (IF act[t].kind = "settle" THEN t ELSE None)

(* More in the ledger than KIS holds: it is cut to that, and saved.        *)
Deducts(t) ==
    /\ Compares(t) /\ act[t].kis < mem[t].ledger.qty
    /\ Holds(t, [mem[t] EXCEPT !.ledger.qty = act[t].kis])
    /\ deducted' = deducted + (mem[t].ledger.qty - act[t].kis)
    /\ deducted' <= MaxDeducted
    /\ lock' = t
    /\ Moves(t, [act[t] EXCEPT !.pc = "wait", !.kis = 0])
    /\ UNCHANGED <<kisVars, files, noticeVars, bounds, saveVars>>

(* No difference, or an external purchase: nothing is saved.               *)
FindsNoOrphan(t) ==
    /\ Compares(t) /\ act[t].kis >= mem[t].ledger.qty
    /\ GoesToReport(t)
    /\ UNCHANGED <<kisVars, files, noticeVars, bounds, deducted, saveVars>>

(* The decisions and the summary are logged and sent to the platform.      *)
Reports(t) ==
    /\ Pc(t) = "report"
    /\ Leaves(t)
    /\ UNCHANGED <<kisVars, files, noticeVars, bounds, deducted, saveVars>>

-----------------------------------------------------------------------------
(* The environment *)

Executes(o) ==
    /\ book[o] = "working"
    /\ book' = [book EXCEPT ![o] = "filled"]
    /\ \/ o \in Buys /\ position' = position + 1
       \/ o \in Sells /\ position > 0 /\ position' = position - 1
    /\ UNCHANGED <<files, lock, act, mem, noticeVars, bounds, deducted, saveVars>>

OrderCancelled(o) ==
    /\ book[o] = "working"
    /\ book' = [book EXCEPT ![o] = "cancelled"]
    /\ UNCHANGED <<position, files, lock, act, mem, noticeVars, bounds, deducted,
                   saveVars>>

(* The user sells a unit with another application of the broker. *)
SellsByHand ==
    /\ position > 0 /\ MayFail
    /\ position' = position - 1
    /\ external' = external + 1
    /\ UNCHANGED <<book, files, lock, act, mem, noticeVars, crashes, deducted,
                   saveVars>>

Crashes ==
    /\ MayFail
    /\ crashes' = crashes + 1
    /\ act' = [t \in Traders |-> Off]
    /\ mem' = [t \in Traders |-> Empty]
    /\ lock' = None
    /\ notice' = Idle
    /\ tornSaves' = IF Saving THEN tornSaves + 1 ELSE tornSaves
    /\ UNCHANGED <<kisVars, files, crossed, external, deducted, stale, staleSaves>>

LoopStep ==
    \/ LoopReadsLedger \/ LoopStops
    \/ \E o \in Orders : LoopMatches(o) \/ LoopApplies(o) \/ LoopRemoves(o)
                        \/ ResolvesGone(o) \/ LoopSells(o)

TraderStep(t) ==
    \/ JobReadsLedger(t) \/ ReadsPending(t)
    \/ EntersCycle(t) \/ ChecksHealth(t) \/ WaitsPending(t)
    \/ \E o \in Orders : Resolves(t, o) \/ Trades(t, o)
    \/ SavesLedger(t) \/ SavesPending(t) \/ Raises(t)
    \/ EntersSettlement(t) \/ ReadsBalance(t) \/ Deducts(t) \/ FindsNoOrphan(t)
    \/ Reports(t)

Next ==
    \/ \E t \in Traders : TraderStep(t)
    \/ LoopStep
    \/ \E o \in Orders : Executes(o) \/ OrderCancelled(o)
    \/ SellsByHand \/ Crashes

Spec == Init /\ [][Next]_vars

-----------------------------------------------------------------------------
ActType == [pc : {"off", "reading", "made", "resolve", "trade", "wait", "wrote",
                  "balance", "report"},
            kind : {"cycle", "manual", "settle", "loop", None},
            todo : SUBSET Orders, kis : Nat]

TypeOK ==
    /\ book \in [Orders -> {"new", "working", "filled", "cancelled"}]
    /\ position \in Nat
    /\ ledgerFile \in Ledger /\ pendingFile \subseteq Orders
    /\ lock \in Traders \cup {None}
    /\ act \in [Traders -> ActType]
    /\ mem \in [Traders -> Copy]
    /\ notice \in [pc : {"matched", "applied"}, order : Orders] \cup {Idle}
    /\ crossed \subseteq Orders
    /\ crashes \in Nat /\ external \in Nat /\ deducted \in Nat
    /\ stale \subseteq Traders
    /\ staleSaves \in Nat /\ tornSaves \in Nat

(* INV-FILL-1 for the files: whatever cycles, settlements and reloads did, *)
(* with fills resolved again after a cycle that did not save, the ledger   *)
(* file holds the fill of an order at most once, only if KIS executed it,  *)
(* and then the order no longer waits in the pending file.  Excepted are a *)
(* save torn between the files, a save of a stale copy, and the orders     *)
(* whose notice was in hand during a cycle of the loop, its own trigger's  *)
(* or the monitor's: _on_exec_event adds the fill (intraday_loop.py:138-   *)
(* 145, trader.py:308-367) and the cycle that runs before it deletes the   *)
(* pending order polls that order, adds the fill again and saves.          *)
RecordedOnce ==
    tornSaves = 0 /\ staleSaves = 0 =>
        \A o \in Orders \ crossed :
            /\ ledgerFile.has[o] <= 1
            /\ ledgerFile.has[o] = 1 =>
                  book[o] = "filled" /\ (o \in pendingFile => Saving)

(* The same of the copies that only fresh Traders hold, and why it holds:  *)
(* a cycle, settlement or save has the lock; ...                           *)
OnlyHolder ==
    \A t \in Traders :
        /\ Pc(t) \in {"resolve", "trade", "wait", "wrote", "report"} => lock = t
        /\ Pc(t) = "balance" /\ act[t].kind # "manual" => lock = t
        /\ lock = t => Pc(t) \notin {"off", "reading", "made"}
        /\ t = Loop => act[t].kind \in {"loop", None} /\ Pc(t) # "balance"

(* ... a notice in hand is of an executed order of the copy of the loop,   *)
(* still pending and in no cycle if none has crossed it, ...               *)
NoticeHeld ==
    notice # Idle =>
        /\ Pc(Loop) \notin {"off", "reading"}
        /\ book[notice.order] = "filled"
        /\ notice.pc = "applied" => mem[Loop].ledger.has[notice.order] > 0
        /\ notice.order \notin crossed =>
              lock # Loop /\ notice.order \in mem[Loop].pending

(* ... a pass asks only for orders its copy has pending, unless a notice   *)
(* crossed the cycle; ...                                                  *)
TodoPending ==
    \A t \in Traders :
        /\ act[t].todo \subseteq mem[t].pending \cup (IF t = Loop THEN crossed ELSE {})
        /\ Pc(t) \in {"off", "reading", "made"} => act[t].todo = {}

(* ... only executed orders are in a ledger; ...                           *)
FilledOnly ==
    \A o \in Orders :
        /\ ledgerFile.has[o] > 0 => book[o] = "filled"
        /\ \A t \in Traders : mem[t].ledger.has[o] > 0 => book[o] = "filled"

(* ... a save under way has written the ledger, of a copy still fresh; ... *)
HalfSaved ==
    \A t \in Traders : Pc(t) = "wrote" =>
        /\ ledgerFile = mem[t].ledger
        /\ staleSaves = 0 => t \notin stale

(* ... and a fresh copy has every order that is on file, each once unless  *)
(* it was read in the middle of a save.                                    *)
FreshCovers ==
    \A t \in Traders \ stale :
        /\ Pc(t) = "reading" => mem[t].ledger = ledgerFile
        /\ Pc(t) \notin {"off", "reading"} =>
              \A o \in Orders :
                  /\ ledgerFile.has[o] <= mem[t].ledger.has[o]
                  /\ o \in pendingFile => \/ o \in mem[t].pending
                                          \/ mem[t].ledger.has[o] > 0
                                          \/ book[o] = "cancelled"

Once(c, o) == c.ledger.has[o] <= 1 /\ (c.ledger.has[o] = 1 => o \notin c.pending)

(* Only the copy of the loop may have a fill while the order is pending:   *)
(* that of the notice in hand, before its order is removed.                *)
OnceIn(t, o) ==
    IF t = Loop /\ notice = [pc |-> "applied", order |-> o]
        THEN mem[t].ledger.has[o] = 1
        ELSE Once(mem[t], o)

FreshOnce ==
    tornSaves = 0 /\ staleSaves = 0 =>
        \A o \in Orders \ crossed :
            /\ ledgerFile.has[o] <= 1
            /\ ~Saving => Once(Files, o)
            /\ \A t \in Traders \ stale :
                  Pc(t) \notin {"off", "reading"} /\ (Saving => Pc(t) = "wrote") =>
                      OnceIn(t, o)

Known(o) == o \in pendingFile \/ ledgerFile.has[o] > 0

(* What is on file is not forgotten: an order leaves the pending file only *)
(* when its fill is in the ledger file or KIS has cancelled it, under the  *)
(* same exceptions.                                                        *)
SavedStays ==
    [][staleSaves' = 0 => \A o \in Orders :
            Known(o) => Known(o)' \/ book[o] = "cancelled"]_vars

=============================================================================
