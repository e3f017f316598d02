------------------------------ MODULE OrderFills ------------------------------
(***************************************************************************)
(* How one Trader of the intraday loop turns the executions of its orders  *)
(* into ledger entries (local/localapp/trader.py, intraday_loop.py).       *)
(*                                                                         *)
(* Three threads share the Trader's `pending` and `ledger` dictionaries:   *)
(*   "ws"   the execution-notice WebSocket, running _on_exec_event;        *)
(*   "mon"  the 60 second kill switch monitor, whose trigger handler runs  *)
(*          Trader.cycle, which polls every pending order over REST;       *)
(*   tick   the price feed, whose stop losses submit sell orders.          *)
(* A fill applied by "ws" may itself fire the kill switch and then run the *)
(* same trigger handler, nested, in the WebSocket thread.                  *)
(*                                                                         *)
(* Cycles and ledger writes hold _CYCLE_LOCK (an RLock).  What             *)
(* _on_exec_event reads and writes around its call of _apply_fill does     *)
(* not, and each such gap is a step boundary here.  The broker is the      *)
(* environment: it executes or cancels orders, and its notices may be      *)
(* lost, repeated or reordered.                                            *)
(***************************************************************************)
EXTENDS Naturals, Integers, FiniteSets

CONSTANTS
    Orders,      \* order numbers (ODNO)
    Loaded,      \* the orders that pending_orders.json held at start
    Keys,        \* ledger keys: a strategy, or a strategy and a symbol
    Stamps,      \* (STCK_CNTG_HOUR, CNTG_UNPR) pairs of a notice
    MaxQty,      \* bound: the largest position or order
    MaxDeliver,  \* bound: deliveries of one notice
    MaxPolls,    \* bound: rounds of _wait_pending in a cycle
    MaxResets    \* bound: kill switch resets by the user

None  == "none"
Sides == {"buy", "sell"}
Triggers == {"ws", "mon"}   \* the threads that can run the trigger handler

ASSUME ConstantsAssumption ==
    /\ Loaded \subseteq Orders
    /\ None \notin Orders
    /\ MaxQty \in Nat \ {0}
    /\ MaxDeliver \in Nat
    /\ MaxPolls \in Nat
    /\ MaxResets \in Nat

VARIABLES
    \* the broker
    order,      \* submitted order -> [key, side, qty], a partial function
    book,       \* order -> "new", "working" or "cancelled" at the broker
    done,       \* order -> quantity executed so far
    notices,    \* execution notice -> times delivered, a partial function
    \* the Trader
    pending,    \* the keys of self.pending
    soFar,      \* order -> p["filled_so_far"]
    seen,       \* order -> p["_dedup_keys"]
    ledger,     \* self.ledger: key -> quantity, a partial function
    intents,    \* keys with an active sell intent today
    soldToday,  \* IntradayStopManager._sold_today
    ksActive,   \* killswitch.json "active"
    resets,     \* number of resets so far
    \* the threads
    lock,       \* the cycle that holds _CYCLE_LOCK
    ws,         \* the notice handler: [pc, notice, already]
    hook,       \* thread -> progress of its loss evaluation and trigger
    cyc,        \* the running cycle: [pc, step, todo, keys, cur, ...]
    tick,       \* the order the price feed has sent and not yet registered
    \* history
    registered, \* orders that were ever pending
    applied,    \* order -> quantity passed to _apply_fill
    wsApplied,  \* notice -> times the WebSocket thread applied it
    polled      \* orders a REST answer was applied to

brokerVars  == <<order, book, done, notices>>
entryVars   == <<soFar, seen>>
gateVars    == <<intents, soldToday>>
ksVars      == <<ksActive, resets>>
history     == <<registered, applied, wsApplied, polled>>
vars == <<brokerVars, pending, entryVars, ledger, gateVars, ksVars,
          lock, ws, hook, cyc, tick, history>>

OrderRec == [key : Keys, side : Sides, qty : Nat \ {0}]
Notice   == [order : Orders, upTo : Nat \ {0}, qty : Nat \ {0}, stamp : Stamps]

-----------------------------------------------------------------------------
(* Dictionaries *)

Put(f, k, v) == [x \in DOMAIN f \cup {k} |-> IF x = k THEN v ELSE f[x]]
Drop(f, k)   == [x \in DOMAIN f \ {k} |-> f[x]]

(* The ledger after _apply_fill reflects q units of order o. *)
Bought(l, k, q) ==
    IF k \in DOMAIN l
    THEN IF l[k] + q <= 0 THEN l ELSE Put(l, k, l[k] + q)
    ELSE Put(l, k, q)

Sold(l, k, q) ==
    IF k \notin DOMAIN l THEN l
    ELSE IF l[k] - q <= 0 THEN Drop(l, k) ELSE Put(l, k, l[k] - q)

ApplyFill(l, o, q) ==
    IF order[o].side = "buy" THEN Bought(l, order[o].key, q)
                             ELSE Sold(l, order[o].key, q)

(* Mutant: any execution counts as a complete one. *)
OrderStatusAnyFill(o) ==
    IF book[o] = "cancelled" THEN "cancelled"
    ELSE IF done[o] > 0 THEN "filled" ELSE "submitted"

(* What order_status answers, and "unknown" when the query fails. *)
OrderStatus(o) ==
    IF book[o] = "cancelled" THEN "cancelled"
    ELSE IF done[o] >= order[o].qty THEN "filled"
    ELSE IF done[o] > 0 THEN "partial"
    ELSE "submitted"

LockFree == lock = None

-----------------------------------------------------------------------------
WsIdle == [pc |-> "idle", notice |-> None, already |-> 0]
CycOff == [pc |-> "off", step |-> "next", todo |-> {}, keys |-> {},
           cur |-> None, upTo |-> 0, polls |-> 0]

(* A Trader read from disk: its pending orders are working at the broker,  *)
(* a sell closes a held key and a buy opens one that is not held.          *)
Init ==
    /\ \E held \in SUBSET Keys : ledger \in [held -> 1..MaxQty]
    /\ order \in [Loaded -> [key : Keys, side : Sides, qty : 1..MaxQty]]
    /\ \A o \in Loaded :
          IF order[o].side = "buy"
          THEN order[o].key \notin DOMAIN ledger
          ELSE order[o].key \in DOMAIN ledger /\ order[o].qty = ledger[order[o].key]
    /\ book = [o \in Orders |-> IF o \in Loaded THEN "working" ELSE "new"]
    /\ done = [o \in Orders |-> 0]
    /\ notices = [n \in {} |-> 0]
    /\ pending = Loaded
    /\ soFar = [o \in Orders |-> 0]
    /\ seen = [o \in Orders |-> {}]
    /\ intents = {order[o].key : o \in {p \in Loaded : order[p].side = "sell"}}
    /\ soldToday = {}
    /\ ksActive = FALSE
    /\ resets = 0
    /\ lock = None
    /\ ws = WsIdle
    /\ hook = [t \in Triggers |-> "idle"]
    /\ cyc = CycOff
    /\ tick = None
    /\ registered = Loaded
    /\ applied = [o \in Orders |-> 0]
    /\ wsApplied = [n \in {} |-> 0]
    /\ polled = {}

-----------------------------------------------------------------------------
(* The broker *)

(* It executes part or all of a working order and emits a notice. *)
BrokerExecutes(o) ==
    /\ book[o] = "working"
    /\ \E q \in 1..(order[o].qty - done[o]), s \in Stamps :
          /\ done' = [done EXCEPT ![o] = @ + q]
          /\ notices' = Put(notices, [order |-> o, upTo |-> done[o] + q,
                                      qty |-> q, stamp |-> s], 0)
    /\ UNCHANGED <<order, book, pending, entryVars, ledger, gateVars, ksVars,
                   lock, ws, hook, cyc, tick, history>>

(* The rest of an order is cancelled: the market closes, or the user does. *)
BrokerCancels(o) ==
    /\ book[o] = "working" /\ done[o] < order[o].qty
    /\ book' = [book EXCEPT ![o] = "cancelled"]
    /\ UNCHANGED <<order, done, notices, pending, entryVars, ledger, gateVars,
                   ksVars, lock, ws, hook, cyc, tick, history>>

-----------------------------------------------------------------------------
(* The execution-notice thread: _on_exec_event *)

(* A notice arrives, for the first time or again.  One whose order is not  *)
(* pending, or whose (time, price, quantity) was seen, is ignored; the     *)
(* rest is remembered and `already` is read, all without the lock.         *)
FreshWithoutDedup(n) == n.order \in pending   \* mutant: no duplicate check
Fresh(n) == n.order \in pending /\ <<n.stamp, n.qty>> \notin seen[n.order]

WsReceives(n) ==
    /\ ws.pc = "idle"
    /\ notices[n] < MaxDeliver
    /\ notices' = [notices EXCEPT ![n] = @ + 1]
    /\ \/ /\ Fresh(n)
          /\ seen' = [seen EXCEPT ![n.order] = @ \cup {<<n.stamp, n.qty>>}]
          /\ ws' = [pc |-> "matched", notice |-> n, already |-> soFar[n.order]]
       \/ ~Fresh(n) /\ UNCHANGED <<seen, ws>>
    /\ UNCHANGED <<order, book, done, pending, soFar, ledger, gateVars, ksVars,
                   lock, hook, cyc, tick, history>>

(* Mutant: the running total is applied instead of the notice's quantity. *)
WsAppliesTotal ==
    LET n == ws.notice
        q == ws.already + n.qty
    IN
    /\ ws.pc = "matched" /\ LockFree
    /\ ledger' = ApplyFill(ledger, n.order, q)
    /\ applied' = [applied EXCEPT ![n.order] = @ + q]
    /\ wsApplied' = Put(wsApplied, n, 1)
    /\ ws' = [ws EXCEPT !.pc = "applied"]
    /\ UNCHANGED <<brokerVars, pending, entryVars, gateVars, ksVars,
                   lock, hook, cyc, tick, registered, polled>>

(* _apply_fill: the ledger changes under the lock. *)
WsApplies ==
    LET n == ws.notice IN
    /\ ws.pc = "matched" /\ LockFree
    /\ ledger' = ApplyFill(ledger, n.order, n.qty)
    /\ applied' = [applied EXCEPT ![n.order] = @ + n.qty]
    /\ wsApplied' = Put(wsApplied, n, IF n \in DOMAIN wsApplied
                                      THEN wsApplied[n] + 1 ELSE 1)
    /\ ws' = [ws EXCEPT !.pc = "applied"]
    /\ UNCHANGED <<brokerVars, pending, entryVars, gateVars, ksVars,
                   lock, hook, cyc, tick, registered, polled>>

(* The end of _apply_fill: outside a cycle, and while the switch is off,   *)
(* it goes on to evaluate the loss limit.                                  *)
WsChecksSwitch ==
    /\ ws.pc = "applied"
    /\ ws' = [ws EXCEPT !.pc = "finish"]
    /\ hook' = [hook EXCEPT !["ws"] = IF LockFree /\ ~ksActive THEN "eval" ELSE @]
    /\ UNCHANGED <<brokerVars, pending, entryVars, ledger, gateVars, ksVars,
                   lock, cyc, tick, history>>

(* Back in the handler, again without the lock: a complete order is        *)
(* deleted (the KeyError of a second deletion is caught by the caller), a  *)
(* partial one updated.                                                    *)
WsFinishes ==
    LET n == ws.notice
        total == ws.already + n.qty
    IN
    /\ ws.pc = "finish" /\ hook["ws"] = "idle"
    /\ \/ /\ total >= order[n.order].qty
          /\ pending' = pending \ {n.order}
          /\ UNCHANGED soFar
       \/ /\ total < order[n.order].qty
          /\ soFar' = [soFar EXCEPT ![n.order] = total]
          /\ UNCHANGED pending
    /\ ws' = WsIdle
    /\ UNCHANGED <<brokerVars, seen, ledger, gateVars, ksVars,
                   lock, hook, cyc, tick, history>>

-----------------------------------------------------------------------------
(* Kill switch evaluation and the trigger handler, in "ws" or in "mon" *)

(* The monitor's period elapsed; it looks at the switch first. *)
MonitorWakes ==
    /\ hook["mon"] = "idle" /\ ~ksActive
    /\ hook' = [hook EXCEPT !["mon"] = "eval"]
    /\ UNCHANGED <<brokerVars, pending, entryVars, ledger, gateVars, ksVars,
                   lock, ws, cyc, tick, history>>

(* The balance came back: the limit was not reached, or activate() is      *)
(* called, even if the other thread has just done so.                      *)
Evaluates(t) ==
    /\ hook[t] = "eval"
    /\ \/ /\ hook' = [hook EXCEPT ![t] = "idle"]
          /\ UNCHANGED ksActive
       \/ /\ hook' = [hook EXCEPT ![t] = "cancel"]
          /\ ksActive' = TRUE
    /\ UNCHANGED <<brokerVars, pending, entryVars, ledger, gateVars, resets,
                   lock, ws, cyc, tick, history>>

(* cancel_all_pending: each cancel may fail, and pending is left alone. *)
CancelsPending(t) ==
    /\ hook[t] = "cancel" /\ LockFree
    /\ \E gone \in SUBSET {o \in pending : book[o] = "working"
                                           /\ done[o] < order[o].qty} :
          book' = [o \in Orders |-> IF o \in gone THEN "cancelled" ELSE book[o]]
    /\ hook' = [hook EXCEPT ![t] = "enter"]
    /\ UNCHANGED <<order, done, notices, pending, entryVars, ledger, gateVars,
                   ksVars, lock, ws, cyc, tick, history>>

(* Trader.cycle takes the lock and starts with _resolve_pending. *)
EntersCycle(t) ==
    /\ hook[t] = "enter" /\ LockFree
    /\ lock' = t
    /\ hook' = [hook EXCEPT ![t] = "cycle"]
    /\ cyc' = [CycOff EXCEPT !.pc = "resolve", !.todo = pending]
    /\ UNCHANGED <<brokerVars, pending, entryVars, ledger, gateVars, ksVars,
                   ws, tick, history>>

(* The cycle returns or raises, and the lock is free again. *)
LeavesCycle ==
    /\ cyc' = CycOff
    /\ lock' = None
    /\ hook' = [hook EXCEPT ![lock] = "idle"]

(* The user resets the switch. *)
UserResets ==
    /\ ksActive /\ resets < MaxResets
    /\ ksActive' = FALSE
    /\ resets' = resets + 1
    /\ UNCHANGED <<brokerVars, pending, entryVars, ledger, gateVars,
                   lock, ws, hook, cyc, tick, history>>

-----------------------------------------------------------------------------
(* The cycle *)

Polls(o) == cyc.pc \in {"resolve", "poll"} /\ cyc.step = "next" /\ o \in cyc.todo

Reflects(o, q) ==
    /\ ledger' = ApplyFill(ledger, o, q)
    /\ applied' = [applied EXCEPT ![o] = @ + q]
    /\ polled' = polled \cup {o}
    /\ UNCHANGED <<registered, wsApplied>>

(* _resolve_pending asks for one order of its snapshot and applies the     *)
(* answer; the deletion or update of the entry is the next step.           *)
PollsFilled(o) ==
    /\ Polls(o) /\ OrderStatus(o) = "filled"
    /\ Reflects(o, done[o])
    /\ cyc' = [cyc EXCEPT !.todo = @ \ {o}, !.step = "delete", !.cur = o]
    /\ UNCHANGED <<brokerVars, pending, entryVars, gateVars, ksVars,
                   lock, ws, hook, tick>>

PollsPartial(o) ==
    /\ Polls(o) /\ OrderStatus(o) = "partial" /\ done[o] > soFar[o]
    /\ Reflects(o, done[o] - soFar[o])
    /\ cyc' = [cyc EXCEPT !.todo = @ \ {o}, !.step = "update", !.cur = o,
                          !.upTo = done[o]]
    /\ UNCHANGED <<brokerVars, pending, entryVars, gateVars, ksVars,
                   lock, ws, hook, tick>>

PollsCancelled(o) ==
    /\ Polls(o) /\ OrderStatus(o) = "cancelled"
    /\ cyc' = [cyc EXCEPT !.todo = @ \ {o}, !.step = "delete", !.cur = o]
    /\ UNCHANGED <<brokerVars, pending, entryVars, ledger, gateVars, ksVars,
                   lock, ws, hook, tick, history>>

(* Nothing new, or the query failed or did not list the order. *)
PollsNothing(o) ==
    /\ Polls(o)
    /\ cyc' = [cyc EXCEPT !.todo = @ \ {o}]
    /\ UNCHANGED <<brokerVars, pending, entryVars, ledger, gateVars, ksVars,
                   lock, ws, hook, tick, history>>

(* del self.pending[order_no]; if the WebSocket thread was first, the      *)
(* KeyError ends the cycle.                                                *)
PollDeletes ==
    /\ cyc.step = "delete"
    /\ \/ /\ cyc.cur \in pending
          /\ pending' = pending \ {cyc.cur}
          /\ cyc' = [cyc EXCEPT !.step = "next", !.cur = None]
          /\ UNCHANGED <<lock, hook>>
       \/ /\ cyc.cur \notin pending
          /\ LeavesCycle
          /\ UNCHANGED pending
    /\ UNCHANGED <<brokerVars, entryVars, ledger, gateVars, ksVars, ws, tick, history>>

PollUpdates ==
    /\ cyc.step = "update"
    /\ soFar' = [soFar EXCEPT ![cyc.cur] = cyc.upTo]
    /\ cyc' = [cyc EXCEPT !.step = "next", !.cur = None, !.upTo = 0]
    /\ UNCHANGED <<brokerVars, pending, seen, ledger, gateVars, ksVars,
                   lock, ws, hook, tick, history>>

(* After the first pass the balance is read: the exit pass, or the end.    *)
CycleChecksHealth ==
    /\ cyc.pc = "resolve" /\ cyc.step = "next" /\ cyc.todo = {}
    /\ \/ /\ cyc' = [cyc EXCEPT !.pc = "exit", !.keys = DOMAIN ledger]
          /\ UNCHANGED <<lock, hook>>
       \/ LeavesCycle
    /\ UNCHANGED <<brokerVars, pending, entryVars, ledger, gateVars, ksVars,
                   ws, tick, history>>

-----------------------------------------------------------------------------
(* Sell orders, from the exit pass and from the price feed *)

(* The broker accepted order o for the whole or the clamped position. *)
Accepted(o, k, q) ==
    /\ book[o] = "new"
    /\ order' = Put(order, o, [key |-> k, side |-> "sell", qty |-> q])
    /\ book' = [book EXCEPT ![o] = "working"]
    /\ UNCHANGED <<done, notices>>

(* _submit_sell: accepted; rejected (the intent is still marked as         *)
(* submitted); or an exception, after which the order may exist anyway.    *)
SubmitAccepted(o, k, q) == Accepted(o, k, q) /\ intents' = intents \cup {k}
SubmitRejected(k)       == intents' = intents \cup {k} /\ UNCHANGED brokerVars
SubmitRaised(o, k, q)   == /\ Accepted(o, k, q) \/ UNCHANGED brokerVars
                           /\ UNCHANGED intents

(* One key of the exit pass, unless a sell intent of today is active.      *)
Exits(k) == cyc.pc = "exit" /\ cyc.step = "next" /\ k \in cyc.keys

CycleSells(o, k) ==
    /\ Exits(k) /\ k \in DOMAIN ledger /\ k \notin intents
    /\ SubmitAccepted(o, k, ledger[k])
    /\ cyc' = [cyc EXCEPT !.keys = @ \ {k}, !.step = "sent", !.cur = o]
    /\ UNCHANGED <<pending, entryVars, ledger, soldToday, ksVars,
                   lock, ws, hook, tick, history>>

CycleSellFails(o, k) ==
    /\ Exits(k) /\ k \in DOMAIN ledger /\ k \notin intents
    /\ SubmitRejected(k) \/ SubmitRaised(o, k, ledger[k])
    /\ cyc' = [cyc EXCEPT !.keys = @ \ {k}]
    /\ UNCHANGED <<pending, entryVars, ledger, soldToday, ksVars,
                   lock, ws, hook, tick, history>>

CycleSkips(k) ==
    /\ Exits(k)
    /\ cyc' = [cyc EXCEPT !.keys = @ \ {k}]
    /\ UNCHANGED <<brokerVars, pending, entryVars, ledger, gateVars, ksVars,
                   lock, ws, hook, tick, history>>

(* _after_submit: the order becomes pending in a step of its own. *)
Registers(o) ==
    /\ pending' = pending \cup {o}
    /\ registered' = registered \cup {o}
    /\ UNCHANGED <<applied, wsApplied, polled>>

(* Mutant: _CYCLE_LOCK is a plain Lock, not an RLock. *)
CycleRegistersPlainLock ==
    /\ cyc.step = "sent" /\ LockFree
    /\ Registers(cyc.cur)
    /\ cyc' = [cyc EXCEPT !.step = "next", !.cur = None]
    /\ UNCHANGED <<brokerVars, entryVars, ledger, gateVars, ksVars,
                   lock, ws, hook, tick>>

CycleRegisters ==
    /\ cyc.step = "sent"
    /\ Registers(cyc.cur)
    /\ cyc' = [cyc EXCEPT !.step = "next", !.cur = None]
    /\ UNCHANGED <<brokerVars, entryVars, ledger, gateVars, ksVars,
                   lock, ws, hook, tick>>

(* _wait_pending: a round over what is pending, until time is up. *)
CycleWaits ==
    /\ cyc.pc = "exit" /\ cyc.step = "next" /\ cyc.keys = {}
    /\ cyc' = [cyc EXCEPT !.pc = "poll", !.polls = MaxPolls]
    /\ UNCHANGED <<brokerVars, pending, entryVars, ledger, gateVars, ksVars,
                   lock, ws, hook, tick, history>>

CyclePollsAgain ==
    /\ cyc.pc = "poll" /\ cyc.step = "next" /\ cyc.todo = {}
    /\ cyc.polls > 0 /\ pending # {}
    /\ cyc' = [cyc EXCEPT !.polls = @ - 1, !.todo = pending]
    /\ UNCHANGED <<brokerVars, pending, entryVars, ledger, gateVars, ksVars,
                   lock, ws, hook, tick, history>>

CycleEnds ==
    /\ cyc.pc = "poll" /\ cyc.step = "next" /\ cyc.todo = {}
    /\ LeavesCycle
    /\ UNCHANGED <<brokerVars, pending, entryVars, ledger, gateVars, ksVars,
                   ws, tick, history>>

(* on_tick: a stop loss triggers on a key not sold today, in the thread of *)
(* the price feed and without _CYCLE_LOCK.  The quantity is clamped to a   *)
(* (cached) broker balance.  The sell intents of the exit pass are not     *)
(* consulted.                                                              *)
StopLoss(k) == tick = None /\ k \in DOMAIN ledger /\ k \notin soldToday

TickSells(o, k) ==
    /\ StopLoss(k)
    /\ \E q \in 1..ledger[k] : SubmitAccepted(o, k, q)
    /\ tick' = o
    /\ soldToday' = soldToday \cup {k}
    /\ UNCHANGED <<pending, entryVars, ledger, ksVars, lock, ws, hook, cyc, history>>

(* A failed submission marks the key as sold all the same. *)
TickSellFails(o, k) ==
    /\ StopLoss(k)
    /\ SubmitRejected(k) \/ \E q \in 1..ledger[k] : SubmitRaised(o, k, q)
    /\ soldToday' = soldToday \cup {k}
    /\ UNCHANGED <<pending, entryVars, ledger, ksVars, lock, ws, hook, cyc, tick,
                   history>>

(* The balance no longer holds the symbol: the user sold it elsewhere. *)
TickFindsNothing(k) ==
    /\ StopLoss(k)
    /\ soldToday' = soldToday \cup {k}
    /\ UNCHANGED <<brokerVars, pending, entryVars, ledger, intents, ksVars,
                   lock, ws, hook, cyc, tick, history>>

TickRegisters ==
    /\ tick # None /\ LockFree
    /\ Registers(tick)
    /\ tick' = None
    /\ UNCHANGED <<brokerVars, entryVars, ledger, gateVars, ksVars,
                   lock, ws, hook, cyc>>

-----------------------------------------------------------------------------
WsStep == WsApplies \/ WsChecksSwitch \/ WsFinishes

TriggerStep(t) == Evaluates(t) \/ CancelsPending(t) \/ EntersCycle(t)

CycleStep ==
    \/ \E o \in Orders : \/ PollsFilled(o) \/ PollsPartial(o)
                         \/ PollsCancelled(o) \/ PollsNothing(o)
    \/ PollDeletes \/ PollUpdates \/ CycleChecksHealth
    \/ \E o \in Orders, k \in Keys : CycleSells(o, k) \/ CycleSellFails(o, k)
    \/ \E k \in Keys : CycleSkips(k)
    \/ CycleRegisters \/ CycleWaits \/ CyclePollsAgain \/ CycleEnds

TickStep ==
    \/ \E o \in Orders, k \in Keys : TickSells(o, k) \/ TickSellFails(o, k)
    \/ \E k \in Keys : TickFindsNothing(k)
    \/ TickRegisters

Next ==
    \/ \E o \in Orders : BrokerExecutes(o) \/ BrokerCancels(o)
    \/ \E n \in DOMAIN notices : WsReceives(n)
    \/ WsStep
    \/ MonitorWakes
    \/ \E t \in Triggers : TriggerStep(t)
    \/ UserResets
    \/ CycleStep
    \/ TickStep

Spec == Init /\ [][Next]_vars

(* Threads that have started a handler are scheduled until it returns.     *)
(* Nothing obliges the broker, the network or the market to act.           *)
Fairness ==
    /\ WF_vars(WsStep)
    /\ \A t \in Triggers : WF_vars(TriggerStep(t))
    /\ WF_vars(CycleStep)
    /\ WF_vars(TickRegisters)

FairSpec == Spec /\ Fairness

-----------------------------------------------------------------------------
BrokerType ==
    /\ DOMAIN order \subseteq Orders
    /\ \A o \in DOMAIN order : order[o] \in OrderRec
    /\ book \in [Orders -> {"new", "working", "cancelled"}]
    /\ \A o \in Orders : o \in DOMAIN order <=> book[o] # "new"
    /\ done \in [Orders -> Nat]
    /\ DOMAIN notices \subseteq Notice
    /\ \A n \in DOMAIN notices : n.order \in DOMAIN order /\ notices[n] \in Nat

TraderType ==
    /\ pending \subseteq DOMAIN order
    /\ soFar \in [Orders -> Nat]
    /\ seen \in [Orders -> SUBSET (Stamps \X (Nat \ {0}))]
    /\ DOMAIN ledger \subseteq Keys
    /\ \A k \in DOMAIN ledger : ledger[k] \in Int
    /\ intents \subseteq Keys /\ soldToday \subseteq Keys

SwitchType == ksActive \in BOOLEAN /\ resets \in Nat

WsType ==
    \/ ws = WsIdle
    \/ /\ ws \in [pc : {"matched", "applied", "finish"}, notice : Notice, already : Nat]
       /\ ws.notice \in DOMAIN notices

CycType ==
    /\ cyc \in [pc : {"off", "resolve", "exit", "poll"},
                step : {"next", "delete", "update", "sent"},
                todo : SUBSET Orders, keys : SUBSET Keys,
                cur : Orders \cup {None}, upTo : Nat, polls : Nat]
    /\ cyc.todo \subseteq DOMAIN order
    /\ cyc.step # "next" => cyc.cur \in DOMAIN order

LockType ==
    /\ lock \in Triggers \cup {None}
    /\ hook \in [Triggers -> {"idle", "eval", "cancel", "enter", "cycle"}]
    /\ tick \in DOMAIN order \cup {None}

HistoryType ==
    /\ registered \subseteq DOMAIN order
    /\ applied \in [Orders -> Nat]
    /\ DOMAIN wsApplied \subseteq DOMAIN notices
    /\ \A n \in DOMAIN wsApplied : wsApplied[n] \in Nat
    /\ polled \subseteq DOMAIN order

TypeOK ==
    /\ BrokerType /\ TraderType /\ SwitchType
    /\ WsType /\ CycType /\ LockType /\ HistoryType

(* INV-LEDGER-1: a position left in the ledger has a positive quantity,    *)
(* whatever the notices, polls and stop losses that reduced it.            *)
LedgerPositive == \A k \in DOMAIN ledger : ledger[k] > 0

(* Tracking an order ends for a reason: an order that was pending and no   *)
(* longer is was executed in full or cancelled at the broker; otherwise    *)
(* its remaining fills are dropped as unmatched notices.  The exception is *)
(* a unit that a poll answering "partial" applied and its own notice, then *)
(* in flight, applied again: the handler counts it twice, takes the order  *)
(* for complete and deletes the entry while the rest is still working.     *)
NeverDroppedEarly ==
    \A o \in registered \ pending :
       \/ done[o] >= order[o].qty
       \/ book[o] = "cancelled"
       \/ /\ o \in polled /\ \E n \in DOMAIN wsApplied : n.order = o
          /\ applied[o] >= order[o].qty

(* Why: what an entry, a handler or a cycle remembers of an order never    *)
(* exceeds what was applied of it, units counted twice included, and a     *)
(* cycle about to delete an order has applied it in full or found it       *)
(* cancelled.                                                              *)
EntriesBacked ==
    /\ \A o \in Orders : soFar[o] <= applied[o]
    /\ ws.pc = "matched" => ws.already <= applied[ws.notice.order]
    /\ ws.pc \in {"applied", "finish"} =>
          ws.already + ws.notice.qty <= applied[ws.notice.order]
    /\ cyc.step = "update" => cyc.upTo <= applied[cyc.cur]
    /\ cyc.step = "delete" => \/ applied[cyc.cur] >= order[cyc.cur].qty
                              \/ book[cyc.cur] = "cancelled"

(* L-09: redelivery of one notice never changes the ledger twice, even     *)
(* when other threads update or delete the order's entry meanwhile.        *)
NoticeAppliedOnce == \A n \in DOMAIN wsApplied : wsApplied[n] <= 1

(* Why: the dedup keys of an order cover every notice that was applied or  *)
(* is about to be, and the latter was not applied before.                  *)
DedupCovers ==
    /\ \A n \in DOMAIN wsApplied : <<n.stamp, n.qty>> \in seen[n.order]
    /\ ws.pc = "matched" =>
          /\ ws.notice \notin DOMAIN wsApplied
          /\ <<ws.notice.stamp, ws.notice.qty>> \in seen[ws.notice.order]

(* INV-FILL-1 on the notice path: an order no REST answer was applied to   *)
(* never has more in the ledger than the broker executed.                  *)
NoticePathExact == \A o \in Orders \ polled : applied[o] <= done[o]

(* A handler that matched a notice and a trigger that fired both return:   *)
(* the lock of a cycle is always released, also by the KeyError path and   *)
(* when the cycle is nested in the notice handler.                         *)
HandlersReturn ==
    /\ ws.pc # "idle" ~> ws.pc = "idle"
    /\ \A t \in Triggers : hook[t] # "idle" ~> hook[t] = "idle"

=============================================================================
