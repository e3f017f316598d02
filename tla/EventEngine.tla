---- MODULE EventEngine ----
(***************************************************************************)
(* The backtest of a strategy that buys on a signal, day by day: the event *)
(* path of the unified engine, and its older twin, which may sell a part   *)
(* of a position.  Filled at the next open, what the close of a day        *)
(* decides is executed at the next open, sales before purchases; filled at *)
(* the typical price of the day, at once.  A symbol may have no prices on  *)
(* a day on which others trade.  Prices are small integers; costs are left *)
(* out, and the price rules are the stop alone.                            *)
(***************************************************************************)
EXTENDS Integers, Sequences, FiniteSets, FiniteSetsExt, SequencesExt

CONSTANTS
  EventSymbols,
  EventPrices,
  StartCapital,   \* initial_capital
  MAX_POSITIONS,  \* _MAX_POSITIONS_GLOBAL
  Loss,           \* the stop lies this much under the entry price
  LastEventDay    \* bound: days of the backtest

ASSUME EngineAssumption == /\ IsFiniteSet(EventSymbols)
                           /\ EventPrices \subseteq Nat \ {0}
                           /\ {StartCapital, MAX_POSITIONS, LastEventDay} \subseteq Nat

VARIABLES
  fillPlan,  \* of a run: fill, part of a position sold, part of the cash spent
  eventDay,
  step,      \* "open", "buy", "close", "night" of the day; "end"
  bar,       \* today's close, and the price at which today's trades are made
  eventCash,
  book,      \* positions: shares, entry price and day, the stop is done
  sells,     \* pending_sells: the reason for which each symbol is to be sold
  buys,      \* pending_buys, in the order of the universe
  budget,    \* what may be spent on each purchase of today
  partial,   \* positions of which a part was sold for their stop
  unfilled   \* positions of which nothing was sold for it when it fired

engineVars == <<fillPlan, eventDay, step, bar, eventCash, book, sells, buys,
                budget, partial, unfilled>>

NoEntry == 0
NoPosition == [shares |-> 0, entry |-> 0, since |-> 0, fired |-> FALSE]
NoSells == [s \in EventSymbols |-> "none"]
Held == {s \in EventSymbols : book[s].shares > 0}
Deferred == fillPlan.fill = "next_open"

EngineInit ==
  /\ fillPlan \in
       [fill : {"next_open", "typical"}, part : {1, 2}, slice : {1, 2}]
  /\ eventDay = 0 /\ step = "night"
  /\ bar = [s \in EventSymbols |-> [close |-> NoEntry, trade |-> NoEntry]]
  /\ eventCash = StartCapital
  /\ book = [s \in EventSymbols |-> NoPosition]
  /\ sells = NoSells /\ buys = <<>>
  /\ budget = 0
  /\ partial = {} /\ unfilled = {}

(* Open and close are there together or not at all; the typical price lacks *)
(* where the high or the low does.                                          *)
Bars ==
  {[close |-> NoEntry, trade |-> NoEntry]}
  \cup [close : EventPrices,
        trade : IF Deferred THEN EventPrices ELSE EventPrices \cup {NoEntry}]

NextEventDay ==
  /\ step = "night"
  /\ eventDay < LastEventDay
  /\ eventDay' = eventDay + 1
  /\ bar' \in [EventSymbols -> Bars]
  /\ step' = IF Deferred THEN "open" ELSE "close"
  /\ UNCHANGED <<fillPlan, eventCash, book, sells, buys, budget, partial,
                 unfilled>>

---------------------------------------------------------------------------
(* The shares sold of a position, all or a part in whole shares; none       *)
(* without a price.                                                         *)
Sold(s) ==
  IF bar[s].trade = NoEntry THEN 0 ELSE book[s].shares \div fillPlan.part

(* The stop counts as done whatever part of the position was sold. *)
LeftAnyway(s, why) ==
  IF Sold(s) = book[s].shares THEN NoPosition
  ELSE [book[s] EXCEPT !.shares = @ - Sold(s), !.fired = TRUE]

(* A stop counts as done for what is left of the position, also when        *)
(* nothing was sold.                                                        *)
Left(s, why) ==
  IF Sold(s) = book[s].shares THEN NoPosition
  ELSE [book[s] EXCEPT !.shares = @ - Sold(s), !.fired = @ \/ why = "stop"]

SellAll(why) ==
  LET out == {s \in Held : why[s] # "none"}
      closed == {s \in out : Sold(s) = book[s].shares}
      stoppedOut == {s \in out \ closed : why[s] = "stop"}
  IN /\ eventCash' = eventCash
          + SumFunction([s \in out |-> Sold(s) * bar[s].trade])
     /\ book' = [s \in EventSymbols |->
                   IF s \in out THEN Left(s, why[s]) ELSE book[s]]
     /\ partial' = (partial \ closed) \cup {s \in stoppedOut : Sold(s) > 0}
     /\ unfilled' = (unfilled \ closed) \cup {s \in stoppedOut : Sold(s) = 0}

(* The pending sales at the open; none stays pending.                       *)
SellsAtOpen ==
  /\ step = "open"
  /\ SellAll(sells)
  /\ sells' = NoSells
  /\ budget' = eventCash' \div fillPlan.slice
  /\ step' = "buy"
  /\ UNCHANGED <<fillPlan, eventDay, bar, buys>>

(* The whole shares that the budget buys, and what is left of the cash.     *)
Affordable(s) ==
  IF bar[s].trade = NoEntry THEN 0 ELSE Min({budget, eventCash}) \div bar[s].trade

(* The next purchase of the list, if there is room for it.                  *)
BuysAtOpen ==
  /\ step = "buy" /\ buys # <<>>
  /\ LET s == Head(buys)
     IN IF Cardinality(Held) >= MAX_POSITIONS \/ s \in Held \/ Affordable(s) = 0
        THEN UNCHANGED <<eventCash, book>>
        ELSE /\ eventCash' = eventCash - Affordable(s) * bar[s].trade
             /\ book' = [book EXCEPT ![s] =
                  [shares |-> Affordable(s), entry |-> bar[s].trade,
                   since |-> eventDay, fired |-> FALSE]]
  /\ buys' = Tail(buys)
  /\ UNCHANGED <<fillPlan, eventDay, step, bar, sells, budget, partial,
                 unfilled>>

BuysDone ==
  /\ step = "buy" /\ buys = <<>>
  /\ step' = IF Deferred THEN "close" ELSE "night"
  /\ UNCHANGED <<fillPlan, eventDay, bar, eventCash, book, sells, buys, budget,
                 partial, unfilled>>

---------------------------------------------------------------------------
(* What may have a position sold at the close: the stop, unless it is done, *)
(* or else the sell signal.                                                 *)
Reasons(s) ==
  IF s \notin Held \/ bar[s].close = NoEntry THEN {"none"}
  ELSE IF bar[s].close <= book[s].entry - Loss /\ ~book[s].fired THEN {"stop"}
  ELSE {"none", "signal"}

(* The symbols to buy, of those with a signal; none that is held, or that   *)
(* was when the day closed.                                                 *)
Wanted(signals) == SetToSeq(signals \ Held)

ClosesDay ==
  /\ step = "close"
  /\ \E why \in [EventSymbols -> {"none", "stop", "signal"}],
        signals \in SUBSET EventSymbols :
       /\ \A s \in EventSymbols : why[s] \in Reasons(s)
       /\ IF Deferred
          THEN /\ sells' = why
               /\ buys' = Wanted(signals)
               /\ step' = "night"
               /\ UNCHANGED <<eventCash, book, budget, partial, unfilled>>
          ELSE /\ SellAll(why)
               /\ buys' = Wanted({s \in signals : bar[s].close # NoEntry})
               /\ budget' = eventCash' \div fillPlan.slice
               /\ step' = "buy"
               /\ UNCHANGED sells
  /\ UNCHANGED <<fillPlan, eventDay, bar>>

(* At the end everything is sold at its last close.                         *)
Ends ==
  /\ step = "night" /\ eventDay = LastEventDay
  /\ step' = "end"
  /\ \E last \in [EventSymbols -> EventPrices] :
       eventCash' = eventCash
         + SumFunction([s \in Held |-> book[s].shares * last[s]])
  /\ book' = [s \in EventSymbols |-> NoPosition]
  /\ partial' = {} /\ unfilled' = {}
  /\ UNCHANGED <<fillPlan, eventDay, bar, sells, buys, budget>>

EngineNext ==
  NextEventDay \/ SellsAtOpen \/ BuysAtOpen \/ BuysDone \/ ClosesDay \/ Ends

EngineSpec == EngineInit /\ [][EngineNext]_engineVars

---------------------------------------------------------------------------
(* No position passes a night beyond its stop without being sold for it the *)
(* next day: except when it was bought after that day's check, when a part  *)
(* was sold for the stop before, or when its stop fired and found no price, *)
(* or not a whole share to sell, and counts as done since.                  *)
StopsHeld ==
  step = "night" =>
    \A s \in Held \ (partial \cup unfilled) :
      bar[s].close # NoEntry /\ bar[s].close <= book[s].entry - Loss =>
        sells[s] = "stop" \/ (~Deferred /\ book[s].since = eventDay)
====
