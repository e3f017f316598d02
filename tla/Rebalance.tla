---- MODULE Rebalance ----
(***************************************************************************)
(* The backtest of a strategy that is rebalanced every few days: the       *)
(* scheduled path of the unified engine.  At the close of a day a target   *)
(* is set, in signed whole shares: by a margin call, by a rebalance, or by *)
(* the exits of the day, whose places may be filled by the next best       *)
(* symbols.  It is executed at that close or the next open, sales before   *)
(* purchases, the purchases one after the other in the order of the names. *)
(* Prices are small integers; costs, interest and the caps on weights are  *)
(* left out, and of the sizers there is the equal one.                     *)
(***************************************************************************)
EXTENDS Integers, Sequences, FiniteSets, FiniteSetsExt, SequencesExt

CONSTANTS
  Order,    \* the symbols, sorted by name
  Prices,
  Capital,  \* initial_capital
  Every,    \* days from one rebalance to the next
  LastDay   \* bound: days of the backtest

ASSUME RebalanceAssumption == /\ Order \in Seq(Range(Order))
                              /\ Prices \subseteq Nat \ {0}
                              /\ {Capital, Every, LastDay} \subseteq Nat

VARIABLES
  plan,      \* deferred to the next open or not, leverage, direction, refill
  day,
  phase,     \* "night", "open", "sell", "buy", "decide"
  close,     \* today's closes
  trade,     \* the prices at which today's trades are made
  cash,
  shares,    \* of each symbol, negative for a short position
  weights,   \* the target to be executed, None if there is none
  floor,     \* the cash that purchases must leave
  next,      \* position in Order of the next purchase
  lastDone,  \* day of the last rebalance, -1 before the first
  excluded   \* symbols that were exited since

rebalanceVars ==
  <<plan, day, phase, close, trade, cash, shares, weights, floor, next,
    lastDone, excluded>>

Universe == Range(Order)
None == <<>>
Zero == [s \in Universe |-> 0]
Worth(at) == cash + SumFunction([s \in Universe |-> shares[s] * at[s]])
Size(n) == IF n < 0 THEN -n ELSE n
Gross == SumFunction([s \in Universe |-> Size(shares[s]) * close[s]])
Holding == {s \in Universe : shares[s] # 0}

RebalanceInit ==
  /\ plan \in [deferred : BOOLEAN, leverage : {1, 2}, refill : BOOLEAN,
               direction : {"long", "short", "long_short"}]
  /\ day = 0 /\ phase = "night"
  /\ close \in [Universe -> Prices] /\ trade = close
  /\ cash = Capital
  /\ shares = Zero
  /\ weights = None /\ floor = 0 /\ next = 1
  /\ lastDone = -1 /\ excluded = {}

NewDay ==
  /\ phase = "night"
  /\ day < LastDay
  /\ day' = day + 1
  /\ close' \in [Universe -> Prices]
  /\ trade' \in IF plan.deferred /\ weights # None
                THEN [Universe -> Prices] ELSE {close'}
  /\ phase' = IF weights # None THEN "sell" ELSE "decide"
  /\ UNCHANGED <<plan, cash, shares, weights, floor, next, lastDone, excluded>>

---------------------------------------------------------------------------
(* _execute: the purchases may take the cash as far as the leverage lets    *)
(* the worth of the account be borrowed.                                    *)
Sells ==
  /\ phase = "sell"
  /\ LET out == {s \in Universe : weights[s] < shares[s]}
     IN /\ cash' = cash
             + SumFunction([s \in out |-> (shares[s] - weights[s]) * trade[s]])
        /\ shares' = [s \in Universe |->
                        IF s \in out THEN weights[s] ELSE shares[s]]
  /\ floor' = Worth(close) * (1 - plan.leverage)
  /\ next' = 1
  /\ phase' = "buy"
  /\ UNCHANGED <<plan, day, close, trade, weights, lastDone, excluded>>

(* All that is wanted is bought. *)
BoughtWanted(s) == Max({0, weights[s] - shares[s]})

(* A short position is covered whatever it takes; beyond that, and for a    *)
(* long one, the purchase stops at the floor.                               *)
Bought(s) ==
  LET cover == Min({Size(Min({0, shares[s]})), weights[s] - shares[s]})
      room == (cash - cover * trade[s] - floor) \div trade[s]
  IN IF weights[s] <= shares[s] THEN 0
     ELSE cover + Max({0, Min({weights[s] - shares[s] - cover, room})})

Buys ==
  /\ phase = "buy" /\ next <= Len(Order)
  /\ LET s == Order[next]
     IN /\ cash' = cash - Bought(s) * trade[s]
        /\ shares' = [shares EXCEPT ![s] = @ + Bought(s)]
  /\ next' = next + 1
  /\ UNCHANGED <<plan, day, phase, close, trade, weights, floor, lastDone,
                 excluded>>

Executed ==
  /\ phase = "buy" /\ next > Len(Order)
  /\ weights' = None
  /\ phase' = IF plan.deferred THEN "decide" ELSE "night"
  /\ UNCHANGED <<plan, day, close, trade, cash, shares, floor, next, lastDone,
                 excluded>>

---------------------------------------------------------------------------
(* A target is executed now or at the next open.                            *)
Decides(t) ==
  /\ phase = "decide"
  /\ weights' = t
  /\ phase' = IF t # None /\ ~plan.deferred THEN "sell" ELSE "night"
  /\ UNCHANGED <<plan, day, close, trade, cash, shares, floor, next>>

(* The account is worth less than a quarter of what it holds: it is brought *)
(* back to its leverage.                                                    *)
CallDue == Holding # {} /\ 4 * Worth(close) < Gross

MarginCall ==
  /\ CallDue
  /\ LET worth == Max({0, Worth(close)})
         kept(n) == (n * Min({Gross, worth * plan.leverage})) \div Gross
     IN Decides([s \in Universe |-> IF shares[s] >= 0 THEN kept(shares[s])
                                   ELSE -kept(-shares[s])])
  /\ UNCHANGED <<lastDone, excluded>>

Due == lastDone = -1 \/ day - lastDone >= Every

(* The symbols selected, by rank or by sign: on both sides, those that are  *)
(* in both count as short.                                                  *)
Selections ==
  {sel \in [longs : SUBSET Universe, shorts : SUBSET Universe] :
     /\ plan.direction = "long" => sel.shorts = {}
     /\ plan.direction = "short" => sel.longs = {}}

(* The shares of a symbol that get an equal weight on its side.             *)
Weighed(sel, s) ==
  LET sides == IF sel.longs # {} /\ sel.shorts # {} THEN 2 ELSE 1
      each(side) == (Max({0, Worth(close)}) * plan.leverage)
                      \div (sides * Cardinality(side) * close[s])
  IN IF s \in sel.shorts THEN -each(sel.shorts)
     ELSE IF s \in sel.longs THEN each(sel.longs) ELSE 0

Rebalances ==
  /\ ~CallDue /\ Due
  /\ \E sel \in Selections : Decides([s \in Universe |-> Weighed(sel, s)])
  /\ lastDone' = day
  /\ excluded' = {}

(* What was exited on an earlier day may come in again. *)
EligibleForgets(exits) == Universe \ (Holding \cup exits)

(* Who may take the place of those that are exited: none that is held, or   *)
(* was exited since the last rebalance.                                     *)
Eligible(exits) == Universe \ (Holding \cup excluded \cup exits)

(* The exits of the day, and what takes their places for the same money.    *)
Exits ==
  /\ ~CallDue /\ ~Due
  /\ \E exits \in (SUBSET Holding) \ {{}}, by \in [Universe -> Universe] :
       LET freed == {s \in exits : shares[s] > 0}
           filled == IF plan.refill
                     THEN {s \in freed : by[s] \in Eligible(exits)} ELSE {}
       IN /\ \A s, u \in filled : by[s] = by[u] => s = u
          /\ \A s \in Universe \ filled : by[s] = s
          /\ plan.refill =>
               \/ filled = freed
               \/ {by[s] : s \in filled} = Eligible(exits)
          /\ Decides([u \in Universe |->
               IF \E s \in filled : by[s] = u
               THEN LET s == CHOOSE v \in filled : by[v] = u
                    IN (shares[s] * close[s]) \div close[u]
               ELSE IF u \in exits THEN 0 ELSE shares[u]])
          /\ excluded' = excluded \cup exits
  /\ UNCHANGED lastDone

Holds ==
  /\ ~CallDue /\ ~Due
  /\ Decides(None)
  /\ UNCHANGED <<lastDone, excluded>>

RebalanceNext ==
  \/ NewDay \/ Sells \/ Buys \/ Executed
  \/ MarginCall \/ Rebalances \/ Exits \/ Holds

RebalanceSpec == RebalanceInit /\ [][RebalanceNext]_rebalanceVars

---------------------------------------------------------------------------
(* Without leverage and shorts the strategy never spends more than it has:  *)
(* although the target was set at one price and is bought at another, and   *)
(* the money for it comes from sales and exits decided with it.             *)
NeverBorrows == plan.leverage = 1 /\ plan.direction = "long" => cash >= 0

(* A symbol that was exited does not come back before the next rebalance,   *)
(* neither held nor in a target that waits for the open.                    *)
ExitedStaysOut ==
  \A s \in excluded :
    /\ phase = "night" /\ weights # None => weights[s] = 0
    /\ phase = "night" /\ weights = None => shares[s] = 0
====
