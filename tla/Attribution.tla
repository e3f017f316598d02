---- MODULE Attribution ----
(***************************************************************************)
(* The log of order events and the profit that is read off it.  The cycle  *)
(* and the threads that apply fills append to the log, best effort; after  *)
(* the cycle the profit of each strategy is computed from the whole log,   *)
(* by matching its sales of a symbol with its purchases, first in first    *)
(* out.                                                                    *)
(***************************************************************************)
EXTENDS Integers, Sequences, FiniteSets, SequencesExt

CONSTANTS
  Keys,       \* pairs of a strategy and a symbol
  LogPrices,  \* prices of fills
  MaxUnits,   \* bound: shares of a fill
  MaxLog      \* bound: events of the log

ASSUME AttributionAssumption ==
  LogPrices \subseteq Nat \ {0} /\ {MaxUnits, MaxLog} \subseteq Nat

VARIABLES
  log,        \* orders.jsonl
  bought,     \* ghost: for each key the prices paid, share by share
  soldUnits,  \* ghost: for each key the prices got, share by share
  clean       \* no append failed, no unlogged share was sold

attributionVars == <<log, bought, soldUnits, clean>>

AttributionInit ==
  /\ log = <<>>
  /\ bought = [k \in Keys |-> <<>>]
  /\ soldUnits = [k \in Keys |-> <<>>]
  /\ clean = TRUE

Times(n, x) == [i \in 1..n |-> x]

(* A fill, in parts or at once, and the line of it.                         *)
LogFill ==
  /\ Len(log) < MaxLog
  /\ \E k \in Keys, side \in {"buy", "sell"}, n \in 1..MaxUnits,
        p \in LogPrices :
       /\ log' = Append(log, [event |-> "fill", key |-> k, side |-> side,
                              qty |-> n, price |-> p])
       /\ IF side = "buy"
          THEN /\ bought' = [bought EXCEPT ![k] = @ \o Times(n, p)]
               /\ UNCHANGED <<soldUnits, clean>>
          ELSE /\ soldUnits' = [soldUnits EXCEPT ![k] = @ \o Times(n, p)]
               /\ clean' = (clean /\ Len(soldUnits'[k]) <= Len(bought[k]))
               /\ UNCHANGED bought

(* The append of a fill fails: the fill stands, and is not in the log.      *)
AppendFails ==
  /\ clean' = FALSE
  /\ UNCHANGED <<log, bought, soldUnits>>

(* An order that is sent, refused or cancelled. *)
LogOther ==
  /\ Len(log) < MaxLog
  /\ \E k \in Keys :
       log' = Append(log, [event |-> "other", key |-> k, side |-> "buy",
                           qty |-> 1, price |-> 0])
  /\ UNCHANGED <<bought, soldUnits, clean>>

AttributionNext == LogFill \/ AppendFails \/ LogOther

AttributionSpec == AttributionInit /\ [][AttributionNext]_attributionVars

---------------------------------------------------------------------------
(* strategy_pnl_summary: the lots still open of each key, and the profit.   *)
Lot(n, p) == [qty |-> n, price |-> p]

(* A lot gives what is still wanted of it, and keeps the rest. *)
TakesFrom(acc, lot, px) ==
  LET take == IF acc.left < lot.qty THEN acc.left ELSE lot.qty
  IN [left |-> acc.left - take,
      pnl |-> acc.pnl + (px - lot.price) * take,
      lots |-> IF take = lot.qty THEN acc.lots
               ELSE Append(acc.lots, Lot(lot.qty - take, lot.price))]

(* The last purchase is sold first. *)
TakenLast(lots, n, px) ==
  FoldLeft(LAMBDA acc, lot : TakesFrom(acc, lot, px),
           [left |-> n, pnl |-> 0, lots |-> <<>>], Reverse(lots))

(* The sale of n shares takes from the lots in their order. *)
Taken(lots, n, px) ==
  FoldLeft(LAMBDA acc, lot : TakesFrom(acc, lot, px),
           [left |-> n, pnl |-> 0, lots |-> <<>>], lots)

Read(acc, o) ==
  IF o.event # "fill" THEN acc
  ELSE IF o.side = "buy"
       THEN [acc EXCEPT ![o.key].lots = Append(@, Lot(o.qty, o.price))]
       ELSE LET t == Taken(acc[o.key].lots, o.qty, o.price)
            IN [acc EXCEPT ![o.key] = [lots |-> t.lots, pnl |-> @.pnl + t.pnl]]

Summary(lines) ==
  FoldLeft(Read, [k \in Keys |-> [lots |-> <<>>, pnl |-> 0]], lines)

---------------------------------------------------------------------------
Sum(s) == FoldLeft(LAMBDA a, b : a + b, 0, s)

(* The n-th share sold is paired with the n-th share bought, for every      *)
(* strategy and symbol: however lots are split between sales and sales      *)
(* between lots, fills are partial, and other orders come in between.  A    *)
(* fill whose line was not written, or a sale of shares bought elsewhere,   *)
(* shifts the pairs, and the profit is only an estimate from then on.       *)
PairedInOrder ==
  clean => \A k \in Keys :
    Summary(log)[k].pnl =
      Sum(soldUnits[k]) - Sum([i \in 1..Len(soldUnits[k]) |-> bought[k][i]])
====
