---- MODULE Entries ----
(***************************************************************************)
(* The entry pass of a cycle of one market over the candidates of the      *)
(* server's preview, and the bookings of its orders.  A strategy of one    *)
(* symbol has one entry of the ledger under its own key; one of a list, of *)
(* all symbols or of a screener has an entry for each symbol.  Bookings    *)
(* come when an order is accepted, by notices and by polls of later        *)
(* cycles; meanwhile the server's preview may change.  Intents and retries *)
(* are the matter of IntentJournal, the lock that of OrderFills.           *)
(***************************************************************************)
EXTENDS Integers, Sequences, FiniteSets, SequencesExt

CONSTANTS
  Singles, Lists,  \* strategies of one symbol, and of several
  HomeStocks, USStocks,  \* symbols
  Wealth,      \* shares the money of the account buys
  Position,    \* shares the sizing of a strategy asks for
  FirstPicks,  \* the candidates of the first preview, by strategy
  CountLimit,  \* daily limit of buys that a user may set
  MaxEntryDay, MaxOrders, MaxEdits  \* bounds: days, orders, new previews

Listed == HomeStocks \cup USStocks
MarketOn(s) == IF s \in USStocks THEN "US" ELSE "KRX"
Strategies == Singles \cup Lists

\* The key of the ledger, without regard to the symbol.
EntryKeyOne(sid, s) == <<sid>>

EntryKey(sid, s) == IF sid \in Lists THEN <<sid, s>> ELSE <<sid>>
EntryKeys == {EntryKey(sid, s) : sid \in Strategies, s \in Listed}

ASSUME EntriesAssumption ==
  /\ Singles \cap Lists = {}
  /\ FirstPicks \in [Strategies -> Seq(Listed)]
  /\ \A sid \in Singles : Len(FirstPicks[sid]) <= 1
  /\ {Wealth, Position, CountLimit, MaxOrders} \subseteq Nat
  /\ IsFiniteSet(Listed)

VARIABLES
  picks,    \* the symbols of the server's preview, by strategy
  visit,    \* the entry pass: what it has to go through, and its limits
  entries,  \* shares booked, by key and symbol
  orders,   \* the buy orders that were accepted
  selling,  \* the keys with a sale under way
  lines,    \* buys of the day in the trade log, counted up to the limit
  money,    \* what the account has left
  date,     \* the KST date
  edits,    \* changes of a strategy's candidates so far
  swapped   \* keys of strategies whose only symbol changed too early

entriesVars == <<picks, visit, entries, orders, selling, lines, money, date,
                 edits, swapped>>

NoVisit == [on |-> FALSE, market |-> "none", queue |-> {}, at |-> "none",
            rest |-> <<>>, left |-> 0, sold |-> {}, limit |-> 0]
NoShares == [s \in Listed |-> 0]
\* What a preview may list for a strategy.
Rankings == {q \in BoundedSeq(Listed, Cardinality(Listed)) : IsInjective(q)}

HeldKeys == {k \in EntryKeys : entries[k] # NoShares}
OpenOrders == {i \in DOMAIN orders : orders[i].rest > 0}
EntriesInit ==
  /\ picks = FirstPicks
  /\ visit = NoVisit
  /\ entries = [k \in EntryKeys |-> NoShares]
  /\ orders = <<>>
  /\ selling = {}
  /\ lines = 0
  /\ money = Wealth
  /\ date = 1
  /\ edits = 0
  /\ swapped = {}

---------------------------------------------------------------------------
(* The server makes its preview anew, or the user edits, assigns or         *)
(* withdraws the strategy: one of a single symbol may get another symbol    *)
(* while its order waits.  A cycle under way does not see it.               *)
PicksChange(sid, new) ==
  /\ sid \in Singles => Len(new) <= 1
  /\ new # picks[sid]
  /\ ~visit.on
  /\ edits < MaxEdits
  /\ edits' = edits + 1
  /\ picks' = [picks EXCEPT ![sid] = new]
  /\ LET mine == {i \in OpenOrders : orders[i].key[1] = sid}
         waiting == {orders[i].symbol : i \in mine}
     IN  swapped' = IF sid \in Singles /\ new # <<>> /\ waiting \ {new[1]} # {}
                    THEN swapped \cup {<<sid>>} ELSE swapped
  /\ UNCHANGED <<visit, entries, orders, selling, lines, money, date>>

(* A strategy of several symbols has a place for each candidate beyond the  *)
(* entries it holds; one of a single symbol has none while it holds one or  *)
(* has just sold it.                                                        *)
Places(sid, sold) ==
  IF sid \in Lists
  THEN LET own == {k \in HeldKeys : k[1] = sid}
           free == Len(picks[sid]) - Cardinality(own)
       IN  IF free > 0 THEN free ELSE 0
  ELSE IF <<sid>> \in HeldKeys \cup sold THEN 0 ELSE 1

(* The cycle of a market takes the preview, the strategies and the limits   *)
(* from the server, with no limit when those cannot be had, and sends its   *)
(* sales first.  What it resolves before and after is booked by Books.      *)
CycleEnters(market, sold, limit) ==
  /\ ~visit.on
  /\ sold \subseteq HeldKeys
  /\ \A k \in sold : \A s \in Listed :
        entries[k][s] > 0 => MarketOn(s) = market
  /\ visit' = [NoVisit EXCEPT !.on = TRUE, !.market = market,
                              !.queue = Strategies, !.sold = sold,
                              !.limit = limit]
  /\ selling' = selling \cup sold
  /\ UNCHANGED <<picks, entries, orders, lines, money, date, edits, swapped>>

(* It goes through the strategies in some order, that of the preview, and   *)
(* the candidates of each as long as that has a place left.                 *)
GoesOn(sid, rest, left) ==
  IF rest = <<>> \/ left = 0
  THEN [visit EXCEPT !.queue = @ \ {sid}, !.at = "none", !.rest = <<>>, !.left = 0]
  ELSE [visit EXCEPT !.queue = @ \ {sid}, !.at = sid, !.rest = rest, !.left = left]

NextStrategy ==
  /\ visit.rest = <<>> /\ visit.queue # {}
  /\ LET sid == CHOOSE x \in visit.queue : TRUE
     IN  visit' = GoesOn(sid, picks[sid], Places(sid, visit.sold))
  /\ UNCHANGED <<picks, entries, orders, selling, lines, money, date, edits,
                 swapped>>

Least(x, y) == IF x < y THEN x ELSE y

(* What a booking of n shares does: it is added to the entry of the key,    *)
(* whatever the symbol of that entry, and is a line of the log.             *)
Booked(key, s, n) ==
  /\ entries' = IF n = 0 THEN entries ELSE [entries EXCEPT ![key][s] = @ + n]
  /\ lines' = IF n = 0 THEN lines ELSE Least(lines + 1, CountLimit)

(* A candidate of the market is bought if there is a place, it is neither   *)
(* held nor just sold, the buys in the log of the day are below the limit,  *)
(* the money is enough, and no order for it was sent that day.  The order   *)
(* is accepted, at times executed at once, or refused; that too takes the   *)
(* place.                                                                   *)
BuysCandidate(n) ==
  /\ visit.rest # <<>>
  /\ LET s == Head(visit.rest)
         key == EntryKey(visit.at, s)
         qty == Least(Position, money)
     IN  /\ MarketOn(s) = visit.market
         /\ key \notin HeldKeys \cup visit.sold
         /\ visit.limit > 0 => lines < visit.limit
         /\ qty > 0
         /\ ~ \E i \in DOMAIN orders : /\ orders[i].key = key
                                       /\ orders[i].symbol = s
                                       /\ orders[i].date = date
         /\ visit' = GoesOn(visit.at, Tail(visit.rest), visit.left - 1)
         /\ \/ /\ n \in {0, qty}
               /\ Len(orders) < MaxOrders
               /\ orders' = Append(orders,
                               [key |-> key, symbol |-> s, date |-> date,
                                rest |-> qty - n])
               /\ money' = money - qty
               /\ Booked(key, s, n)
            \/ /\ n = 0
               /\ UNCHANGED <<entries, orders, lines, money>>
  /\ UNCHANGED <<picks, selling, date, edits, swapped>>

(* Otherwise it is passed over, for one of those reasons or as it has no    *)
(* data, is halted or managed, or the money could not be queried.           *)
PassesOver ==
  /\ visit.rest # <<>>
  /\ visit' = GoesOn(visit.at, Tail(visit.rest), visit.left)
  /\ UNCHANGED <<picks, entries, orders, selling, lines, money, date, edits,
                 swapped>>

CycleLeaves ==
  /\ visit.on /\ visit.rest = <<>> /\ visit.queue = {}
  /\ visit' = NoVisit
  /\ UNCHANGED <<picks, entries, orders, selling, lines, money, date, edits,
                 swapped>>

---------------------------------------------------------------------------
(* Between the cycles: a buy is booked in part or in full, is over, or a    *)
(* sale is executed.                                                        *)
Books(i, n) ==
  /\ ~visit.on
  /\ i \in OpenOrders
  /\ n <= orders[i].rest
  /\ orders' = [orders EXCEPT ![i].rest = @ - n]
  /\ Booked(orders[i].key, orders[i].symbol, n)
  /\ UNCHANGED <<picks, visit, selling, money, date, edits, swapped>>

Expires(i) ==
  /\ ~visit.on
  /\ i \in OpenOrders
  /\ orders' = [orders EXCEPT ![i].rest = 0]
  /\ money' = money + orders[i].rest
  /\ UNCHANGED <<picks, visit, entries, selling, lines, date, edits, swapped>>

SaleDone(k) ==
  /\ ~visit.on
  /\ k \in selling
  /\ selling' = selling \ {k}
  /\ entries' = [entries EXCEPT ![k] = NoShares]
  /\ UNCHANGED <<picks, visit, orders, lines, money, date, edits, swapped>>

\* The orders for the US session live across midnight.
Midnight ==
  /\ ~visit.on
  /\ date < MaxEntryDay
  /\ date' = date + 1
  /\ lines' = 0
  /\ UNCHANGED <<picks, visit, entries, orders, selling, money, edits, swapped>>

EntriesNext ==
  \/ NextStrategy \/ PassesOver \/ CycleLeaves \/ Midnight
  \/ \E sid \in Strategies, new \in Rankings : PicksChange(sid, new)
  \/ \E market \in {"KRX", "US"}, sold \in SUBSET HeldKeys,
        limit \in {0, CountLimit} :
        CycleEnters(market, sold, limit)
  \/ \E n \in 0..Position : BuysCandidate(n)
  \/ \E i \in 1..MaxOrders, n \in 1..Position : Books(i, n)
  \/ \E i \in 1..MaxOrders : Expires(i)
  \/ \E k \in EntryKeys : SaleDone(k)

EntriesSpec == EntriesInit /\ [][EntriesNext]_entriesVars

---------------------------------------------------------------------------
(* An entry of the ledger stands for shares of one symbol, as its sales and *)
(* its stop are priced by that symbol alone: bookings of several orders,    *)
(* late ones and those of another day, come together only for one symbol,   *)
(* unless the strategy's only symbol was changed while an order for the old *)
(* one was open.                                                            *)
OneSymbolPerEntry ==
  \A k \in EntryKeys \ swapped : \A s, t \in Listed :
    entries[k][s] > 0 /\ entries[k][t] > 0 => s = t
====
