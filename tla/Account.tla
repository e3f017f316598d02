---- MODULE Account ----
(***************************************************************************)
(* The settlement's comparison of the ledger with the account at KIS.  The *)
(* user may trade by hand at any time.  The account is read in two parts,  *)
(* the domestic one and the US one, each as far as its one answer goes; if *)
(* the US one cannot be read the snapshot is of the domestic one alone.    *)
(* What the ledger holds more than the snapshot is taken for sold by hand  *)
(* and is deducted, in proportion, from the entries of the symbol.  The    *)
(* entries' own trades are the matter of OrderFills and TraderStore.       *)
(***************************************************************************)
EXTENDS Integers, FiniteSets, FiniteSetsExt

CONSTANTS
  Domestic, US,   \* symbols
  NumEntries,  \* entries of the ledger, in the order of their insertion
  MaxQty,      \* bound: shares of an entry
  MaxHand      \* bound: trades by hand

ASSUME AccountAssumption == {NumEntries, MaxQty} \subseteq Nat

VARIABLES
  held,      \* shares at KIS, by symbol
  ledger,    \* the entries: symbol and shares; none when it is deleted
  settle,    \* the settlement: where it is, and the shares it has read
  hand,      \* trades by hand so far
  sold,      \* shares sold by hand, by symbol
  deducted,  \* shares deducted, by symbol
  unread,    \* symbols compared although their row was not read
  split,     \* symbols whose shortfall was split over three entries or more
  checked    \* the snapshot of the last comparison

accountVars == <<held, ledger, settle, hand, sold, deducted, unread, split,
                 checked>>

Tickers == Domestic \cup US
Entries == 1..NumEntries
Unread == [s \in Tickers |-> -1]

Holders(s) == {i \in Entries : ledger[i].symbol = s /\ ledger[i].qty > 0}
Total(s) == SumFunction([i \in Holders(s) |-> ledger[i].qty])

AccountInit ==
  /\ ledger \in [Entries -> [symbol : Tickers, qty : 1..MaxQty]]
  /\ held = [s \in Tickers |-> Total(s)]
  /\ settle = [pc |-> "rest", seen |-> Unread]
  /\ hand = 0
  /\ sold = [s \in Tickers |-> 0] /\ deducted = [s \in Tickers |-> 0]
  /\ unread = {} /\ split = {}
  /\ checked = Unread

TradesByHand(s) ==
  /\ hand < MaxHand
  /\ hand' = hand + 1
  /\ \/ /\ held' = [held EXCEPT ![s] = @ + 1]
        /\ UNCHANGED sold
     \/ /\ held[s] > 0
        /\ held' = [held EXCEPT ![s] = @ - 1]
        /\ sold' = [sold EXCEPT ![s] = @ + 1]
  /\ UNCHANGED <<ledger, settle, deducted, unread, split, checked>>

---------------------------------------------------------------------------
(* Of a part of the snapshot the rows of an answer; any other symbol of the *)
(* part has no shares.  Nobody looks at the answer's own word that it       *)
(* failed, and of an answer of several pages the first one is read.         *)
Part(symbols, rows) ==
  [s \in Tickers |-> IF s \in rows THEN held[s]
                    ELSE IF s \in symbols THEN 0 ELSE settle.seen[s]]

(* If the domestic part raises there is no snapshot, and no comparison.     *)
ReadsDomestic ==
  /\ settle.pc = "rest"
  /\ \/ \E rows \in SUBSET Domestic :
          /\ settle' = [pc |-> "domestic", seen |-> Part(Domestic, rows)]
          /\ unread' = unread \cup (Domestic \ rows)
     \/ UNCHANGED <<settle, unread>>
  /\ UNCHANGED <<held, ledger, hand, sold, deducted, split, checked>>

(* The US part is the present balance and then the shares; if either raises *)
(* the snapshot goes without the shares that are not yet read.              *)
ReadsOverseas ==
  /\ settle.pc = "domestic"
  /\ \E rows \in SUBSET US :
       /\ settle' = [pc |-> "read", seen |-> Part(US, rows)]
       /\ unread' = unread \cup (US \ rows)
  /\ UNCHANGED <<held, ledger, hand, sold, deducted, split, checked>>

---------------------------------------------------------------------------
(* The smallest entry of a symbol, of equal ones the last.                  *)
Smallest(s) ==
  CHOOSE i \in Holders(s) : \A j \in Holders(s) :
    \/ ledger[i].qty < ledger[j].qty
    \/ ledger[i].qty = ledger[j].qty /\ i >= j

(* What is planned to be left to entry i when KIS has target shares: its    *)
(* share of them, rounded down, and to the smallest what then remains.      *)
ShareOf(i, target) == (ledger[i].qty * target) \div Total(ledger[i].symbol)

(* To every entry its share, rounded down. *)
PlannedFloor(i, target) == ShareOf(i, target)

Planned(i, target) ==
  LET s == ledger[i].symbol
      others == SumFunction([j \in Holders(s) \ {i} |-> ShareOf(j, target)])
  IN IF i = Smallest(s) THEN IF target > others THEN target - others ELSE 0
                        ELSE ShareOf(i, target)

(* A plan to add to an entry is not carried out.                            *)
LeftTo(i, target) ==
  IF Planned(i, target) < ledger[i].qty THEN Planned(i, target) ELSE ledger[i].qty

Orphans == {s \in Tickers : settle.seen[s] < Total(s)}

Reconciles ==
  /\ settle.pc = "read"
  /\ ledger' = [i \in Entries |->
       LET s == ledger[i].symbol
       IN IF i \in Holders(s) /\ s \in Orphans
          THEN [ledger[i] EXCEPT !.qty = LeftTo(i, settle.seen[s])]
          ELSE ledger[i]]
  /\ deducted' = [s \in Tickers |->
       deducted[s]
         + SumFunction([i \in Holders(s) |-> ledger[i].qty - ledger'[i].qty])]
  /\ split' = split \cup {s \in Orphans : Cardinality(Holders(s)) > 2}
  /\ checked' = settle.seen
  /\ settle' = [pc |-> "rest", seen |-> Unread]
  /\ UNCHANGED <<held, hand, sold, unread>>

AccountNext ==
  \/ \E s \in Tickers : TradesByHand(s)
  \/ ReadsDomestic \/ ReadsOverseas \/ Reconciles

AccountSpec == AccountInit /\ [][AccountNext]_accountVars

---------------------------------------------------------------------------
(* The ledger never loses more shares of a symbol than the user has sold of *)
(* it; except of a symbol whose row was in no answer that was read (one     *)
(* that says itself that it failed counts as an empty account, and what is  *)
(* on a second page is not asked for), and of a symbol that three entries   *)
(* hold, where the plan for the smallest is more than it has and is         *)
(* dropped.  And after a comparison it claims no more shares than the       *)
(* snapshot had, however they were split.                                   *)
DeductedForCause ==
  \A s \in Tickers :
    /\ deducted[s] > sold[s] => s \in unread \cup split
    /\ checked # Unread => Total(s) <= checked[s]

====
