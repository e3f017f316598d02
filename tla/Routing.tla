---- MODULE Routing ----
(***************************************************************************)
(* The market that an order is sent to.  A stock's exchange is looked up   *)
(* in the index of the US masters, which is downloaded once, exchange by   *)
(* exchange, by whatever thread first finds it neither in memory nor on    *)
(* disk; an exchange that could not be downloaded is left out.  A stock    *)
(* that is not in the index goes by the form of its symbol; but a reserved *)
(* order, which a first lookup decides on, goes by a second one, and to a  *)
(* default exchange if that one finds nothing.                             *)
(***************************************************************************)
EXTENDS Integers, FiniteSets

CONSTANTS
  Exchanges,  \* of the US
  Default,    \* the one of a reserved order that the second lookup misses
  Stocks,     \* stocks that a strategy trades
  Loaders     \* threads that may look a stock up first

(* The stocks by form: a Korean code, and per exchange a plain ticker and a *)
(* share of a class, as BRK/B.                                              *)
AllStocks == [form : {"code"}, home : {"KRX"}]
             \cup [form : {"ticker", "class"}, home : Exchanges]

ASSUME RoutingAssumption == Stocks \subseteq AllStocks /\ Default \in Exchanges

VARIABLES
  mem,     \* the exchanges of the index in memory, none before it is loaded
  master,  \* of the index on disk, none if there is no file that can be read
  loader,  \* the threads: "rest", "down" while one downloads
  order,   \* per stock: considered in a cycle of a market, to be reserved,
           \* sent to a market
  unsure,  \* the stocks detected while the index lacked their exchange
  dropped  \* the stocks whose exchange a download took out of the index
           \* while their order was to be reserved

routeVars == <<mem, master, loader, order, unsure, dropped>>

RouteInit ==
  /\ mem = {} /\ master = {}
  /\ loader = [l \in Loaders |-> "rest"]
  /\ order = [s \in Stocks |-> [pc |-> "none", at |-> "none"]]
  /\ unsure = {} /\ dropped = {}

(* From the disk; otherwise a download begins.                              *)
Loads(l) ==
  /\ loader[l] = "rest"
  /\ mem = {}
  /\ IF master = {}
     THEN loader' = [loader EXCEPT ![l] = "down"] /\ UNCHANGED mem
     ELSE mem' = master /\ UNCHANGED loader
  /\ UNCHANGED <<master, order, unsure, dropped>>

(* What came is kept, on disk if it can be saved, and takes the place of    *)
(* what another thread has loaded meanwhile; nothing at all is not kept.    *)
Downloads(l) ==
  /\ loader[l] = "down"
  /\ loader' = [loader EXCEPT ![l] = "rest"]
  /\ \E got \in SUBSET Exchanges :
       IF got = {} THEN UNCHANGED <<mem, master, dropped>>
       ELSE /\ mem' = got
            /\ master' \in {got, master}
            /\ dropped' = dropped \cup {s \in Stocks : /\ order[s].pc = "reserved"
                                                    /\ s.home \in mem \ got}
  /\ UNCHANGED <<order, unsure>>

(* The program ends, perhaps while the file is being written.               *)
Restarts ==
  /\ mem' = {}
  /\ loader' = [l \in Loaders |-> "rest"]
  /\ master' \in IF \E l \in Loaders : loader[l] = "down" THEN {master, {}} ELSE {master}
  /\ order' = [s \in Stocks |-> IF order[s].pc = "sent" THEN order[s]
                                ELSE [pc |-> "none", at |-> "none"]]
  /\ UNCHANGED <<unsure, dropped>>

---------------------------------------------------------------------------
(* A lookup finds the loaded index, or nothing when the download failed.    *)
Ready == mem # {} \/ master = {}
Known(s) == s.home \in mem

(* A stock that cannot be routed counts as Korean for a cycle.              *)
MarketGroup(s) == IF Known(s) THEN "US" ELSE "KRX"

(* A ticker that is not in the index is taken for one of the first exchange.*)
DetectMarketGuess(s) ==
  IF Known(s) THEN s.home
  ELSE IF s.form = "ticker" THEN CHOOSE e \in Exchanges : TRUE ELSE "KRX"

(* A plain ticker that is not in the index is not sent.                     *)
DetectMarket(s) ==
  IF Known(s) THEN s.home ELSE IF s.form = "ticker" THEN "blocked" ELSE "KRX"

Considers(s) ==
  /\ Ready
  /\ order[s].pc = "none"
  /\ \E market \in {"KRX", "US"} :
       /\ MarketGroup(s) = market
       /\ order' = [order EXCEPT ![s] = [pc |-> "considered", at |-> market]]
  /\ UNCHANGED <<mem, master, loader, unsure, dropped>>

(* An order of the regular US cycle is reserved if the index has its stock. *)
Reserves(s) ==
  /\ Ready
  /\ order[s] = [pc |-> "considered", at |-> "US"]
  /\ Known(s)
  /\ order' = [order EXCEPT ![s].pc = "reserved"]
  /\ dropped' = dropped \ {s}
  /\ UNCHANGED <<mem, master, loader, unsure>>

(* Its exchange is looked up again, and another index may be there by then. *)
ReservedAt(s) == IF Known(s) THEN s.home ELSE Default

SubmitsReserved(s) ==
  /\ Ready
  /\ order[s].pc = "reserved"
  /\ order' = [order EXCEPT ![s] = [pc |-> "sent", at |-> ReservedAt(s)]]
  /\ unsure' = unsure \ {s}
  /\ UNCHANGED <<mem, master, loader, dropped>>

(* Any other order goes where its stock is detected.                        *)
Submits(s) ==
  /\ Ready
  /\ order[s].pc = "considered"
  /\ LET at == DetectMarket(s)
     IN order' = [order EXCEPT ![s] =
          IF at = "blocked" THEN [pc |-> "none", at |-> "none"]
                            ELSE [pc |-> "sent", at |-> at]]
  /\ unsure' = IF Known(s) \/ s.home = "KRX" THEN unsure \ {s} ELSE unsure \cup {s}
  /\ dropped' = dropped \ {s}
  /\ UNCHANGED <<mem, master, loader>>

(* A query or a cancel reaches the order where the index has the stock now. *)
Reaches(s) == order[s].at = IF Known(s) THEN s.home ELSE "KRX"

(* The order ends, by a cancel or as a query shows.                         *)
RouteEnds(s) ==
  /\ Ready
  /\ order[s].pc = "sent"
  /\ Reaches(s)
  /\ order' = [order EXCEPT ![s] = [pc |-> "none", at |-> "none"]]
  /\ unsure' = unsure \ {s} /\ dropped' = dropped \ {s}
  /\ UNCHANGED <<mem, master, loader>>

RouteNext ==
  \/ Restarts
  \/ \E l \in Loaders : Loads(l) \/ Downloads(l)
  \/ \E s \in Stocks : \/ Considers(s) \/ Reserves(s) \/ SubmitsReserved(s)
                        \/ Submits(s) \/ RouteEnds(s)

RouteSpec == RouteInit /\ [][RouteNext]_routeVars

---------------------------------------------------------------------------
(* Whatever was not downloaded or saved, and whatever the index was when a  *)
(* cycle chose the stock, an order is sent to the market of its stock or    *)
(* not at all; except that of a class share sent without its exchange in    *)
(* the index, which goes to KRX, and a reserved one whose exchange an       *)
(* overlapping download took out of the index between its two lookups,      *)
(* which goes to the default.                                               *)
RoutedHome ==
  \A s \in Stocks : order[s].pc = "sent" =>
    \/ order[s].at = s.home
    \/ s.form = "class" /\ s \in unsure
    \/ s \in dropped

====
