---- MODULE MCParts ----
(* The other machines of the server and of the application, each on its own *)
(* variables: a behaviour is one of the machine that its first state names. *)
EXTENDS Alerts, Timeline, DataCache, Screens, Fetching, Freshness,
        EventEngine, Rebalance, Attribution, Broker, Routing, Account, TLC

CONSTANTS c1, c2, q1, q2, a, b, k1, k2, t1, t2, nas, nys, l1, l2, k, u

VARIABLE machine

Machines == {"alerts", "timeline", "cache", "screens", "fetching",
             "freshness", "events", "rebalance", "profit", "broker",
             "routing", "account"}

MCOrder == <<a, b>>
MCStocks == {[form |-> "code", home |-> "KRX"], [form |-> "ticker", home |-> nys],
             [form |-> "class", home |-> nas]}

(* The variables of the other machines rest; where those may start in       *)
(* several states, they rest in one of them.  A strategy that selects less, *)
(* or has less money, has only fewer candidates in a preview.               *)
Init ==
  /\ machine \in Machines
  /\ AlertInit
  /\ TimeInit
  /\ CacheInit
  /\ ScreenInit
  /\ FetchingInit
  /\ machine # "fetching" => feed = "korean"
  /\ FreshnessInit
  /\ machine # "freshness" =>
                    /\ sessions["KR"] = {} /\ sessions["US"] = {}
                    /\ ~winter /\ selected = {} /\ ~dear
  /\ machine = "freshness" => selected = Markets /\ ~dear
  /\ EngineInit
  /\ machine # "events" => fillPlan = [fill |-> "typical", part |-> 1, slice |-> 1]
  /\ RebalanceInit
  /\ machine # "rebalance" =>
                    /\ plan = [deferred |-> FALSE, leverage |-> 1, refill |-> FALSE,
                                direction |-> "long"]
                    /\ close = [s \in Universe |-> 1]
  /\ AttributionInit
  /\ BrokerInit
  /\ RouteInit
  /\ AccountInit
  /\ machine # "account" => \A i \in Entries : ledger[i] = [symbol |-> k, qty |-> 1]

Rest ==
  /\ UNCHANGED machine
  /\ machine # "alerts" => UNCHANGED alertVars
  /\ machine # "timeline" => UNCHANGED timeVars
  /\ machine # "cache" => UNCHANGED cacheVars
  /\ machine # "screens" => UNCHANGED screenVars
  /\ machine # "fetching" => UNCHANGED fetchingVars
  /\ machine # "freshness" => UNCHANGED freshnessVars
  /\ machine # "events" => UNCHANGED engineVars
  /\ machine # "rebalance" => UNCHANGED rebalanceVars
  /\ machine # "profit" => UNCHANGED attributionVars
  /\ machine # "broker" => UNCHANGED brokerVars
  /\ machine # "routing" => UNCHANGED routeVars
  /\ machine # "account" => UNCHANGED accountVars

Next ==
  \/ machine = "alerts" /\ AlertNext /\ Rest
  \/ machine = "timeline" /\ TimeNext /\ Rest
  \/ machine = "cache" /\ CacheNext /\ Rest
  \/ machine = "screens" /\ ScreenNext /\ Rest
  \/ machine = "fetching" /\ FetchingNext /\ Rest
  \/ machine = "freshness" /\ FreshnessNext /\ Rest
  \/ machine = "events" /\ EngineNext /\ Rest
  \/ machine = "rebalance" /\ RebalanceNext /\ Rest
  \/ machine = "profit" /\ AttributionNext /\ Rest
  \/ machine = "broker" /\ BrokerNext /\ Rest
  \/ machine = "routing" /\ RouteNext /\ Rest
  \/ machine = "account" /\ AccountNext /\ Rest

vars == <<machine, alertVars, timeVars, cacheVars,
          screenVars, fetchingVars, freshnessVars, engineVars, rebalanceVars,
          attributionVars, brokerVars, routeVars, accountVars>>

Spec == Init /\ [][Next]_vars
====
