---- MODULE MCTrading ----
(* What a trading cycle lives on and leaves: the prices it reads            *)
(* (DatasetSync), the preview it takes its candidates from (Preview), the   *)
(* keys its orders go to (Entries), their bookings (OrderFills) and the     *)
(* notices of them that arrive (OrderStream).  Each machine has its own     *)
(* variables, and a behaviour is one of the machine that its first state    *)
(* names.                                                                   *)
EXTENDS DatasetSync, Preview, Entries, OrderFills, OrderStream, TLC

CONSTANTS o1, k1, t1, t2, a, b, s1, m1, f1, f2

VARIABLE machine

Machines == {"fills", "entries", "notices", "dataset", "preview"}

MCPicks == [sid \in {s1, m1} |-> IF sid = s1 THEN <<a>> ELSE <<a, b>>]

(* The variables of the other machines rest; where those may start in       *)
(* several states, they rest in one of them.                                *)
TradingInit ==
  /\ machine \in Machines
  /\ Init
  /\ machine # "fills" => \A o \in Loaded : order[o].side = "buy" /\ order[o].qty = 1
  /\ machine # "fills" => ledger = <<>>
  /\ EntriesInit
  /\ OrderStreamInit
  /\ machine # "notices" => venue = "KR" /\ approval
  /\ DatasetInit
  /\ PreviewInit

Rest ==
  /\ UNCHANGED machine
  /\ machine # "fills" => UNCHANGED vars
  /\ machine # "entries" => UNCHANGED entriesVars
  /\ machine # "notices" => UNCHANGED orderStreamVars
  /\ machine # "dataset" => UNCHANGED dataVars
  /\ machine # "preview" => UNCHANGED previewVars

TradingNext ==
  \/ machine = "fills" /\ Next /\ Rest
  \/ machine = "entries" /\ EntriesNext /\ Rest
  \/ machine = "notices" /\ OrderStreamNext /\ Rest
  \/ machine = "dataset" /\ DatasetNext /\ Rest
  \/ machine = "preview" /\ PreviewNext /\ Rest

tradingVars == <<machine, vars, entriesVars, orderStreamVars, dataVars,
                 previewVars>>

TradingSpec == TradingInit /\ [][TradingNext]_tradingVars
====
