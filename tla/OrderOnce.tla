------------------------------- MODULE OrderOnce -------------------------------
(***************************************************************************)
(* What the intent journal promises (docs/INVARIANTS.md, INV-ORDER-1 and   *)
(* INV-ORDER-2): whatever crashes and restarts happen in between, a        *)
(* strategy has at most one live order of the day for a symbol and side.   *)
(* Strategies in `exempt` have lost that protection.                       *)
(***************************************************************************)
CONSTANTS Strategies, Ids

VARIABLES
    live,    \* the live orders at the broker, as <<strategy, id>> pairs
    exempt   \* strategies the promise no longer covers

vars == <<live, exempt>>

HasLive(s) == \E i \in Ids : <<s, i>> \in live

Init == live = {} /\ exempt = {}

(* An order is created, only for a strategy that has none or is exempt.    *)
Submit(s, i) ==
    /\ HasLive(s) => s \in exempt'
    /\ live' = live \cup {<<s, i>>}
    /\ exempt' \in {exempt, exempt \cup {s}}

Cancel(s, i) == live' = live \ {<<s, i>>} /\ UNCHANGED exempt

(* The promise is given up for some strategies. *)
GiveUp == exempt \subseteq exempt' /\ exempt' \subseteq Strategies /\ UNCHANGED live

Next ==
    \/ \E s \in Strategies, i \in Ids : Submit(s, i) \/ Cancel(s, i)
    \/ GiveUp

Spec == Init /\ [][Next]_vars
=============================================================================
