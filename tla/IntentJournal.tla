----------------------------- MODULE IntentJournal -----------------------------
(***************************************************************************)
(* The intent journal (local/localapp/intents.py) and the runs that use it *)
(* (runner.run_cycle and the cycles of trader.py), over one trading day.   *)
(*                                                                         *)
(* The scheduler, a RUN_CYCLE_NOW command, the GUI button and the startup  *)
(* catch-up each call run_cycle in a thread of their own.  A run first     *)
(* closes the intents that the journal shows as "submitting", by asking    *)
(* KIS for the day's orders; this happens outside _CYCLE_LOCK.  It then    *)
(* takes the lock and, for each strategy that wants to trade, checks the   *)
(* gate, writes an intent to disk, posts the order and writes the outcome. *)
(* A cycle that raises is tried again, without a second reconciliation.    *)
(* The program may crash between any two steps; only the journal and the   *)
(* broker survive.                                                         *)
(*                                                                         *)
(* Strategies are those that trade one symbol on one side: intents of      *)
(* different symbols or sides never meet, in the gate or in a KIS row.     *)
(***************************************************************************)
EXTENDS Naturals

CONSTANTS
    Strategies,  \* ledger keys trading the symbol on the one side
    Rows,        \* what a KIS row shows of an order: quantity and price
    Intents,     \* intent identifiers (UUIDs)
    Runs,        \* threads that call run_cycle or Trader.cycle
    MaxTries,    \* attempts of one run_cycle
    MaxCrashes,  \* bound: crashes in the day
    MaxLost      \* bound: orders accepted whose reply is lost

None == "none"

ASSUME ConstantsAssumption ==
    /\ None \notin Strategies
    /\ None \notin Intents
    /\ None \notin Runs
    /\ MaxTries \in Nat
    /\ MaxCrashes \in Nat
    /\ MaxLost \in Nat

VARIABLES
    \* intents.jsonl, the last event of an intent deciding its phase
    seed,      \* intent -> [sid, row] of its "submitting" line
    phase,     \* intent -> "unused", "submitting", "submitted" or "failed"
    \* KIS
    kis,       \* intent -> "none", "live" or "cancelled": the order posted for it
    shown,     \* intent -> what the row of its order shows, once there is one
    \* the program
    lock,      \* the run that holds _CYCLE_LOCK
    run,       \* run -> [pc, list, rows, todo, sid, cur, tries]
    \* bounds and history
    crashes,
    losses,
    rejected,  \* intents KIS refused
    exempt     \* strategies that lost the protection, see Forfeits and ReplyLost

journal == <<seed, phase>>
broker  == <<kis, shown>>
bounds  == <<crashes, losses>>
vars == <<journal, broker, lock, run, bounds, rejected, exempt>>

(* Where a run is: between intents.begin and the outcome, or in its cycle. *)
Posting(r) == run[r].pc \in {"begun", "replied", "raised"}
Holding(r) == Posting(r) \/ run[r].pc \in {"pass", "gated"}

-----------------------------------------------------------------------------
(* Reading the journal *)

(* Mutant: the gate only counts intents closed as submitted. *)
IsActiveSubmitted(s) == \E i \in Intents : phase[i] = "submitted" /\ seed[i].sid = s

IsActive(s) == \E i \in Intents : /\ phase[i] \in {"submitting", "submitted"}
                                  /\ seed[i].sid = s

(* Mutant: a reconciliation only looks at intents the broker knows. *)
ListSubmittingKnown == {i \in Intents : phase[i] = "submitting" /\ kis[i] # "none"}

ListSubmitting == {i \in Intents : phase[i] = "submitting"}

LiveOrders == {i \in Intents : kis[i] = "live"}

(* _row_matches: the orders of `rows` whose row looks like intent i.  That *)
(* of its own order need not: KIS may write the symbol in another way, and *)
(* a price more than 5% off the reference is no match.                     *)
Looking(rows, i) == {j \in rows : shown[j] = seed[i].row}
Matches(r, i)    == Looking(run[r].rows, i)

-----------------------------------------------------------------------------
NoSeed == [sid |-> None, row |-> None]
Idle   == [pc |-> "idle", list |-> {}, rows |-> {}, todo |-> {},
           sid |-> None, cur |-> None, tries |-> 0]

Init ==
    /\ seed = [i \in Intents |-> NoSeed]
    /\ phase = [i \in Intents |-> "unused"]
    /\ kis = [i \in Intents |-> "none"]
    /\ shown = [i \in Intents |-> None]
    /\ lock = None
    /\ run = [r \in Runs |-> Idle]
    /\ crashes = 0 /\ losses = 0
    /\ rejected = {}
    /\ exempt = {}

(* Run r goes on with x. *)
Moves(r, x) == run' = [run EXCEPT ![r] = x]

-----------------------------------------------------------------------------
(* reconcile_submitting, without the lock *)

(* run_cycle starts and lists the open intents; with none it asks nothing. *)
Starts(r) ==
    /\ run[r].pc = "idle"
    /\ Moves(r, [Idle EXCEPT !.pc = IF ListSubmitting = {} THEN "closing" ELSE "listed",
                             !.list = ListSubmitting, !.tries = 1])
    /\ UNCHANGED <<journal, broker, lock, bounds, rejected, exempt>>

(* A kill switch trigger calls Trader.cycle directly, and once. *)
Triggers(r) ==
    /\ run[r].pc = "idle"
    /\ Moves(r, [Idle EXCEPT !.pc = "closing", !.tries = MaxTries])
    /\ UNCHANGED <<journal, broker, lock, bounds, rejected, exempt>>

(* Runs that are about to post an intent r has listed, while it asks KIS.  *)
Overtaken(r) == {q \in Runs : run[q].pc = "begun" /\ run[q].cur \in run[r].list}

(* The strategies an answer takes the protection from: r has listed an     *)
(* intent of theirs that is being posted, or whose order is live and       *)
(* without a row that looks like the intent.                               *)
Forfeits(r, rows) ==
    {run[q].sid : q \in Overtaken(r)}
    \cup {seed[i].sid : i \in {j \in run[r].list :
                                   kis[j] = "live" /\ Looking(rows, j) = {}}}

(* KIS answers with the orders of the day that are not cancelled, or with  *)
(* some: only the first page is asked for, reservations are not listed,    *)
(* and an answer that reports a failure (rt_cd) counts as one without rows. *)
KisAnswers(r) ==
    /\ run[r].pc = "listed"
    /\ \E rows \in SUBSET LiveOrders :
          /\ Moves(r, [run[r] EXCEPT !.pc = "closing", !.rows = rows])
          /\ exempt' = exempt \cup Forfeits(r, rows)
    /\ UNCHANGED <<journal, broker, lock, bounds, rejected>>

(* The query fails: every intent is left as it is, and its gate closed.    *)
KisQueryFails(r) ==
    /\ run[r].pc = "listed"
    /\ Moves(r, [run[r] EXCEPT !.pc = "closing", !.list = {}])
    /\ UNCHANGED <<journal, broker, lock, bounds, rejected, exempt>>

(* One listed intent: no matching row fails it, one or several submit it.  *)
ClosesListed(r, i) ==
    /\ run[r].pc = "closing" /\ i \in run[r].list
    /\ phase' = [phase EXCEPT ![i] = IF Matches(r, i) = {} THEN "failed" ELSE "submitted"]
    /\ Moves(r, [run[r] EXCEPT !.list = @ \ {i}])
    /\ UNCHANGED <<seed, broker, lock, bounds, rejected, exempt>>

-----------------------------------------------------------------------------
(* The cycle, under the lock *)

(* Mutant: the cycle does not take the lock. *)
EntersCycleUnlocked(r) ==
    /\ run[r].pc = "closing" /\ run[r].list = {}
    /\ \E todo \in SUBSET Strategies :
          Moves(r, [run[r] EXCEPT !.pc = "pass", !.rows = {}, !.todo = todo])
    /\ UNCHANGED <<journal, broker, lock, bounds, rejected, exempt>>

(* The strategies that want to trade: exits, or candidates not held, none  *)
(* when the balance query fails or the kill switch stops the entries.      *)
EntersCycle(r) ==
    /\ run[r].pc = "closing" /\ run[r].list = {} /\ lock = None
    /\ lock' = r
    /\ \E todo \in SUBSET Strategies :
          Moves(r, [run[r] EXCEPT !.pc = "pass", !.rows = {}, !.todo = todo])
    /\ UNCHANGED <<journal, broker, bounds, rejected, exempt>>

(* The gate: no active intent of today for s.                              *)
PassesGate(r, s) ==
    /\ run[r].pc = "pass" /\ s \in run[r].todo
    /\ ~IsActive(s)
    /\ Moves(r, [run[r] EXCEPT !.pc = "gated", !.todo = @ \ {s}, !.sid = s])
    /\ UNCHANGED <<journal, broker, lock, bounds, rejected, exempt>>

(* intents.begin returns once the line is on the disk.                     *)
Begins(r, i) ==
    /\ run[r].pc = "gated" /\ phase[i] = "unused"
    /\ phase' = [phase EXCEPT ![i] = "submitting"]
    /\ \E w \in Rows : seed' = [seed EXCEPT ![i] = [sid |-> run[r].sid, row |-> w]]
    /\ Moves(r, [run[r] EXCEPT !.pc = "begun", !.cur = i])
    /\ UNCHANGED <<broker, lock, bounds, rejected, exempt>>

(* Nothing to send for s: the gate is closed, or there is no price or cash. *)
Skips(r, s) ==
    /\ run[r].pc = "pass" /\ s \in run[r].todo
    /\ Moves(r, [run[r] EXCEPT !.todo = @ \ {s}])
    /\ UNCHANGED <<journal, broker, lock, bounds, rejected, exempt>>

(* KIS creates the order of intent i, with whatever row it will show.      *)
Creates(i) ==
    /\ kis' = [kis EXCEPT ![i] = "live"]
    /\ \E w \in Rows : shown' = [shown EXCEPT ![i] = w]

(* The order POST returns, accepted or refused (rt_cd # "0").              *)
KisReplies(r) ==
    /\ run[r].pc = "begun"
    /\ \/ Creates(run[r].cur) /\ UNCHANGED rejected
       \/ rejected' = rejected \cup {run[r].cur} /\ UNCHANGED broker
    /\ Moves(r, [run[r] EXCEPT !.pc = "replied"])
    /\ UNCHANGED <<journal, lock, bounds, exempt>>

(* It raises: KIS did not create the order, or did and the reply is lost.  *)
PostFails(r) ==
    /\ run[r].pc = "begun"
    /\ Moves(r, [run[r] EXCEPT !.pc = "raised"])
    /\ UNCHANGED <<journal, broker, lock, bounds, rejected, exempt>>

ReplyLost(r) ==
    /\ run[r].pc = "begun" /\ losses < MaxLost
    /\ losses' = losses + 1
    /\ Creates(run[r].cur)
    /\ exempt' = exempt \cup {run[r].sid}
    /\ Moves(r, [run[r] EXCEPT !.pc = "raised"])
    /\ UNCHANGED <<journal, lock, crashes, rejected>>

(* mark_submitted, also of a refused order; or mark_failed.                *)
MarksSubmitted(r) ==
    /\ run[r].pc = "replied"
    /\ phase' = [phase EXCEPT ![run[r].cur] = "submitted"]
    /\ Moves(r, [run[r] EXCEPT !.pc = "pass", !.sid = None, !.cur = None])
    /\ UNCHANGED <<seed, broker, lock, bounds, rejected, exempt>>

MarksFailed(r) ==
    /\ run[r].pc = "raised"
    /\ phase' = [phase EXCEPT ![run[r].cur] = "failed"]
    /\ Moves(r, [run[r] EXCEPT !.pc = "pass", !.sid = None, !.cur = None])
    /\ UNCHANGED <<seed, broker, lock, bounds, rejected, exempt>>

Returns(r) ==
    /\ run[r].pc = "pass" /\ run[r].todo = {}
    /\ Moves(r, Idle)
    /\ lock' = None
    /\ UNCHANGED <<journal, broker, bounds, rejected, exempt>>

(* Anything else raises: a balance query, today_open between begin and the *)
(* POST, a journal write after it.  run_cycle tries the cycle again.       *)
Raises(r) ==
    /\ Holding(r)
    /\ Moves(r, IF run[r].tries < MaxTries
                THEN [Idle EXCEPT !.pc = "closing", !.tries = run[r].tries + 1]
                ELSE Idle)
    /\ lock' = None
    /\ UNCHANGED <<journal, broker, bounds, rejected, exempt>>

-----------------------------------------------------------------------------
(* The environment *)

Crashes ==
    /\ crashes < MaxCrashes
    /\ crashes' = crashes + 1
    /\ run' = [r \in Runs |-> Idle]
    /\ lock' = None
    /\ UNCHANGED <<journal, broker, losses, rejected, exempt>>

(* An order is cancelled, by the user, the kill switch or the broker.      *)
OrderCancelled(i) ==
    /\ kis[i] = "live"
    /\ kis' = [kis EXCEPT ![i] = "cancelled"]
    /\ UNCHANGED <<journal, shown, lock, run, bounds, rejected, exempt>>

RunStep(r) ==
    \/ KisAnswers(r) \/ KisQueryFails(r)
    \/ \E i \in Intents : ClosesListed(r, i)
    \/ EntersCycle(r)
    \/ \E s \in Strategies : Skips(r, s) \/ PassesGate(r, s)
    \/ \E i \in Intents : Begins(r, i)
    \/ KisReplies(r) \/ PostFails(r) \/ ReplyLost(r)
    \/ MarksSubmitted(r) \/ MarksFailed(r)
    \/ Returns(r) \/ Raises(r)

Next ==
    \/ \E r \in Runs : Starts(r) \/ Triggers(r) \/ RunStep(r)
    \/ Crashes
    \/ \E i \in Intents : OrderCancelled(i)

Spec == Init /\ [][Next]_vars

(* A run that has started keeps being scheduled.  Nothing makes one start, *)
(* and nothing makes KIS answer.                                           *)
FairSpec == Spec /\ \A r \in Runs : WF_vars(RunStep(r))

-----------------------------------------------------------------------------
Phases == {"unused", "submitting", "submitted", "failed"}

RunType == [pc : {"idle", "listed", "closing", "pass", "gated",
                  "begun", "replied", "raised"},
            list : SUBSET Intents, rows : SUBSET Intents,
            todo : SUBSET Strategies, sid : Strategies \cup {None},
            cur : Intents \cup {None}, tries : Nat]

TypeOK ==
    /\ seed \in [Intents -> [sid : Strategies, row : Rows] \cup {NoSeed}]
    /\ phase \in [Intents -> Phases]
    /\ kis \in [Intents -> {"none", "live", "cancelled"}]
    /\ shown \in [Intents -> Rows \cup {None}]
    /\ lock \in Runs \cup {None}
    /\ run \in [Runs -> RunType]
    /\ \A r \in Runs :
          /\ Posting(r) => run[r].cur \in Intents
          /\ Posting(r) \/ run[r].pc = "gated" => run[r].sid \in Strategies
    /\ crashes \in Nat /\ losses \in Nat
    /\ rejected \subseteq Intents
    /\ exempt \subseteq Strategies

(* INV-ORDER-2: however often the program crashes, restarts, runs cycles   *)
(* at the same time or repeats them, a strategy has at most one live order *)
(* of the day, unless a reply of its was lost, its intent was being posted *)
(* while another run reconciled, or a reconciliation got an answer without *)
(* a row that looks like the intent (intents.py:176-178, 206-210).         *)
OneLiveOrder ==
    \A i, j \in Intents :
        /\ kis[i] = "live" /\ kis[j] = "live"
        /\ seed[i].sid = seed[j].sid /\ seed[i].sid \notin exempt
        => i = j

(* What the gate is for: while the order of a strategy not exempt is live, *)
(* no cycle of the day passes its gate, however reconciliations and cycles *)
(* interleave.                                                             *)
GateCoversLive ==
    \A i \in Intents :
        kis[i] = "live" /\ seed[i].sid \notin exempt => IsActive(seed[i].sid)

(* Why these hold: only the run with the lock is in its cycle; ...         *)
LockHeld == \A r \in Runs : Holding(r) => lock = r

(* ... an intent is used once, and a run posts and lists only used ones;   *)
UsedIntents ==
    /\ \A i \in Intents :
          IF phase[i] = "unused" THEN seed[i] = NoSeed /\ kis[i] = "none"
                                 ELSE seed[i] \in [sid : Strategies, row : Rows]
    /\ \A r \in Runs :
          /\ \A i \in run[r].list : phase[i] # "unused"
          /\ Posting(r) => /\ phase[run[r].cur] # "unused"
                           /\ seed[run[r].cur].sid = run[r].sid
          /\ run[r].pc = "begun" => kis[run[r].cur] = "none"

(* ... what KIS answered still shows an order that looks like each intent  *)
(* left to close whose order is live, and none is about to be posted;      *)
AnswerCovers ==
    \A r \in Runs : run[r].pc = "closing" =>
        \A i \in run[r].list : seed[i].sid \notin exempt =>
            /\ kis[i] = "live" => Matches(r, i) # {}
            /\ \A q \in Runs : run[q].pc = "begun" => run[q].cur # i

(* ... a run past the gate finds no live order, and its intent stays open  *)
(* until it is posted;                                                     *)
NoneBeforePost ==
    \A r \in Runs : run[r].sid \notin exempt =>
        /\ run[r].pc \in {"gated", "begun"} =>
              \A i \in Intents : kis[i] = "live" => seed[i].sid # run[r].sid
        /\ run[r].pc = "begun" => phase[run[r].cur] = "submitting"
        /\ run[r].pc = "raised" => kis[run[r].cur] # "live"

(* ... so the intent of a live order is never closed as failed.            *)
LiveIsActive ==
    \A i \in Intents : kis[i] = "live" /\ seed[i].sid \notin exempt =>
                          phase[i] \in {"submitting", "submitted"}

(* A strategy is not silenced for nothing: an intent closed as submitted   *)
(* was refused by KIS, or has had an order, or KIS has had one that looks  *)
(* like it.                                                                *)
SubmittedForCause ==
    \A i \in Intents :
        phase[i] = "submitted" =>
            \/ i \in rejected \/ kis[i] # "none"
            \/ \E j \in Intents : kis[j] # "none" /\ shown[j] = seed[i].row

(* Why: an answer lists orders that exist, and a reply means one or a      *)
(* refusal.                                                                *)
RepliesBacked ==
    \A r \in Runs :
        /\ \A j \in run[r].rows : kis[j] # "none"
        /\ run[r].pc = "replied" => \/ run[r].cur \in rejected
                                    \/ kis[run[r].cur] # "none"

(* An intent that a crash left open does not block its strategy for good:  *)
(* if run_cycle is called again and again, it is closed, unless KIS fails  *)
(* its queries for ever.                                                   *)
StuckIntentsClose ==
    \A r \in Runs :
        []<><<Starts(r)>>_vars =>
            \/ \A i \in Intents : phase[i] = "submitting" ~> phase[i] # "submitting"
            \/ []<><<KisQueryFails(r)>>_vars

(* The journal implements the promise: orders and exempt strategies.       *)
Promise == INSTANCE OrderOnce WITH
    Ids <- Intents,
    live <- {<<seed[i].sid, i>> : i \in LiveOrders}

OrdersOnce == Promise!Spec

(* docs/INVARIANTS.md, INV-ORDER-2: one submission per intent at most,     *)
(* with no exemption for runs that overlap.                                *)
NeverTwoLive ==
    \A i, j \in Intents :
        kis[i] = "live" /\ kis[j] = "live" /\ seed[i].sid = seed[j].sid => i = j
=============================================================================
