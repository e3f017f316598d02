------------------------- MODULE IntentJournal_proofs -------------------------
(***************************************************************************)
(* Invariants of IntentJournal for any strategies, rows, intents, runs and *)
(* bounds, and that it implements OrderOnce.                               *)
(***************************************************************************)
EXTENDS IntentJournal, TLAPS

-----------------------------------------------------------------------------
(* A step of one run leaves the others where they are.                     *)
LEMMA MovesRun ==
    ASSUME run \in [Runs -> RunType], NEW r \in Runs, NEW x \in RunType, Moves(r, x)
    PROVE  /\ run' \in [Runs -> RunType]
           /\ run'[r] = x
           /\ \A q \in Runs : q # r => run'[q] = run[q]
BY DEF Moves

LEMMA IdleType == Idle \in RunType
BY DEF Idle, RunType

(* An order that KIS creates keeps the types of the orders and their rows. *)
LEMMA CreatesType ==
    ASSUME NEW i \in Intents, Creates(i),
           kis \in [Intents -> {"none", "live", "cancelled"}],
           shown \in [Intents -> Rows \cup {None}]
    PROVE  /\ kis' \in [Intents -> {"none", "live", "cancelled"}]
           /\ shown' \in [Intents -> Rows \cup {None}]
           /\ kis'[i] = "live"
           /\ \A j \in Intents : j # i => kis'[j] = kis[j] /\ shown'[j] = shown[j]
BY DEF Creates

(* Every step keeps the types of the journal, of the orders and of what    *)
(* the runs remember.                                                      *)
LEMMA NextTypeOK ==
    ASSUME TypeOK, UsedIntents, [Next]_vars
    PROVE  TypeOK'
<1> USE ConstantsAssumption, IdleType DEF TypeOK
<1>a. run \in [Runs -> RunType]
  OBVIOUS
<1>b. ASSUME NEW r \in Runs, NEW x \in RunType, Moves(r, x),
             x.pc \in {"begun", "replied", "raised"} => x.cur \in Intents,
             x.pc \in {"gated", "begun", "replied", "raised"} => x.sid \in Strategies
      PROVE  /\ run' \in [Runs -> RunType]
             /\ \A q \in Runs :
                   /\ Posting(q)' => run'[q].cur \in Intents
                   /\ Posting(q)' \/ run'[q].pc = "gated" => run'[q].sid \in Strategies
  BY <1>a, <1>b, MovesRun DEF Posting
<1>0. CASE UNCHANGED vars
  BY <1>0 DEF vars, journal, broker, bounds, Posting
<1>1. ASSUME NEW r \in Runs, Starts(r) PROVE TypeOK'
  <2> DEFINE x == [Idle EXCEPT !.pc = IF ListSubmitting = {} THEN "closing" ELSE "listed",
                               !.list = ListSubmitting, !.tries = 1]
  <2>1. x \in RunType /\ x.pc \in {"closing", "listed"}
    BY DEF Idle, RunType, ListSubmitting
  <2>2. Moves(r, x)
    BY <1>1 DEF Starts
  <2> HIDE DEF x
  <2> QED
    BY <1>1, <2>1, <2>2, <1>b DEF Starts, journal, broker, bounds
<1>2. ASSUME NEW r \in Runs, KisAnswers(r) \/ KisQueryFails(r) PROVE TypeOK'
  <2>1. CASE KisAnswers(r)
    <3>0. PICK rows \in SUBSET LiveOrders :
             /\ Moves(r, [run[r] EXCEPT !.pc = "closing", !.rows = rows])
             /\ exempt' = exempt \cup Forfeits(r, rows)
      BY <2>1 DEF KisAnswers
    <3> DEFINE x == [run[r] EXCEPT !.pc = "closing", !.rows = rows]
    <3>1. x \in RunType /\ x.pc = "closing"
      BY <1>a DEF RunType, LiveOrders
    <3>2. Moves(r, x)
      BY <3>0
    <3>3. Forfeits(r, rows) \subseteq Strategies
      BY <1>a DEF Forfeits, Overtaken, Posting, RunType, UsedIntents
    <3> HIDE DEF x
    <3> QED
      BY <2>1, <3>0, <3>1, <3>2, <3>3, <1>b DEF KisAnswers, journal, broker, bounds
  <2>2. CASE KisQueryFails(r)
    <3> DEFINE x == [run[r] EXCEPT !.pc = "closing", !.list = {}]
    <3>1. x \in RunType /\ x.pc = "closing"
      BY <1>a DEF RunType
    <3>2. Moves(r, x)
      BY <2>2 DEF KisQueryFails
    <3> HIDE DEF x
    <3> QED
      BY <2>2, <3>1, <3>2, <1>b DEF KisQueryFails, journal, broker, bounds
  <2> QED
    BY <1>2, <2>1, <2>2
<1>3. ASSUME NEW r \in Runs, Triggers(r) PROVE TypeOK'
  <2> DEFINE x == [Idle EXCEPT !.pc = "closing", !.tries = MaxTries]
  <2>1. x \in RunType /\ x.pc = "closing"
    BY DEF Idle, RunType
  <2>2. Moves(r, x)
    BY <1>3 DEF Triggers
  <2> HIDE DEF x
  <2> QED
    BY <1>3, <2>1, <2>2, <1>b DEF Triggers, journal, broker, bounds
<1>4. ASSUME NEW r \in Runs, NEW i \in Intents, ClosesListed(r, i) PROVE TypeOK'
  <2> DEFINE x == [run[r] EXCEPT !.list = @ \ {i}]
  <2>1. x \in RunType /\ x.pc = "closing"
    BY <1>4, <1>a DEF ClosesListed, RunType, Posting
  <2>2. Moves(r, x)
    BY <1>4 DEF ClosesListed
  <2> HIDE DEF x
  <2> QED
    BY <1>4, <2>1, <2>2, <1>b DEF ClosesListed, journal, broker, bounds, Phases
<1>5. ASSUME NEW r \in Runs, EntersCycle(r) PROVE TypeOK'
  <2>1. PICK todo \in SUBSET Strategies :
            Moves(r, [run[r] EXCEPT !.pc = "pass", !.rows = {}, !.todo = todo])
    BY <1>5 DEF EntersCycle
  <2> DEFINE x == [run[r] EXCEPT !.pc = "pass", !.rows = {}, !.todo = todo]
  <2>2. x \in RunType /\ x.pc = "pass"
    BY <1>a DEF RunType
  <2>3. Moves(r, x)
    BY <2>1
  <2> HIDE DEF x
  <2> QED
    BY <1>5, <2>2, <2>3, <1>b DEF EntersCycle, journal, broker, bounds
<1>6. ASSUME NEW r \in Runs, NEW s \in Strategies, PassesGate(r, s) PROVE TypeOK'
  <2> DEFINE x == [run[r] EXCEPT !.pc = "gated", !.todo = @ \ {s}, !.sid = s]
  <2>1. x \in RunType /\ x.pc = "gated" /\ x.sid \in Strategies
    BY <1>6, <1>a DEF PassesGate, RunType, Posting
  <2>2. Moves(r, x)
    BY <1>6 DEF PassesGate
  <2> HIDE DEF x
  <2> QED
    BY <1>6, <2>1, <2>2, <1>b DEF PassesGate, journal, broker, bounds
<1>7. ASSUME NEW r \in Runs, NEW s \in Strategies, Skips(r, s) PROVE TypeOK'
  <2> DEFINE x == [run[r] EXCEPT !.todo = @ \ {s}]
  <2>1. x \in RunType /\ x.pc = "pass"
    BY <1>7, <1>a DEF Skips, RunType, Posting
  <2>2. Moves(r, x)
    BY <1>7 DEF Skips
  <2> HIDE DEF x
  <2> QED
    BY <1>7, <2>1, <2>2, <1>b DEF Skips, journal, broker, bounds
<1>8. ASSUME NEW r \in Runs, NEW i \in Intents, Begins(r, i) PROVE TypeOK'
  <2> DEFINE x == [run[r] EXCEPT !.pc = "begun", !.cur = i]
  <2>1. x \in RunType /\ x.cur \in Intents /\ x.sid \in Strategies
    BY <1>8, <1>a DEF Begins, RunType, Posting
  <2>2. Moves(r, x)
    BY <1>8 DEF Begins
  <2> HIDE DEF x
  <2> QED
    BY <1>8, <2>1, <2>2, <1>b DEF Begins, journal, broker, bounds, Phases
<1>9. ASSUME NEW r \in Runs, KisReplies(r) PROVE TypeOK'
  <2> DEFINE x == [run[r] EXCEPT !.pc = "replied"]
  <2>1. x \in RunType /\ x.cur \in Intents /\ x.sid \in Strategies
    BY <1>9, <1>a DEF KisReplies, RunType, Posting
  <2>2. Moves(r, x)
    BY <1>9 DEF KisReplies
  <2> HIDE DEF x
  <2>3. UNCHANGED <<journal, lock, bounds, exempt>>
    BY <1>9 DEF KisReplies
  <2>4. /\ kis' \in [Intents -> {"none", "live", "cancelled"}]
        /\ shown' \in [Intents -> Rows \cup {None}] /\ rejected' \subseteq Intents
    <3>1. run[r].cur \in Intents
      BY <1>9 DEF KisReplies, Posting
    <3>2. CASE Creates(run[r].cur) /\ UNCHANGED rejected
      BY <3>1, <3>2, CreatesType
    <3>3. CASE rejected' = rejected \cup {run[r].cur} /\ UNCHANGED broker
      BY <3>1, <3>3 DEF broker
    <3> QED
      BY <1>9, <3>2, <3>3 DEF KisReplies
  <2> QED
    BY <2>1, <2>2, <2>3, <2>4, <1>b DEF journal, bounds
<1>10. ASSUME NEW r \in Runs, PostFails(r) PROVE TypeOK'
  <2> DEFINE x == [run[r] EXCEPT !.pc = "raised"]
  <2>1. x \in RunType /\ x.cur \in Intents /\ x.sid \in Strategies
    BY <1>10, <1>a DEF PostFails, RunType, Posting
  <2>2. Moves(r, x)
    BY <1>10 DEF PostFails
  <2> HIDE DEF x
  <2> QED
    BY <1>10, <2>1, <2>2, <1>b DEF PostFails, journal, broker, bounds
<1>11. ASSUME NEW r \in Runs, ReplyLost(r) PROVE TypeOK'
  <2> DEFINE x == [run[r] EXCEPT !.pc = "raised"]
  <2>1. x \in RunType /\ x.cur \in Intents /\ x.sid \in Strategies
    BY <1>11, <1>a DEF ReplyLost, RunType, Posting
  <2>2. Moves(r, x)
    BY <1>11 DEF ReplyLost
  <2> HIDE DEF x
  <2>3. losses' \in Nat
    BY <1>11 DEF ReplyLost
  <2>4. /\ kis' \in [Intents -> {"none", "live", "cancelled"}]
        /\ shown' \in [Intents -> Rows \cup {None}]
    BY <1>11, CreatesType DEF ReplyLost, Posting
  <2>5. exempt' \subseteq Strategies /\ UNCHANGED <<journal, lock, crashes, rejected>>
    BY <1>11 DEF ReplyLost, Posting
  <2> QED
    BY <2>1, <2>2, <2>3, <2>4, <2>5, <1>b DEF journal
<1>12. ASSUME NEW r \in Runs, MarksSubmitted(r) PROVE TypeOK'
  <2> DEFINE x == [run[r] EXCEPT !.pc = "pass", !.sid = None, !.cur = None]
  <2>1. x \in RunType /\ x.pc = "pass"
    BY <1>12, <1>a DEF MarksSubmitted, RunType, Posting
  <2>2. Moves(r, x)
    BY <1>12 DEF MarksSubmitted
  <2> HIDE DEF x
  <2> QED
    BY <1>12, <2>1, <2>2, <1>b DEF MarksSubmitted, journal, broker, bounds, Phases
<1>13. ASSUME NEW r \in Runs, MarksFailed(r) PROVE TypeOK'
  <2> DEFINE x == [run[r] EXCEPT !.pc = "pass", !.sid = None, !.cur = None]
  <2>1. x \in RunType /\ x.pc = "pass"
    BY <1>13, <1>a DEF MarksFailed, RunType, Posting
  <2>2. Moves(r, x)
    BY <1>13 DEF MarksFailed
  <2> HIDE DEF x
  <2> QED
    BY <1>13, <2>1, <2>2, <1>b DEF MarksFailed, journal, broker, bounds, Phases
<1>14. ASSUME NEW r \in Runs, Returns(r) PROVE TypeOK'
  <2>1. Idle.pc = "idle"
    BY DEF Idle
  <2> QED
    BY <1>14, <2>1, <1>b DEF Returns, journal, broker, bounds
<1>15. ASSUME NEW r \in Runs, Raises(r) PROVE TypeOK'
  <2> DEFINE x == IF run[r].tries < MaxTries
                  THEN [Idle EXCEPT !.pc = "closing", !.tries = run[r].tries + 1]
                  ELSE Idle
  <2>1. x \in RunType /\ x.pc \in {"closing", "idle"}
    <3>1. CASE run[r].tries < MaxTries
      <4>1. run[r].tries + 1 \in Nat
        BY <1>a DEF RunType
      <4> QED
        BY <3>1, <4>1 DEF Idle, RunType
    <3>2. CASE ~(run[r].tries < MaxTries)
      BY <3>2 DEF Idle, RunType
    <3> QED
      BY <3>1, <3>2
  <2>2. Moves(r, x)
    BY <1>15 DEF Raises
  <2> HIDE DEF x
  <2> QED
    BY <1>15, <2>1, <2>2, <1>b DEF Raises, journal, broker, bounds
<1>16. CASE Crashes
  BY <1>16 DEF Crashes, Idle, RunType, Posting, journal, broker, bounds
<1>17. ASSUME NEW i \in Intents, OrderCancelled(i) PROVE TypeOK'
  BY <1>17 DEF OrderCancelled, Posting, journal, broker, bounds
<1> QED
  BY <1>0, <1>1, <1>2, <1>3, <1>4, <1>5, <1>6, <1>7, <1>8, <1>9, <1>10, <1>11,
     <1>12, <1>13, <1>14, <1>15, <1>16, <1>17 DEF Next, RunStep

(* The strengthening of the safety invariants that is inductive.           *)
IInv ==
    /\ LockHeld /\ UsedIntents /\ AnswerCovers /\ NoneBeforePost /\ RepliesBacked
    /\ LiveIsActive /\ OneLiveOrder /\ SubmittedForCause

LEMMA NextIInv ==
    ASSUME TypeOK, TypeOK', IInv, [Next]_vars
    PROVE  IInv'
<1> USE ConstantsAssumption
<1>a. run \in [Runs -> RunType] /\ run' \in [Runs -> RunType]
  BY DEF TypeOK
<1>0. CASE UNCHANGED vars
  BY <1>0 DEF vars, journal, broker, bounds, IInv, LockHeld, UsedIntents, AnswerCovers, Matches, Looking,
     NoneBeforePost, RepliesBacked, LiveIsActive, OneLiveOrder, SubmittedForCause,
     Holding, Posting
<1>1. ASSUME NEW r \in Runs, Starts(r) PROVE IInv'
  <2>1. /\ \A q \in Runs : q # r => run'[q] = run[q]
        /\ run'[r].pc \in {"closing", "listed"}
        /\ run'[r].list = ListSubmitting
        /\ run'[r].rows = {}
        /\ run'[r].sid = None
        /\ run'[r].pc = "closing" => run'[r].list = {}
    BY <1>1, <1>a DEF Starts, Moves, RunType, Idle
  <2>2. UNCHANGED <<seed, phase, kis, shown, lock, rejected, exempt>>
    BY <1>1 DEF Starts, journal, broker
  <2>3. LockHeld'
    BY <1>1, <1>a, <2>1, <2>2 DEF IInv, LockHeld, Holding, Posting, Starts
  <2>4. UsedIntents'
    BY <1>a, <2>1, <2>2 DEF IInv, UsedIntents, Posting, TypeOK, ListSubmitting
  <2>5. AnswerCovers'
    BY <1>1, <1>a, <2>1, <2>2 DEF IInv, AnswerCovers, Matches, Looking, Starts
  <2>6. NoneBeforePost'
    BY <1>1, <1>a, <2>1, <2>2 DEF IInv, NoneBeforePost, Starts
  <2>7. RepliesBacked'
    BY <1>1, <1>a, <2>1, <2>2 DEF IInv, RepliesBacked, Starts
  <2>8. LiveIsActive' /\ OneLiveOrder' /\ SubmittedForCause'
    BY <2>2 DEF IInv, LiveIsActive, OneLiveOrder, SubmittedForCause
  <2> QED
    BY <2>3, <2>4, <2>5, <2>6, <2>7, <2>8 DEF IInv
<1>2. ASSUME NEW r \in Runs, Triggers(r) PROVE IInv'
  <2>1. /\ \A q \in Runs : q # r => run'[q] = run[q]
        /\ run'[r].pc = "closing"
        /\ run'[r].list = {}
        /\ run'[r].rows = {}
        /\ run'[r].sid = None
    BY <1>2, <1>a DEF Triggers, Moves, RunType, Idle
  <2>2. UNCHANGED <<seed, phase, kis, shown, lock, rejected, exempt>>
    BY <1>2 DEF Triggers, journal, broker
  <2>3. LockHeld'
    BY <1>2, <1>a, <2>1, <2>2 DEF IInv, LockHeld, Holding, Posting, Triggers
  <2>4. UsedIntents'
    BY <1>2, <1>a, <2>1, <2>2 DEF IInv, UsedIntents, Posting, TypeOK, Triggers
  <2>5. AnswerCovers'
    BY <1>2, <1>a, <2>1, <2>2 DEF IInv, AnswerCovers, Matches, Looking, Triggers
  <2>6. NoneBeforePost'
    BY <1>2, <1>a, <2>1, <2>2 DEF IInv, NoneBeforePost, Triggers
  <2>7. RepliesBacked'
    BY <1>2, <1>a, <2>1, <2>2 DEF IInv, RepliesBacked, Triggers
  <2>8. LiveIsActive' /\ OneLiveOrder' /\ SubmittedForCause'
    BY <2>2 DEF IInv, LiveIsActive, OneLiveOrder, SubmittedForCause
  <2> QED
    BY <2>3, <2>4, <2>5, <2>6, <2>7, <2>8 DEF IInv
<1>3. ASSUME NEW r \in Runs, KisAnswers(r) PROVE IInv'
  <2>0. PICK rows \in SUBSET LiveOrders :
           /\ Moves(r, [run[r] EXCEPT !.pc = "closing", !.rows = rows])
           /\ exempt' = exempt \cup Forfeits(r, rows)
    BY <1>3 DEF KisAnswers
  <2>1. /\ \A q \in Runs : q # r => run'[q] = run[q]
        /\ run[r].pc = "listed" /\ run'[r].pc = "closing"
        /\ run'[r].rows = rows
        /\ run'[r].list = run[r].list
        /\ run'[r].sid = run[r].sid
        /\ run'[r].cur = run[r].cur
    <3>1. run[r].pc = "listed"
      BY <1>3 DEF KisAnswers
    <3>2. run' = [run EXCEPT ![r] = [run[r] EXCEPT !.pc = "closing", !.rows = rows]]
      BY <2>0 DEF Moves
    <3> QED
      BY <3>1, <3>2, <1>a DEF RunType
  <2>2. UNCHANGED <<seed, phase, kis, shown, lock, rejected>>
    BY <1>3 DEF KisAnswers, journal, broker
  <2>3. LockHeld'
    BY <1>3, <1>a, <2>1, <2>2 DEF IInv, LockHeld, Holding, Posting, KisAnswers
  <2>4. UsedIntents'
    BY <1>3, <1>a, <2>1, <2>2 DEF IInv, UsedIntents, Posting, TypeOK, KisAnswers
  <2>5. AnswerCovers'
    <3>2. ASSUME NEW i \in run[r].list, seed[i].sid \notin exempt'
          PROVE  /\ kis[i] = "live" => Looking(rows, i) # {}
                 /\ \A q \in Runs : run'[q].pc = "begun" => run'[q].cur # i
      <4>1. ASSUME NEW q \in Runs, run'[q].pc = "begun", run'[q].cur = i PROVE FALSE
        <5>1. q # r /\ run[q].pc = "begun" /\ run[q].cur = i
          BY <2>1, <4>1
        <5>2. run[q].sid \in exempt'
          BY <5>1, <2>0 DEF Overtaken, Forfeits
        <5>3. seed[i].sid = run[q].sid
          BY <5>1 DEF IInv, UsedIntents, Posting
        <5> QED
          BY <5>2, <5>3, <3>2
      <4>2. ASSUME kis[i] = "live", Looking(rows, i) = {} PROVE FALSE
        <5>1. seed[i].sid \in Forfeits(r, rows)
          BY <4>2 DEF Forfeits
        <5> QED
          BY <5>1, <2>0, <3>2
      <4> QED
        BY <4>1, <4>2
    <3>3. ASSUME NEW q \in Runs, q # r, run'[q].pc = "closing",
                 NEW i \in run'[q].list, seed[i].sid \notin exempt'
          PROVE  /\ kis[i] = "live" => Looking(run'[q].rows, i) # {}
                 /\ \A t \in Runs : run'[t].pc = "begun" => run'[t].cur # i
      BY <3>3, <2>0, <2>1 DEF IInv, AnswerCovers, Matches
    <3> QED
      BY <3>2, <3>3, <2>1, <2>2 DEF AnswerCovers, Matches, Looking
  <2>6. NoneBeforePost'
    BY <1>3, <1>a, <2>1, <2>2 DEF IInv, NoneBeforePost, KisAnswers
  <2>7. RepliesBacked'
    BY <1>a, <2>0, <2>1, <2>2 DEF IInv, RepliesBacked, LiveOrders
  <2>8. LiveIsActive'
    BY <1>3, <1>a, <2>1, <2>2 DEF IInv, LiveIsActive, KisAnswers
  <2>9. OneLiveOrder'
    BY <1>3, <1>a, <2>1, <2>2 DEF IInv, OneLiveOrder, KisAnswers
  <2>10. SubmittedForCause'
    BY <1>3, <1>a, <2>1, <2>2 DEF IInv, SubmittedForCause, KisAnswers
  <2> QED
    BY <2>3, <2>4, <2>5, <2>6, <2>7, <2>8, <2>9, <2>10 DEF IInv
<1>4. ASSUME NEW r \in Runs, KisQueryFails(r) PROVE IInv'
  <2>1. /\ \A q \in Runs : q # r => run'[q] = run[q]
        /\ run'[r].pc = "closing"
        /\ run'[r].list = {}
        /\ run'[r].rows = run[r].rows
        /\ run'[r].sid = run[r].sid
        /\ run'[r].cur = run[r].cur
    BY <1>4, <1>a DEF KisQueryFails, Moves, RunType, Idle
  <2>2. UNCHANGED <<seed, phase, kis, shown, lock, rejected, exempt>>
    BY <1>4 DEF KisQueryFails, journal, broker
  <2>3. LockHeld'
    BY <1>4, <1>a, <2>1, <2>2 DEF IInv, LockHeld, Holding, Posting, KisQueryFails
  <2>4. UsedIntents'
    BY <1>4, <1>a, <2>1, <2>2 DEF IInv, UsedIntents, Posting, TypeOK, KisQueryFails
  <2>5. AnswerCovers'
    BY <1>4, <1>a, <2>1, <2>2 DEF IInv, AnswerCovers, Matches, Looking, KisQueryFails
  <2>6. NoneBeforePost'
    BY <1>4, <1>a, <2>1, <2>2 DEF IInv, NoneBeforePost, KisQueryFails
  <2>7. RepliesBacked'
    BY <1>4, <1>a, <2>1, <2>2 DEF IInv, RepliesBacked, KisQueryFails
  <2>8. LiveIsActive' /\ OneLiveOrder' /\ SubmittedForCause'
    BY <2>2 DEF IInv, LiveIsActive, OneLiveOrder, SubmittedForCause
  <2> QED
    BY <2>3, <2>4, <2>5, <2>6, <2>7, <2>8 DEF IInv
<1>5. ASSUME NEW r \in Runs, NEW i \in Intents, ClosesListed(r, i) PROVE IInv'
  <2>1. /\ \A q \in Runs : q # r => run'[q] = run[q]
        /\ run'[r].pc = "closing"
        /\ run'[r].list = run[r].list \ {i}
        /\ run'[r].rows = run[r].rows
        /\ run'[r].sid = run[r].sid
        /\ run'[r].cur = run[r].cur
    BY <1>5, <1>a DEF ClosesListed, Moves, RunType, Idle
  <2>2. UNCHANGED <<seed, kis, shown, lock, rejected, exempt>>
    BY <1>5 DEF ClosesListed, journal, broker
  <2>c. /\ phase'[i] \in {"failed", "submitted"}
        /\ phase'[i] = "failed" <=> Matches(r, i) = {}
        /\ \A j \in Intents : j # i => phase'[j] = phase[j]
        /\ run[r].pc = "closing" /\ i \in run[r].list
    BY <1>5 DEF ClosesListed, TypeOK
  <2>3. LockHeld'
    BY <1>5, <1>a, <2>1, <2>2 DEF IInv, LockHeld, Holding, Posting, ClosesListed
  <2>4. UsedIntents'
    BY <1>5, <1>a, <2>1, <2>2 DEF IInv, UsedIntents, Posting, TypeOK, ClosesListed
  <2>5. AnswerCovers'
    BY <1>5, <1>a, <2>1, <2>2 DEF IInv, AnswerCovers, Matches, Looking, ClosesListed
  <2>6. NoneBeforePost'
    <3>1. ASSUME NEW q \in Runs, run'[q].sid \notin exempt', run'[q].pc = "begun"
          PROVE  phase'[run'[q].cur] = "submitting"
      <4>1. q # r /\ run'[q] = run[q]
        BY <3>1, <2>1
      <4>2. run[q].cur \in Intents /\ phase[run[q].cur] = "submitting"
        BY <3>1, <4>1, <2>2 DEF IInv, NoneBeforePost, TypeOK, Posting
      <4>3. seed[run[q].cur].sid = run[q].sid
        BY <3>1, <4>1 DEF IInv, UsedIntents, Posting
      <4>4. run[q].cur # i
        BY <3>1, <4>1, <4>3, <2>c, <2>2 DEF IInv, AnswerCovers, Matches, Looking
      <4> QED
        BY <4>1, <4>2, <4>4, <2>c
    <3> QED
      BY <3>1, <1>a, <2>1, <2>2 DEF IInv, NoneBeforePost
  <2>7. RepliesBacked'
    BY <1>5, <1>a, <2>1, <2>2 DEF IInv, RepliesBacked, ClosesListed
  <2>8. LiveIsActive'
    <3>1. kis[i] = "live" /\ seed[i].sid \notin exempt => Matches(r, i) # {}
      BY <2>c DEF IInv, AnswerCovers
    <3> QED
      BY <3>1, <2>c, <2>2 DEF IInv, LiveIsActive
  <2>9. OneLiveOrder'
    BY <1>5, <1>a, <2>1, <2>2 DEF IInv, OneLiveOrder, ClosesListed
  <2>10. SubmittedForCause'
    <3>1. \A j \in Matches(r, i) : j \in Intents /\ kis[j] # "none" /\ shown[j] = seed[i].row
      BY <1>a DEF Matches, Looking, RunType, IInv, RepliesBacked
    <3> QED
      BY <3>1, <2>c, <2>2 DEF IInv, SubmittedForCause
  <2> QED
    BY <2>3, <2>4, <2>5, <2>6, <2>7, <2>8, <2>9, <2>10 DEF IInv
<1>6. ASSUME NEW r \in Runs, EntersCycle(r) PROVE IInv'
  <2>1. /\ \A q \in Runs : q # r => run'[q] = run[q]
        /\ run[r].pc = "closing" /\ run'[r].pc = "pass"
        /\ run'[r].list = {}
        /\ run'[r].rows = {}
        /\ run'[r].sid = run[r].sid
        /\ run'[r].cur = run[r].cur
    BY <1>6, <1>a DEF EntersCycle, Moves, RunType, Idle
  <2>2. UNCHANGED <<seed, phase, kis, shown, rejected, exempt>>
    BY <1>6 DEF EntersCycle, journal, broker
  <2>3. LockHeld'
    BY <1>6, <1>a, <2>1, <2>2 DEF IInv, LockHeld, Holding, Posting, EntersCycle
  <2>4. UsedIntents'
    BY <1>6, <1>a, <2>1, <2>2 DEF IInv, UsedIntents, Posting, TypeOK, EntersCycle
  <2>5. AnswerCovers'
    BY <1>6, <1>a, <2>1, <2>2 DEF IInv, AnswerCovers, Matches, Looking, EntersCycle
  <2>6. NoneBeforePost'
    BY <1>6, <1>a, <2>1, <2>2 DEF IInv, NoneBeforePost, EntersCycle
  <2>7. RepliesBacked'
    BY <1>6, <1>a, <2>1, <2>2 DEF IInv, RepliesBacked, EntersCycle
  <2>8. LiveIsActive' /\ OneLiveOrder' /\ SubmittedForCause'
    BY <2>2 DEF IInv, LiveIsActive, OneLiveOrder, SubmittedForCause
  <2> QED
    BY <2>3, <2>4, <2>5, <2>6, <2>7, <2>8 DEF IInv
<1>7. ASSUME NEW r \in Runs, NEW s \in Strategies, PassesGate(r, s) PROVE IInv'
  <2>1. /\ \A q \in Runs : q # r => run'[q] = run[q]
        /\ run[r].pc = "pass" /\ run'[r].pc = "gated"
        /\ run'[r].sid = s
        /\ run'[r].list = run[r].list
        /\ run'[r].rows = run[r].rows
        /\ run'[r].cur = run[r].cur
    BY <1>7, <1>a DEF PassesGate, Moves, RunType, Idle
  <2>2. UNCHANGED <<seed, phase, kis, shown, lock, rejected, exempt>>
    BY <1>7 DEF PassesGate, journal, broker
  <2>3. LockHeld'
    BY <1>7, <1>a, <2>1, <2>2 DEF IInv, LockHeld, Holding, Posting, PassesGate
  <2>4. UsedIntents'
    BY <1>7, <1>a, <2>1, <2>2 DEF IInv, UsedIntents, Posting, TypeOK, PassesGate
  <2>5. AnswerCovers'
    BY <1>7, <1>a, <2>1, <2>2 DEF IInv, AnswerCovers, Matches, Looking, PassesGate
  <2>6. NoneBeforePost'
    <3>1. \A i \in Intents : kis[i] = "live" /\ s \notin exempt => seed[i].sid # s
      BY <1>7 DEF IInv, LiveIsActive, PassesGate, IsActive
    <3> QED
      BY <3>1, <2>1, <2>2 DEF IInv, NoneBeforePost
  <2>7. RepliesBacked'
    BY <1>7, <1>a, <2>1, <2>2 DEF IInv, RepliesBacked, PassesGate
  <2>8. LiveIsActive' /\ OneLiveOrder' /\ SubmittedForCause'
    BY <2>2 DEF IInv, LiveIsActive, OneLiveOrder, SubmittedForCause
  <2> QED
    BY <2>3, <2>4, <2>5, <2>6, <2>7, <2>8 DEF IInv
<1>8. ASSUME NEW r \in Runs, NEW s \in Strategies, Skips(r, s) PROVE IInv'
  <2>1. /\ \A q \in Runs : q # r => run'[q] = run[q]
        /\ run'[r].pc = run[r].pc
        /\ run'[r].list = run[r].list
        /\ run'[r].rows = run[r].rows
        /\ run'[r].sid = run[r].sid
        /\ run'[r].cur = run[r].cur
    BY <1>8, <1>a DEF Skips, Moves, RunType, Idle
  <2>2. UNCHANGED <<seed, phase, kis, shown, lock, rejected, exempt>>
    BY <1>8 DEF Skips, journal, broker
  <2>3. LockHeld'
    BY <1>8, <1>a, <2>1, <2>2 DEF IInv, LockHeld, Holding, Posting, Skips
  <2>4. UsedIntents'
    BY <1>8, <1>a, <2>1, <2>2 DEF IInv, UsedIntents, Posting, TypeOK, Skips
  <2>5. AnswerCovers'
    BY <1>8, <1>a, <2>1, <2>2 DEF IInv, AnswerCovers, Matches, Looking, Skips
  <2>6. NoneBeforePost'
    BY <1>8, <1>a, <2>1, <2>2 DEF IInv, NoneBeforePost, Skips
  <2>7. RepliesBacked'
    BY <1>8, <1>a, <2>1, <2>2 DEF IInv, RepliesBacked, Skips
  <2>8. LiveIsActive' /\ OneLiveOrder' /\ SubmittedForCause'
    BY <2>2 DEF IInv, LiveIsActive, OneLiveOrder, SubmittedForCause
  <2> QED
    BY <2>3, <2>4, <2>5, <2>6, <2>7, <2>8 DEF IInv
<1>9. ASSUME NEW r \in Runs, NEW i \in Intents, Begins(r, i) PROVE IInv'
  <2>1. /\ \A q \in Runs : q # r => run'[q] = run[q]
        /\ run[r].pc = "gated" /\ run'[r].pc = "begun"
        /\ run'[r].cur = i
        /\ run'[r].list = run[r].list
        /\ run'[r].rows = run[r].rows
        /\ run'[r].sid = run[r].sid
    BY <1>9, <1>a DEF Begins, Moves, RunType, Idle
  <2>2. UNCHANGED <<kis, shown, lock, rejected, exempt>>
    BY <1>9 DEF Begins, journal, broker
  <2>b. \A q \in Runs : q # r => ~Holding(q)
    BY <2>1, <1>9, <1>a DEF IInv, LockHeld, Holding, Posting, Begins
  <2>c. /\ phase[i] = "unused" /\ kis[i] = "none"
        /\ phase'[i] = "submitting" /\ seed'[i].sid = run[r].sid
        /\ \A j \in Intents : j # i => phase'[j] = phase[j] /\ seed'[j] = seed[j]
    BY <1>9 DEF Begins, TypeOK, IInv, UsedIntents
  <2>3. LockHeld'
    BY <1>9, <1>a, <2>1, <2>2 DEF IInv, LockHeld, Holding, Posting, Begins
  <2>4. UsedIntents'
    BY <1>9, <1>a, <2>1, <2>2 DEF IInv, UsedIntents, Posting, TypeOK, Begins
  <2>5. AnswerCovers'
    <3>1. ASSUME NEW q \in Runs, run'[q].pc = "closing", NEW j \in run'[q].list
          PROVE  q # r /\ j \in Intents \ {i}
      BY <3>1, <1>a, <2>1, <2>c DEF RunType, IInv, UsedIntents
    <3> QED
      BY <3>1, <2>1, <2>2, <2>c DEF IInv, AnswerCovers, Matches, Looking
  <2>6. NoneBeforePost'
    <3>1. ASSUME NEW q \in Runs, q # r PROVE ~(run'[q].pc \in {"gated", "begun", "raised"})
      BY <3>1, <2>1, <2>b DEF Holding, Posting
    <3>2. ASSUME NEW j \in Intents, kis[j] = "live", run[r].sid \notin exempt
          PROVE  seed'[j].sid # run[r].sid
      BY <3>2, <2>1, <2>c DEF IInv, NoneBeforePost
    <3> QED
      BY <3>1, <3>2, <2>1, <2>2, <2>c DEF NoneBeforePost
  <2>7. RepliesBacked'
    BY <1>9, <1>a, <2>1, <2>2 DEF IInv, RepliesBacked, Begins
  <2>8. LiveIsActive'
    BY <2>2, <2>c DEF IInv, LiveIsActive
  <2>9. OneLiveOrder'
    BY <2>2, <2>c DEF IInv, OneLiveOrder
  <2>10. SubmittedForCause'
    BY <2>2, <2>c DEF IInv, SubmittedForCause
  <2> QED
    BY <2>3, <2>4, <2>5, <2>6, <2>7, <2>8, <2>9, <2>10 DEF IInv
<1>10. ASSUME NEW r \in Runs, KisReplies(r) PROVE IInv'
  <2>1. /\ \A q \in Runs : q # r => run'[q] = run[q]
        /\ run[r].pc = "begun" /\ run'[r].pc = "replied"
        /\ run'[r].list = run[r].list
        /\ run'[r].rows = run[r].rows
        /\ run'[r].sid = run[r].sid
        /\ run'[r].cur = run[r].cur
    BY <1>10, <1>a DEF KisReplies, Moves, RunType, Idle
  <2>2. UNCHANGED <<seed, phase, lock, exempt>>
    BY <1>10 DEF KisReplies, journal, broker
  <2> DEFINE c == run[r].cur
  <2>b. \A q \in Runs : q # r => ~Holding(q)
    BY <2>1, <1>10, <1>a DEF IInv, LockHeld, Holding, Posting
  <2>c. /\ c \in Intents /\ kis[c] = "none" /\ phase[c] # "unused"
        /\ seed[c].sid = run[r].sid
        /\ \/ kis'[c] = "live" /\ rejected' = rejected
           \/ kis'[c] = "none" /\ rejected' = rejected \cup {c}
        /\ \A j \in Intents : j # c => kis'[j] = kis[j] /\ shown'[j] = shown[j]
    <3>1. /\ c \in Intents /\ kis[c] = "none" /\ phase[c] # "unused"
          /\ seed[c].sid = run[r].sid
      BY <1>10, <2>1 DEF KisReplies, TypeOK, IInv, UsedIntents, Posting
    <3> HIDE DEF c
    <3>2. Creates(c) => /\ kis'[c] = "live"
                        /\ \A j \in Intents : j # c => kis'[j] = kis[j] /\ shown'[j] = shown[j]
      BY <3>1, CreatesType DEF TypeOK
    <3> QED
      BY <1>10, <3>1, <3>2 DEF KisReplies, broker, c
  <2>d. run[r].sid \notin exempt =>
           /\ phase[c] = "submitting"
           /\ \A j \in Intents : kis[j] = "live" => seed[j].sid # run[r].sid
    BY <2>1 DEF IInv, NoneBeforePost
  <2> HIDE DEF c
  <2>3. LockHeld'
    BY <1>10, <1>a, <2>1, <2>2 DEF IInv, LockHeld, Holding, Posting, KisReplies
  <2>4. UsedIntents'
    <3>1. ASSUME NEW q \in Runs PROVE run'[q].pc # "begun"
      BY <2>1, <2>b DEF Holding, Posting
    <3>2. \A q \in Runs : Posting(q)' => Posting(q)
      BY <2>1 DEF Posting
    <3> QED
      BY <3>1, <3>2, <1>a, <2>1, <2>2, <2>c DEF IInv, UsedIntents
  <2>5. AnswerCovers'
    <3>1. ASSUME NEW q \in Runs, run'[q].pc = "closing", NEW i \in run'[q].list,
                 seed[i].sid \notin exempt
          PROVE  i \in Intents \ {c}
      <4>1. q # r /\ run'[q] = run[q]
        BY <3>1, <2>1
      <4> QED
        BY <3>1, <4>1, <2>1, <1>a DEF IInv, AnswerCovers, RunType, c
    <3>2. ASSUME NEW q \in Runs, NEW i \in Intents
          PROVE  Looking(run[q].rows, i)' = Matches(q, i)
      <4>1. run'[q].rows = run[q].rows /\ run[q].rows \subseteq Intents \ {c}
        BY <2>1, <2>c, <1>a DEF IInv, RepliesBacked, RunType
      <4> QED
        BY <4>1, <2>2, <2>c DEF Matches, Looking
    <3>3. ASSUME NEW q \in Runs, run'[q].pc = "closing", NEW i \in run'[q].list,
                 seed'[i].sid \notin exempt'
          PROVE  /\ kis'[i] = "live" => Matches(q, i)' # {}
                 /\ \A t \in Runs : run'[t].pc = "begun" => run'[t].cur # i
      <4>1. q # r /\ run'[q] = run[q] /\ i \in Intents \ {c}
        BY <3>1, <3>3, <2>1, <2>2
      <4>2. Matches(q, i)' = Matches(q, i)
        BY <3>2, <4>1 DEF Matches
      <4> QED
        BY <3>3, <4>1, <4>2, <2>1, <2>2, <2>c DEF IInv, AnswerCovers
    <3> QED
      BY <3>3 DEF AnswerCovers
  <2>6. NoneBeforePost'
    <3>1. ASSUME NEW q \in Runs, q # r PROVE ~(run'[q].pc \in {"gated", "begun", "raised"})
      BY <3>1, <2>1, <2>b DEF Holding, Posting
    <3> QED
      BY <3>1, <2>1, <2>2, <2>c DEF NoneBeforePost
  <2>7. RepliesBacked'
    <3>1. ASSUME NEW q \in Runs PROVE run'[q].rows = run[q].rows /\ run[q].rows \subseteq Intents
      BY <2>1, <1>a DEF RunType
    <3>2. run'[r].cur \in rejected' \/ kis'[run'[r].cur] # "none"
      BY <2>1, <2>c DEF c
    <3>3. ASSUME NEW q \in Runs, q # r PROVE run'[q].pc # "replied"
      BY <3>3, <2>1, <2>b DEF Holding, Posting
    <3> QED
      BY <3>1, <3>2, <3>3, <2>c DEF IInv, RepliesBacked
  <2>8. LiveIsActive'
    BY <2>2, <2>c, <2>d DEF IInv, LiveIsActive
  <2>9. OneLiveOrder'
    BY <2>2, <2>c, <2>d DEF IInv, OneLiveOrder
  <2>10. SubmittedForCause'
    BY <2>2, <2>c DEF IInv, SubmittedForCause
  <2> QED
    BY <2>3, <2>4, <2>5, <2>6, <2>7, <2>8, <2>9, <2>10 DEF IInv
<1>11. ASSUME NEW r \in Runs, PostFails(r) PROVE IInv'
  <2>1. /\ \A q \in Runs : q # r => run'[q] = run[q]
        /\ run[r].pc = "begun" /\ run'[r].pc = "raised"
        /\ run'[r].list = run[r].list
        /\ run'[r].rows = run[r].rows
        /\ run'[r].sid = run[r].sid
        /\ run'[r].cur = run[r].cur
    BY <1>11, <1>a DEF PostFails, Moves, RunType, Idle
  <2>2. UNCHANGED <<seed, phase, kis, shown, lock, rejected, exempt>>
    BY <1>11 DEF PostFails, journal, broker
  <2>3. LockHeld'
    BY <1>11, <1>a, <2>1, <2>2 DEF IInv, LockHeld, Holding, Posting, PostFails
  <2>4. UsedIntents'
    BY <1>11, <1>a, <2>1, <2>2 DEF IInv, UsedIntents, Posting, TypeOK, PostFails
  <2>5. AnswerCovers'
    BY <1>11, <1>a, <2>1, <2>2 DEF IInv, AnswerCovers, Matches, Looking, PostFails
  <2>6. NoneBeforePost'
    BY <2>1, <2>2 DEF IInv, NoneBeforePost, UsedIntents
  <2>7. RepliesBacked'
    BY <1>11, <1>a, <2>1, <2>2 DEF IInv, RepliesBacked, PostFails
  <2>8. LiveIsActive' /\ OneLiveOrder' /\ SubmittedForCause'
    BY <2>2 DEF IInv, LiveIsActive, OneLiveOrder, SubmittedForCause
  <2> QED
    BY <2>3, <2>4, <2>5, <2>6, <2>7, <2>8 DEF IInv
<1>12. ASSUME NEW r \in Runs, ReplyLost(r) PROVE IInv'
  <2>1. /\ \A q \in Runs : q # r => run'[q] = run[q]
        /\ run[r].pc = "begun" /\ run'[r].pc = "raised"
        /\ run'[r].list = run[r].list
        /\ run'[r].rows = run[r].rows
        /\ run'[r].sid = run[r].sid
        /\ run'[r].cur = run[r].cur
    BY <1>12, <1>a DEF ReplyLost, Moves, RunType, Idle
  <2>2. UNCHANGED <<seed, phase, lock, rejected>>
    BY <1>12 DEF ReplyLost, journal, broker
  <2> DEFINE c == run[r].cur
  <2>b. \A q \in Runs : q # r => ~Holding(q)
    BY <2>1, <1>12, <1>a DEF IInv, LockHeld, Holding, Posting
  <2>c. /\ c \in Intents /\ kis[c] = "none" /\ phase[c] # "unused"
        /\ seed[c].sid = run[r].sid
        /\ kis'[c] = "live" /\ exempt' = exempt \cup {run[r].sid}
        /\ \A j \in Intents : j # c => kis'[j] = kis[j] /\ shown'[j] = shown[j]
    <3>1. /\ c \in Intents /\ kis[c] = "none" /\ phase[c] # "unused"
          /\ seed[c].sid = run[r].sid
      BY <1>12, <2>1 DEF ReplyLost, TypeOK, IInv, UsedIntents, Posting
    <3>2. Creates(c) /\ exempt' = exempt \cup {run[r].sid}
      BY <1>12 DEF ReplyLost
    <3> HIDE DEF c
    <3> QED
      BY <3>1, <3>2, CreatesType DEF TypeOK
  <2>d. run[r].sid \notin exempt =>
           /\ phase[c] = "submitting"
           /\ \A j \in Intents : kis[j] = "live" => seed[j].sid # run[r].sid
    BY <2>1 DEF IInv, NoneBeforePost
  <2> HIDE DEF c
  <2>3. LockHeld'
    BY <1>12, <1>a, <2>1, <2>2 DEF IInv, LockHeld, Holding, Posting, ReplyLost
  <2>4. UsedIntents'
    <3>1. ASSUME NEW q \in Runs PROVE run'[q].pc # "begun"
      BY <2>1, <2>b DEF Holding, Posting
    <3>2. \A q \in Runs : Posting(q)' => Posting(q)
      BY <2>1 DEF Posting
    <3> QED
      BY <3>1, <3>2, <1>a, <2>1, <2>2, <2>c DEF IInv, UsedIntents
  <2>5. AnswerCovers'
    <3>2. ASSUME NEW q \in Runs, NEW i \in Intents
          PROVE  Looking(run[q].rows, i)' = Matches(q, i)
      <4>1. run'[q].rows = run[q].rows /\ run[q].rows \subseteq Intents \ {c}
        BY <2>1, <2>c, <1>a DEF IInv, RepliesBacked, RunType
      <4> QED
        BY <4>1, <2>2, <2>c DEF Matches, Looking
    <3>3. ASSUME NEW q \in Runs, run'[q].pc = "closing", NEW i \in run'[q].list,
                 seed'[i].sid \notin exempt'
          PROVE  /\ kis'[i] = "live" => Matches(q, i)' # {}
                 /\ \A t \in Runs : run'[t].pc = "begun" => run'[t].cur # i
      <4>1. q # r /\ run'[q] = run[q] /\ i \in Intents \ {c}
        BY <3>3, <2>1, <2>2, <2>c, <1>a DEF RunType
      <4>2. Matches(q, i)' = Matches(q, i)
        BY <3>2, <4>1 DEF Matches
      <4> QED
        BY <3>3, <4>1, <4>2, <2>1, <2>2, <2>c DEF IInv, AnswerCovers
    <3> QED
      BY <3>3 DEF AnswerCovers
  <2>6. NoneBeforePost'
    <3>1. ASSUME NEW q \in Runs, q # r PROVE ~(run'[q].pc \in {"gated", "begun", "raised"})
      BY <3>1, <2>1, <2>b DEF Holding, Posting
    <3> QED
      BY <3>1, <2>1, <2>2, <2>c DEF NoneBeforePost
  <2>7. RepliesBacked'
    <3>1. ASSUME NEW q \in Runs PROVE run'[q].rows = run[q].rows /\ run[q].rows \subseteq Intents
      BY <2>1, <1>a DEF RunType
    <3>2. ASSUME NEW q \in Runs PROVE run'[q].pc # "replied"
      BY <2>1, <2>b DEF Holding, Posting
    <3> QED
      BY <3>1, <3>2, <2>c DEF IInv, RepliesBacked
  <2>8. LiveIsActive'
    BY <2>2, <2>c, <2>d DEF IInv, LiveIsActive
  <2>9. OneLiveOrder'
    BY <2>2, <2>c, <2>d DEF IInv, OneLiveOrder
  <2>10. SubmittedForCause'
    BY <2>2, <2>c DEF IInv, SubmittedForCause
  <2> QED
    BY <2>3, <2>4, <2>5, <2>6, <2>7, <2>8, <2>9, <2>10 DEF IInv
<1>13. ASSUME NEW r \in Runs, MarksSubmitted(r) PROVE IInv'
  <2>1. /\ \A q \in Runs : q # r => run'[q] = run[q]
        /\ run[r].pc = "replied" /\ run'[r].pc = "pass"
        /\ run'[r].sid = None
        /\ run'[r].list = run[r].list
        /\ run'[r].rows = run[r].rows
    BY <1>13, <1>a DEF MarksSubmitted, Moves, RunType, Idle
  <2>2. UNCHANGED <<seed, kis, shown, lock, rejected, exempt>>
    BY <1>13 DEF MarksSubmitted, journal, broker
  <2> DEFINE c == run[r].cur
  <2>b. \A q \in Runs : q # r => ~Holding(q)
    BY <2>1, <1>13, <1>a DEF IInv, LockHeld, Holding, Posting
  <2>c. /\ c \in Intents /\ phase'[c] = "submitted" /\ seed[c].sid = run[r].sid
        /\ \A j \in Intents : j # c => phase'[j] = phase[j]
    BY <1>13, <2>1 DEF MarksSubmitted, TypeOK, IInv, UsedIntents, Posting
  <2>3. LockHeld'
    BY <1>13, <1>a, <2>1, <2>2 DEF IInv, LockHeld, Holding, Posting, MarksSubmitted
  <2>4. UsedIntents'
    BY <1>13, <1>a, <2>1, <2>2 DEF IInv, UsedIntents, Posting, TypeOK, MarksSubmitted
  <2>5. AnswerCovers'
    BY <1>13, <1>a, <2>1, <2>2 DEF IInv, AnswerCovers, Matches, Looking, MarksSubmitted
  <2>6. NoneBeforePost'
    <3>1. ASSUME NEW q \in Runs PROVE ~(run'[q].pc \in {"gated", "begun", "raised"})
      BY <3>1, <2>1, <2>b DEF Holding, Posting
    <3> QED
      BY <3>1 DEF NoneBeforePost
  <2>7. RepliesBacked'
    BY <1>13, <1>a, <2>1, <2>2 DEF IInv, RepliesBacked, MarksSubmitted
  <2>8. LiveIsActive'
    BY <1>13, <1>a, <2>1, <2>2 DEF IInv, LiveIsActive, MarksSubmitted
  <2>9. OneLiveOrder'
    BY <1>13, <1>a, <2>1, <2>2 DEF IInv, OneLiveOrder, MarksSubmitted
  <2>10. SubmittedForCause'
    BY <2>1, <2>2, <2>c DEF IInv, SubmittedForCause, RepliesBacked
  <2> QED
    BY <2>3, <2>4, <2>5, <2>6, <2>7, <2>8, <2>9, <2>10 DEF IInv
<1>14. ASSUME NEW r \in Runs, MarksFailed(r) PROVE IInv'
  <2>1. /\ \A q \in Runs : q # r => run'[q] = run[q]
        /\ run[r].pc = "raised" /\ run'[r].pc = "pass"
        /\ run'[r].sid = None
        /\ run'[r].list = run[r].list
        /\ run'[r].rows = run[r].rows
    BY <1>14, <1>a DEF MarksFailed, Moves, RunType, Idle
  <2>2. UNCHANGED <<seed, kis, shown, lock, rejected, exempt>>
    BY <1>14 DEF MarksFailed, journal, broker
  <2> DEFINE c == run[r].cur
  <2>b. \A q \in Runs : q # r => ~Holding(q)
    BY <2>1, <1>14, <1>a DEF IInv, LockHeld, Holding, Posting
  <2>c. /\ c \in Intents /\ phase'[c] = "failed" /\ seed[c].sid = run[r].sid
        /\ \A j \in Intents : j # c => phase'[j] = phase[j]
    BY <1>14, <2>1 DEF MarksFailed, TypeOK, IInv, UsedIntents, Posting
  <2>3. LockHeld'
    BY <1>14, <1>a, <2>1, <2>2 DEF IInv, LockHeld, Holding, Posting, MarksFailed
  <2>4. UsedIntents'
    BY <1>14, <1>a, <2>1, <2>2 DEF IInv, UsedIntents, Posting, TypeOK, MarksFailed
  <2>5. AnswerCovers'
    BY <1>14, <1>a, <2>1, <2>2 DEF IInv, AnswerCovers, Matches, Looking, MarksFailed
  <2>6. NoneBeforePost'
    <3>1. ASSUME NEW q \in Runs PROVE ~(run'[q].pc \in {"gated", "begun", "raised"})
      BY <3>1, <2>1, <2>b DEF Holding, Posting
    <3> QED
      BY <3>1 DEF NoneBeforePost
  <2>7. RepliesBacked'
    BY <1>14, <1>a, <2>1, <2>2 DEF IInv, RepliesBacked, MarksFailed
  <2>8. LiveIsActive'
    BY <2>1, <2>2, <2>c DEF IInv, LiveIsActive, NoneBeforePost
  <2>9. OneLiveOrder'
    BY <1>14, <1>a, <2>1, <2>2 DEF IInv, OneLiveOrder, MarksFailed
  <2>10. SubmittedForCause'
    BY <1>14, <1>a, <2>1, <2>2 DEF IInv, SubmittedForCause, MarksFailed
  <2> QED
    BY <2>3, <2>4, <2>5, <2>6, <2>7, <2>8, <2>9, <2>10 DEF IInv
<1>15. ASSUME NEW r \in Runs, Returns(r) PROVE IInv'
  <2>1. /\ \A q \in Runs : q # r => run'[q] = run[q]
        /\ run[r].pc = "pass" /\ run'[r].pc = "idle"
        /\ run'[r].list = {}
        /\ run'[r].rows = {}
        /\ run'[r].sid = None
    BY <1>15, <1>a DEF Returns, Moves, RunType, Idle
  <2>2. UNCHANGED <<seed, phase, kis, shown, rejected, exempt>>
    BY <1>15 DEF Returns, journal, broker
  <2>3. LockHeld'
    BY <1>15, <1>a, <2>1, <2>2 DEF IInv, LockHeld, Holding, Posting, Returns
  <2>4. UsedIntents'
    BY <1>15, <1>a, <2>1, <2>2 DEF IInv, UsedIntents, Posting, TypeOK, Returns
  <2>5. AnswerCovers'
    BY <1>15, <1>a, <2>1, <2>2 DEF IInv, AnswerCovers, Matches, Looking, Returns
  <2>6. NoneBeforePost'
    BY <1>15, <1>a, <2>1, <2>2 DEF IInv, NoneBeforePost, Returns
  <2>7. RepliesBacked'
    BY <1>15, <1>a, <2>1, <2>2 DEF IInv, RepliesBacked, Returns
  <2>8. LiveIsActive' /\ OneLiveOrder' /\ SubmittedForCause'
    BY <2>2 DEF IInv, LiveIsActive, OneLiveOrder, SubmittedForCause
  <2> QED
    BY <2>3, <2>4, <2>5, <2>6, <2>7, <2>8 DEF IInv
<1>16. ASSUME NEW r \in Runs, Raises(r) PROVE IInv'
  <2>1. /\ \A q \in Runs : q # r => run'[q] = run[q]
        /\ Holding(r)
        /\ run'[r].pc \in {"idle", "closing"}
        /\ run'[r].list = {}
        /\ run'[r].rows = {}
        /\ run'[r].sid = None
    BY <1>16, <1>a DEF Raises, Moves, RunType, Idle
  <2>2. UNCHANGED <<seed, phase, kis, shown, rejected, exempt>>
    BY <1>16 DEF Raises, journal, broker
  <2>3. LockHeld'
    BY <1>16, <1>a, <2>1, <2>2 DEF IInv, LockHeld, Holding, Posting, Raises
  <2>4. UsedIntents'
    BY <1>16, <1>a, <2>1, <2>2 DEF IInv, UsedIntents, Posting, TypeOK, Raises
  <2>5. AnswerCovers'
    BY <1>16, <1>a, <2>1, <2>2 DEF IInv, AnswerCovers, Matches, Looking, Raises
  <2>6. NoneBeforePost'
    BY <1>16, <1>a, <2>1, <2>2 DEF IInv, NoneBeforePost, Raises
  <2>7. RepliesBacked'
    BY <1>16, <1>a, <2>1, <2>2 DEF IInv, RepliesBacked, Raises
  <2>8. LiveIsActive' /\ OneLiveOrder' /\ SubmittedForCause'
    BY <2>2 DEF IInv, LiveIsActive, OneLiveOrder, SubmittedForCause
  <2> QED
    BY <2>3, <2>4, <2>5, <2>6, <2>7, <2>8 DEF IInv
<1>17. CASE Crashes
  <2>1. \A q \in Runs : run'[q] = Idle
    BY <1>17 DEF Crashes
  <2>2. UNCHANGED <<seed, phase, kis, shown, rejected, exempt>>
    BY <1>17 DEF Crashes, journal, broker
  <2>3. LockHeld' /\ UsedIntents' /\ AnswerCovers' /\ NoneBeforePost' /\ RepliesBacked'
    BY <2>1, <2>2 DEF IInv, LockHeld, UsedIntents, AnswerCovers, Matches, Looking, NoneBeforePost,
       RepliesBacked, Holding, Posting, Idle
  <2>4. LiveIsActive' /\ OneLiveOrder' /\ SubmittedForCause'
    BY <2>2 DEF IInv, LiveIsActive, OneLiveOrder, SubmittedForCause
  <2> QED
    BY <2>3, <2>4 DEF IInv
<1>18. ASSUME NEW i \in Intents, OrderCancelled(i) PROVE IInv'
  <2>1. UNCHANGED <<seed, phase, shown, lock, run, rejected, exempt>>
    BY <1>18 DEF OrderCancelled, journal
  <2>2. /\ kis[i] = "live" /\ kis'[i] = "cancelled"
        /\ \A j \in Intents : j # i => kis'[j] = kis[j]
    BY <1>18 DEF OrderCancelled, TypeOK
  <2>3. LockHeld' /\ UsedIntents' /\ AnswerCovers' /\ NoneBeforePost' /\ RepliesBacked'
    BY <2>1, <2>2, <1>a DEF IInv, LockHeld, UsedIntents, AnswerCovers, Matches, Looking, NoneBeforePost,
       RepliesBacked, Holding, Posting, TypeOK, RunType
  <2>4. LiveIsActive' /\ OneLiveOrder' /\ SubmittedForCause'
    BY <2>1, <2>2 DEF IInv, LiveIsActive, OneLiveOrder, SubmittedForCause
  <2> QED
    BY <2>3, <2>4 DEF IInv
<1> QED
  BY <1>0, <1>1, <1>2, <1>3, <1>4, <1>5, <1>6, <1>7, <1>8, <1>9, <1>10, <1>11, <1>12, <1>13, <1>14, <1>15, <1>16, <1>17, <1>18 DEF Next, RunStep

LEMMA InitIInv == Init => TypeOK /\ IInv
<1> USE ConstantsAssumption, IdleType
<1>1. Init => TypeOK
  BY DEF Init, TypeOK, Idle, Phases, Posting
<1>2. Init => LockHeld /\ UsedIntents /\ AnswerCovers /\ NoneBeforePost /\ RepliesBacked
  BY DEF Init, LockHeld, UsedIntents, AnswerCovers, Matches, Looking, NoneBeforePost, RepliesBacked,
     Idle, Holding, Posting
<1>3. Init => LiveIsActive /\ OneLiveOrder /\ SubmittedForCause
  BY DEF Init, LiveIsActive, OneLiveOrder, SubmittedForCause
<1> QED
  BY <1>1, <1>2, <1>3 DEF IInv

LEMMA Invariance == Spec => [](TypeOK /\ IInv)
<1>1. TypeOK /\ IInv /\ [Next]_vars => (TypeOK /\ IInv)'
  BY NextTypeOK, NextIInv DEF IInv
<1> QED
  BY <1>1, InitIInv, PTL DEF Spec

(* The journal, the broker's orders, the lock and what every run remembers *)
(* are always of their types; a run that posts has an intent.              *)
THEOREM TypeCorrect == Spec => []TypeOK
<1> QED
  BY Invariance, PTL

(* INV-ORDER-2 of docs/INVARIANTS.md, for any number of overlapping runs,  *)
(* crashes and retries: one live order a strategy, save for the exempt.    *)
THEOREM OneOrderEach == Spec => []OneLiveOrder
<1>1. IInv => OneLiveOrder
  BY DEF IInv
<1> QED
  BY <1>1, Invariance, PTL

(* The gate of is_active stays closed as long as such an order is live,    *)
(* whatever reconcile_submitting concludes from what KIS answers.          *)
THEOREM GateStaysClosed == Spec => []GateCoversLive
<1>1. IInv => GateCoversLive
  BY DEF IInv, LiveIsActive, GateCoversLive, IsActive
<1> QED
  BY <1>1, Invariance, PTL

(* No intent is closed as submitted without a refusal or an order that     *)
(* looks like it.                                                          *)
THEOREM ClosedForCause == Spec => []SubmittedForCause
<1>1. IInv => SubmittedForCause
  BY DEF IInv
<1> QED
  BY <1>1, Invariance, PTL

-----------------------------------------------------------------------------
(* Every step of the journal is a step of the promise, or changes nothing  *)
(* the promise speaks of.                                                  *)
LEMMA NextPromise ==
    ASSUME TypeOK, TypeOK', IInv, [Next]_vars
    PROVE  [Promise!Next]_Promise!vars
<1> USE ConstantsAssumption
<1> DEFINE live == {<<seed[i].sid, i>> : i \in LiveOrders}
<1>a. run \in [Runs -> RunType]
  BY DEF TypeOK
<1>b. ASSUME UNCHANGED <<seed, kis, exempt>> PROVE UNCHANGED Promise!vars
  BY <1>b DEF Promise!vars, LiveOrders
<1>0. CASE UNCHANGED vars
  BY <1>0, <1>b DEF vars, journal, broker
<1>1. ASSUME NEW r \in Runs,
             \/ Starts(r) \/ Triggers(r) \/ KisQueryFails(r) \/ EntersCycle(r)
             \/ PostFails(r) \/ Returns(r) \/ Raises(r)
      PROVE  UNCHANGED Promise!vars
  BY <1>1, <1>b DEF Starts, Triggers, KisQueryFails, EntersCycle, PostFails, Returns,
     Raises, journal, broker
<1>2. ASSUME NEW r \in Runs, MarksSubmitted(r) \/ MarksFailed(r) PROVE UNCHANGED Promise!vars
  BY <1>2, <1>b DEF MarksSubmitted, MarksFailed, broker
<1>3. ASSUME NEW r \in Runs, NEW s \in Strategies, PassesGate(r, s) \/ Skips(r, s)
      PROVE  UNCHANGED Promise!vars
  BY <1>3, <1>b DEF PassesGate, Skips, journal, broker
<1>4. ASSUME NEW r \in Runs, NEW i \in Intents, ClosesListed(r, i)
      PROVE  UNCHANGED Promise!vars
  BY <1>4, <1>b DEF ClosesListed, broker
<1>5. CASE Crashes
  BY <1>5, <1>b DEF Crashes, journal, broker
<1>6. ASSUME NEW r \in Runs, NEW i \in Intents, Begins(r, i) PROVE UNCHANGED Promise!vars
  <2>1. i \notin LiveOrders /\ UNCHANGED <<kis, shown, exempt>>
    BY <1>6 DEF Begins, broker, IInv, UsedIntents, LiveOrders
  <2>2. \A j \in Intents : j # i => seed'[j] = seed[j]
    BY <1>6 DEF Begins, TypeOK
  <2>3. live' = live
    BY <2>1, <2>2 DEF LiveOrders
  <2> QED
    BY <2>1, <2>3 DEF Promise!vars
<1>7. ASSUME NEW r \in Runs, KisAnswers(r) PROVE Promise!Next
  <2>1. UNCHANGED <<seed, kis>> /\ exempt \subseteq exempt' /\ exempt' \subseteq Strategies
    BY <1>7 DEF KisAnswers, journal, broker, TypeOK
  <2>2. live' = live
    BY <2>1 DEF LiveOrders
  <2> QED
    BY <2>1, <2>2 DEF Promise!Next, Promise!GiveUp
<1>8. ASSUME NEW r \in Runs, KisReplies(r) \/ ReplyLost(r)
      PROVE  [Promise!Next]_Promise!vars
  <2>0. run[r].sid \in Strategies /\ run[r].cur \in Intents
    BY <1>8 DEF KisReplies, ReplyLost, TypeOK, Posting
  <2>a. PICK s \in Strategies, c \in Intents : s = run[r].sid /\ c = run[r].cur
    BY <2>0
  <2>1. run[r].pc = "begun" /\ seed[c].sid = s /\ seed' = seed
    BY <1>8, <2>a DEF KisReplies, ReplyLost, IInv, UsedIntents, Posting, journal, broker
  <2>2. Promise!HasLive(s) => s \in exempt
    BY <2>1, <2>a DEF IInv, NoneBeforePost, Promise!HasLive, LiveOrders
  <2>3. CASE Creates(c)
    <3>1. LiveOrders' = LiveOrders \cup {c}
      BY <2>1, <2>3 DEF LiveOrders, Creates, TypeOK
    <3>2. live' = live \cup {<<s, c>>}
      BY <2>1, <3>1
    <3>3. exempt' \in {exempt, exempt \cup {s}}
      BY <1>8, <2>a DEF KisReplies, ReplyLost
    <3>4. Promise!Submit(s, c)
      BY <2>2, <3>2, <3>3 DEF Promise!Submit
    <3> QED
      BY <3>4 DEF Promise!Next
  <2>4. CASE UNCHANGED <<broker, exempt>>
    BY <2>1, <2>4, <1>b DEF broker
  <2> QED
    BY <1>8, <2>a, <2>3, <2>4 DEF KisReplies, ReplyLost
<1>9. ASSUME NEW i \in Intents, OrderCancelled(i) PROVE Promise!Next
  <2>1. kis[i] = "live" /\ UNCHANGED <<seed, exempt>>
    BY <1>9 DEF OrderCancelled, journal, broker
  <2>2. LiveOrders' = LiveOrders \ {i}
    BY <1>9 DEF OrderCancelled, LiveOrders, TypeOK
  <2>3. live' = live \ {<<seed[i].sid, i>>}
    BY <2>1, <2>2
  <2>4. seed[i].sid \in Strategies
    BY <2>1 DEF IInv, UsedIntents
  <2> QED
    BY <2>1, <2>3, <2>4 DEF Promise!Next, Promise!Cancel
<1> QED
  BY <1>0, <1>1, <1>2, <1>3, <1>4, <1>5, <1>6, <1>7, <1>8, <1>9 DEF Next, RunStep

(* The intent journal keeps the promise of OrderOnce: an order is only     *)
(* created for a strategy without a live one, or for an exempt one.        *)
THEOREM JournalKeepsPromise == Spec => OrdersOnce
<1>1. Init => Promise!Init
  BY DEF Init, Promise!Init, LiveOrders
<1> QED
  BY <1>1, Invariance, NextPromise, PTL DEF Spec, OrdersOnce, Promise!Spec
=============================================================================
