--------------------------- MODULE OrderFills_proofs ---------------------------
(***************************************************************************)
(* Invariants of OrderFills for any orders, keys, quantities and bounds.   *)
(***************************************************************************)
EXTENDS OrderFills, FiniteSetTheorems, TLAPS

-----------------------------------------------------------------------------
(* Reflecting a fill of a submitted order yields a ledger, and one whose   *)
(* positions are positive if those of the old one were.                    *)
LEMMA ApplyFillLedger ==
    ASSUME BrokerType, TraderType,
           NEW o \in DOMAIN order, NEW q \in Nat \ {0}
    PROVE  /\ DOMAIN ApplyFill(ledger, o, q) \subseteq Keys
           /\ \A k \in DOMAIN ApplyFill(ledger, o, q) :
                 /\ ApplyFill(ledger, o, q)[k] \in Int
                 /\ LedgerPositive => ApplyFill(ledger, o, q)[k] > 0
<1> DEFINE key == order[o].key
           l   == ApplyFill(ledger, o, q)
<1>1. key \in Keys
  BY DEF BrokerType, OrderRec
<1>2. /\ DOMAIN ledger \subseteq Keys
      /\ \A k \in DOMAIN ledger : ledger[k] \in Int
  BY DEF TraderType
<1>3. ASSUME NEW v \in Int, v > 0
      PROVE  /\ DOMAIN Put(ledger, key, v) \subseteq Keys
             /\ \A k \in DOMAIN Put(ledger, key, v) : Put(ledger, key, v)[k] \in Int
             /\ LedgerPositive => \A k \in DOMAIN Put(ledger, key, v) :
                                      Put(ledger, key, v)[k] > 0
  BY <1>1, <1>2, <1>3 DEF LedgerPositive, Put
<1>4. /\ DOMAIN Drop(ledger, key) \subseteq Keys
      /\ \A k \in DOMAIN Drop(ledger, key) : Drop(ledger, key)[k] \in Int
      /\ LedgerPositive => \A k \in DOMAIN Drop(ledger, key) :
                               Drop(ledger, key)[k] > 0
  BY <1>2 DEF LedgerPositive, Drop
<1>5. \/ l = ledger
      \/ l = Drop(ledger, key)
      \/ \E v \in Int : v > 0 /\ l = Put(ledger, key, v)
  <2>1. CASE order[o].side = "buy"
    <3>1. l = Bought(ledger, key, q)
      BY <2>1 DEF ApplyFill
    <3>2. CASE key \notin DOMAIN ledger
      BY <3>1, <3>2 DEF Bought
    <3>3. CASE key \in DOMAIN ledger /\ ledger[key] + q <= 0
      BY <3>1, <3>3 DEF Bought
    <3>4. CASE key \in DOMAIN ledger /\ ~(ledger[key] + q <= 0)
      <4>1. ledger[key] + q \in Int /\ ledger[key] + q > 0
        BY <1>2, <3>4
      <4>2. l = Put(ledger, key, ledger[key] + q)
        BY <3>1, <3>4 DEF Bought
      <4> QED
        BY <4>1, <4>2
    <3> QED
      BY <3>2, <3>3, <3>4
  <2>2. CASE order[o].side # "buy"
    <3>1. l = Sold(ledger, key, q)
      BY <2>2 DEF ApplyFill
    <3>2. CASE key \notin DOMAIN ledger
      BY <3>1, <3>2 DEF Sold
    <3>3. CASE key \in DOMAIN ledger /\ ledger[key] - q <= 0
      BY <3>1, <3>3 DEF Sold
    <3>4. CASE key \in DOMAIN ledger /\ ~(ledger[key] - q <= 0)
      <4>1. ledger[key] - q \in Int /\ ledger[key] - q > 0
        BY <1>2, <3>4
      <4>2. l = Put(ledger, key, ledger[key] - q)
        BY <3>1, <3>4 DEF Sold
      <4> QED
        BY <4>1, <4>2
    <3> QED
      BY <3>2, <3>3, <3>4
  <2> QED
    BY <2>1, <2>2
<1>6. CASE l = ledger
  BY <1>2, <1>6 DEF LedgerPositive
<1>7. /\ DOMAIN l \subseteq Keys
      /\ \A k \in DOMAIN l : l[k] \in Int
      /\ LedgerPositive => \A k \in DOMAIN l : l[k] > 0
  <2>1. CASE l = Drop(ledger, key)
    BY <1>4, <2>1
  <2>2. CASE \E v \in Int : v > 0 /\ l = Put(ledger, key, v)
    <3>1. PICK v \in Int : v > 0 /\ l = Put(ledger, key, v)
      BY <2>2
    <3> QED
      BY <1>3, <3>1
  <2> QED
    BY <1>5, <1>6, <2>1, <2>2
<1> QED
  BY <1>7

-----------------------------------------------------------------------------
(* Type correctness *)

LEMMA InitTypeOK == Init => TypeOK
<1> SUFFICES ASSUME Init PROVE TypeOK
  OBVIOUS
<1> USE ConstantsAssumption DEF Init
<1>1. SwitchType
  BY DEF SwitchType
<1>2. BrokerType
  BY DEF BrokerType, OrderRec
<1>3. TraderType
  BY DEF TraderType
<1>4. WsType
  BY DEF WsType
<1>5. CycType
  BY DEF CycType, CycOff
<1>6. LockType
  BY DEF LockType, Triggers
<1>7. HistoryType
  BY DEF HistoryType
<1> QED
  BY <1>1, <1>2, <1>3, <1>4, <1>5, <1>6, <1>7 DEF TypeOK

(* An accepted order is one more submitted order, of a valid record.       *)
LEMMA AcceptedType ==
    ASSUME BrokerType, NEW o \in Orders, NEW k \in Keys, NEW q \in Nat \ {0},
           Accepted(o, k, q)
    PROVE  BrokerType'
<1> DEFINE rec == [key |-> k, side |-> "sell", qty |-> q]
<1>1. DOMAIN order' = DOMAIN order \cup {o}
  BY DEF Accepted, Put
<1>2. rec \in OrderRec
  BY DEF OrderRec, Sides
<1>3. \A x \in DOMAIN order' : order'[x] = IF x = o THEN rec ELSE order[x]
  BY <1>1 DEF Accepted, Put
<1>4. \A x \in DOMAIN order' : order'[x] \in OrderRec
  <2> HIDE DEF rec
  <2> QED
    BY <1>1, <1>2, <1>3 DEF BrokerType
<1> QED
  BY <1>1, <1>4 DEF BrokerType, Accepted

(* Every step keeps the type of each part of the state.                    *)
LEMMA NextTypeOK ==
    TypeOK /\ LedgerPositive /\ [Next]_vars => TypeOK' /\ LedgerPositive'
<1> DEFINE Goal == TypeOK' /\ LedgerPositive'
<1> SUFFICES ASSUME TypeOK, LedgerPositive, [Next]_vars PROVE Goal
  OBVIOUS
<1> USE ConstantsAssumption
<1> USE DEF brokerVars, entryVars, gateVars, ksVars, history
<1>1. ASSUME NEW o \in Orders, BrokerExecutes(o) PROVE Goal
  <2>1. BrokerType'
    BY <1>1 DEF TypeOK, BrokerType, BrokerExecutes, Put, Notice, WsIdle
  <2>2. WsType'
    BY <1>1 DEF TypeOK, WsType, BrokerType, BrokerExecutes, Put, Notice, WsIdle
  <2>3. HistoryType'
    BY <1>1 DEF TypeOK, HistoryType, BrokerType, BrokerExecutes, Put,
       Notice, WsIdle
  <2> QED
    BY <1>1, <2>1, <2>2, <2>3 DEF TypeOK, TraderType, SwitchType, CycType,
       LockType, LedgerPositive, BrokerExecutes, Put, Notice, WsIdle
<1>2. ASSUME NEW o \in Orders, BrokerCancels(o) PROVE Goal
  <2>1. BrokerType'
    BY <1>2 DEF TypeOK, BrokerType, BrokerCancels
  <2> QED
    BY <1>2, <2>1 DEF TypeOK, TraderType, SwitchType, WsType, CycType,
       LockType, HistoryType, LedgerPositive, BrokerCancels
<1>3. ASSUME NEW n \in DOMAIN notices, WsReceives(n) PROVE Goal
  <2>1. BrokerType'
    BY <1>3 DEF TypeOK, BrokerType, WsReceives, Fresh, WsIdle, Notice
  <2>2. TraderType'
    BY <1>3 DEF TypeOK, TraderType, BrokerType, WsType, WsReceives, Fresh,
       WsIdle, Notice
  <2>3. WsType'
    BY <1>3 DEF TypeOK, WsType, BrokerType, TraderType, WsReceives, Fresh,
       WsIdle, Notice
  <2>4. HistoryType'
    BY <1>3 DEF TypeOK, HistoryType, BrokerType, WsReceives, Fresh, WsIdle,
       Notice
  <2> QED
    BY <1>3, <2>1, <2>2, <2>3, <2>4 DEF TypeOK, SwitchType, CycType,
       LockType, LedgerPositive, WsReceives, Fresh, WsIdle, Notice
<1>4. CASE WsApplies
  <2>1. TraderType'
    <3>1. ws.notice.order \in DOMAIN order /\ ws.notice.qty \in Nat \ {0}
      BY <1>4 DEF TypeOK, WsType, WsIdle, BrokerType, WsApplies, Notice
    <3> QED
      BY <1>4, <3>1, ApplyFillLedger DEF TypeOK, TraderType, WsApplies
  <2>2. LedgerPositive'
    <3>1. ws.notice.order \in DOMAIN order /\ ws.notice.qty \in Nat \ {0}
      BY <1>4 DEF TypeOK, WsType, WsIdle, BrokerType, WsApplies, Notice
    <3> QED
      BY <1>4, <3>1, ApplyFillLedger DEF TypeOK, LedgerPositive, WsApplies
  <2>3. WsType'
    BY <1>4 DEF TypeOK, WsType, BrokerType, WsApplies, Put, Notice, WsIdle
  <2>4. HistoryType'
    BY <1>4 DEF TypeOK, HistoryType, BrokerType, WsType, WsApplies, Put,
       Notice, WsIdle
  <2> QED
    BY <1>4, <2>1, <2>2, <2>3, <2>4 DEF TypeOK, BrokerType, SwitchType,
       CycType, LockType, WsApplies, Put, Notice, WsIdle
<1>5. CASE WsChecksSwitch
  <2>1. WsType'
    BY <1>5 DEF TypeOK, WsType, BrokerType, WsChecksSwitch, WsIdle
  <2>2. LockType'
    BY <1>5 DEF TypeOK, LockType, BrokerType, WsChecksSwitch, WsIdle
  <2> QED
    BY <1>5, <2>1, <2>2 DEF TypeOK, BrokerType, TraderType, SwitchType,
       CycType, HistoryType, LedgerPositive, WsChecksSwitch, WsIdle
<1>6. CASE WsFinishes
  <2>1. TraderType'
    <3>1. ws.already \in Nat /\ ws.notice.qty \in Nat
      BY <1>6 DEF TypeOK, WsType, WsIdle, WsFinishes, Notice
    <3>2. ws.already + ws.notice.qty \in Nat
      BY <3>1
    <3>3. soFar' \in [Orders -> Nat]
      BY <1>6, <3>2 DEF TypeOK, TraderType, WsFinishes
    <3> QED
      BY <1>6, <3>3 DEF TypeOK, TraderType, WsFinishes
  <2>2. WsType'
    BY <1>6 DEF TypeOK, WsType, BrokerType, WsFinishes, WsIdle
  <2> QED
    BY <1>6, <2>1, <2>2 DEF TypeOK, BrokerType, SwitchType, CycType,
       LockType, HistoryType, LedgerPositive, WsFinishes, WsIdle
<1>7. CASE MonitorWakes
  <2>1. LockType'
    BY <1>7 DEF TypeOK, LockType, BrokerType, MonitorWakes
  <2> QED
    BY <1>7, <2>1 DEF TypeOK, BrokerType, TraderType, SwitchType, WsType,
       CycType, HistoryType, LedgerPositive, MonitorWakes
<1>8. ASSUME NEW t \in Triggers, Evaluates(t) PROVE Goal
  <2>1. SwitchType'
    BY <1>8 DEF TypeOK, SwitchType, Evaluates
  <2>2. LockType'
    BY <1>8 DEF TypeOK, LockType, BrokerType, Evaluates
  <2> QED
    BY <1>8, <2>1, <2>2 DEF TypeOK, BrokerType, TraderType, WsType, CycType,
       HistoryType, LedgerPositive, Evaluates
<1>9. ASSUME NEW t \in Triggers, CancelsPending(t) PROVE Goal
  <2>1. BrokerType'
    BY <1>9 DEF TypeOK, BrokerType, CancelsPending, LockFree
  <2>2. LockType'
    BY <1>9 DEF TypeOK, LockType, BrokerType, CancelsPending, LockFree
  <2> QED
    BY <1>9, <2>1, <2>2 DEF TypeOK, TraderType, SwitchType, WsType, CycType,
       HistoryType, LedgerPositive, CancelsPending, LockFree
<1>10. ASSUME NEW t \in Triggers, EntersCycle(t) PROVE Goal
  <2>1. LockType'
    BY <1>10 DEF TypeOK, LockType, BrokerType, EntersCycle, LockFree,
       Triggers, CycOff
  <2>2. CycType'
    BY <1>10 DEF TypeOK, CycType, BrokerType, TraderType, EntersCycle,
       LockFree, Triggers, CycOff
  <2> QED
    BY <1>10, <2>1, <2>2 DEF TypeOK, BrokerType, TraderType, SwitchType,
       WsType, HistoryType, LedgerPositive, EntersCycle, LockFree, Triggers,
       CycOff
<1>11. CASE UserResets
  <2>1. SwitchType'
    <3>1. resets' \in Nat
      BY <1>11 DEF TypeOK, SwitchType, UserResets
    <3> QED
      BY <1>11, <3>1, Zenon DEF SwitchType, UserResets
  <2> QED
    BY <1>11, <2>1 DEF TypeOK, BrokerType, TraderType, WsType, CycType,
       LockType, HistoryType, LedgerPositive, UserResets
<1>12. ASSUME NEW o \in Orders, PollsFilled(o) PROVE Goal
  <2>1. TraderType'
    <3>1. o \in DOMAIN order /\ done[o] \in Nat \ {0}
      BY <1>12 DEF TypeOK, BrokerType, TraderType, CycType, OrderRec,
         OrderStatus, Polls,
         PollsFilled
    <3> QED
      BY <1>12, <3>1, ApplyFillLedger DEF TypeOK, TraderType, PollsFilled,
         Reflects
  <2>2. LedgerPositive'
    <3>1. o \in DOMAIN order /\ done[o] \in Nat \ {0}
      BY <1>12 DEF TypeOK, BrokerType, TraderType, CycType, OrderRec,
         OrderStatus, Polls,
         PollsFilled
    <3> QED
      BY <1>12, <3>1, ApplyFillLedger DEF TypeOK, LedgerPositive,
         PollsFilled, Reflects
  <2>3. CycType'
    BY <1>12 DEF TypeOK, CycType, BrokerType, PollsFilled, Polls, Reflects
  <2>4. HistoryType'
    BY <1>12 DEF TypeOK, HistoryType, BrokerType, TraderType, CycType,
       PollsFilled, Polls, Reflects
  <2> QED
    BY <1>12, <2>1, <2>2, <2>3, <2>4 DEF TypeOK, BrokerType, SwitchType,
       WsType, LockType, PollsFilled, Polls, Reflects
<1>13. ASSUME NEW o \in Orders, PollsPartial(o) PROVE Goal
  <2>1. TraderType'
    <3>1. o \in DOMAIN order /\ done[o] - soFar[o] \in Nat \ {0}
      BY <1>13 DEF TypeOK, BrokerType, TraderType, CycType, OrderRec,
         OrderStatus, Polls,
         PollsPartial
    <3> QED
      BY <1>13, <3>1, ApplyFillLedger DEF TypeOK, TraderType, PollsPartial,
         Reflects
  <2>2. LedgerPositive'
    <3>1. o \in DOMAIN order /\ done[o] - soFar[o] \in Nat \ {0}
      BY <1>13 DEF TypeOK, BrokerType, TraderType, CycType, OrderRec,
         OrderStatus, Polls,
         PollsPartial
    <3> QED
      BY <1>13, <3>1, ApplyFillLedger DEF TypeOK, LedgerPositive,
         PollsPartial, Reflects
  <2>3. CycType'
    BY <1>13 DEF TypeOK, CycType, BrokerType, PollsPartial, Polls, Reflects
  <2>4. HistoryType'
    BY <1>13 DEF TypeOK, HistoryType, BrokerType, TraderType, CycType,
       PollsPartial, Polls, Reflects
  <2> QED
    BY <1>13, <2>1, <2>2, <2>3, <2>4 DEF TypeOK, BrokerType, SwitchType,
       WsType, LockType, PollsPartial, Polls, Reflects
<1>14. ASSUME NEW o \in Orders, PollsCancelled(o) PROVE Goal
  <2>1. CycType'
    BY <1>14 DEF TypeOK, CycType, BrokerType, PollsCancelled, Polls
  <2> QED
    BY <1>14, <2>1 DEF TypeOK, BrokerType, TraderType, SwitchType, WsType,
       LockType, HistoryType, LedgerPositive, PollsCancelled, Polls
<1>15. ASSUME NEW o \in Orders, PollsNothing(o) PROVE Goal
  <2>1. CycType'
    BY <1>15 DEF TypeOK, CycType, BrokerType, PollsNothing, Polls
  <2> QED
    BY <1>15, <2>1 DEF TypeOK, BrokerType, TraderType, SwitchType, WsType,
       LockType, HistoryType, LedgerPositive, PollsNothing, Polls
<1>16. CASE PollDeletes
  <2>1. TraderType'
    BY <1>16 DEF TypeOK, TraderType, BrokerType, PollDeletes, LeavesCycle,
       CycOff
  <2>2. LockType'
    BY <1>16 DEF TypeOK, LockType, BrokerType, PollDeletes, LeavesCycle, CycOff
  <2>3. CycType'
    <3>1. CASE cyc.cur \in pending
      BY <1>16, <3>1 DEF TypeOK, CycType, PollDeletes
    <3>2. CASE cyc.cur \notin pending
      <4>1. cyc' = CycOff
        BY <1>16, <3>2 DEF PollDeletes, LeavesCycle
      <4> QED
        BY <4>1 DEF CycType, CycOff
    <3> QED
      BY <3>1, <3>2
  <2> QED
    BY <1>16, <2>1, <2>2, <2>3 DEF TypeOK, BrokerType, SwitchType, WsType,
       HistoryType, LedgerPositive, PollDeletes, LeavesCycle, CycOff
<1>17. CASE PollUpdates
  <2>1. TraderType'
    BY <1>17 DEF TypeOK, TraderType, BrokerType, CycType, PollUpdates
  <2>2. CycType'
    BY <1>17 DEF TypeOK, CycType, BrokerType, PollUpdates
  <2> QED
    BY <1>17, <2>1, <2>2 DEF TypeOK, BrokerType, SwitchType, WsType,
       LockType, HistoryType, LedgerPositive, PollUpdates
<1>18. CASE CycleChecksHealth
  <2>1. LockType'
    BY <1>18 DEF TypeOK, LockType, BrokerType, CycleChecksHealth,
       LeavesCycle, CycOff
  <2>2. CycType'
    <3>1. CASE cyc' = CycOff
      BY <3>1 DEF CycType, CycOff
    <3>2. CASE cyc' = [cyc EXCEPT !.pc = "exit", !.keys = DOMAIN ledger]
      BY <1>18, <3>2 DEF TypeOK, CycType, TraderType, CycleChecksHealth
    <3> QED
      BY <1>18, <3>1, <3>2 DEF CycleChecksHealth, LeavesCycle
  <2> QED
    BY <1>18, <2>1, <2>2 DEF TypeOK, BrokerType, TraderType, SwitchType,
       WsType, HistoryType, LedgerPositive, CycleChecksHealth, LeavesCycle,
       CycOff
<1>19. ASSUME NEW o \in Orders, NEW k \in Keys, CycleSells(o, k) PROVE Goal
  <2>1. BrokerType'
    <3>1. k \in DOMAIN ledger /\ ledger[k] \in Nat \ {0}
      BY <1>19 DEF TypeOK, TraderType, LedgerPositive, CycleSells, StopLoss
    <3>2. Accepted(o, k, ledger[k])
      BY <1>19 DEF CycleSells, SubmitAccepted
    <3> QED
      BY <3>1, <3>2, AcceptedType DEF TypeOK, BrokerType
  <2>2. TraderType'
    BY <1>19 DEF TypeOK, TraderType, BrokerType, CycleSells, Exits,
       SubmitAccepted, Accepted, Put, OrderRec
  <2>3. LockType'
    BY <1>19 DEF TypeOK, LockType, BrokerType, CycleSells, Exits,
       SubmitAccepted, Accepted, Put, OrderRec
  <2>4. CycType'
    BY <1>19 DEF TypeOK, CycType, BrokerType, CycleSells, Exits,
       SubmitAccepted, Accepted, Put, OrderRec
  <2>5. HistoryType'
    BY <1>19 DEF TypeOK, HistoryType, BrokerType, CycleSells, Exits,
       SubmitAccepted, Accepted, Put, OrderRec
  <2> QED
    BY <1>19, <2>1, <2>2, <2>3, <2>4, <2>5 DEF TypeOK, SwitchType, WsType,
       LedgerPositive, CycleSells, Exits, SubmitAccepted, Accepted, Put,
       OrderRec
<1>20. ASSUME NEW o \in Orders, NEW k \in Keys, CycleSellFails(o, k) PROVE Goal
  <2>1. BrokerType'
    <3>1. k \in DOMAIN ledger /\ ledger[k] \in Nat \ {0}
      BY <1>20 DEF TypeOK, TraderType, LedgerPositive, CycleSellFails, StopLoss
    <3>2. Accepted(o, k, ledger[k]) \/ UNCHANGED brokerVars
      BY <1>20 DEF CycleSellFails, SubmitRejected, SubmitRaised
    <3> QED
      BY <3>1, <3>2, AcceptedType DEF TypeOK, BrokerType
  <2>2. TraderType'
    BY <1>20 DEF TypeOK, TraderType, BrokerType, CycleSellFails, Exits,
       SubmitRejected, SubmitRaised, Accepted, Put, OrderRec
  <2>3. LockType'
    BY <1>20 DEF TypeOK, LockType, BrokerType, CycleSellFails, Exits,
       SubmitRejected, SubmitRaised, Accepted, Put, OrderRec
  <2>4. CycType'
    BY <1>20 DEF TypeOK, CycType, BrokerType, CycleSellFails, Exits,
       SubmitRejected, SubmitRaised, Accepted, Put, OrderRec
  <2>5. HistoryType'
    BY <1>20 DEF TypeOK, HistoryType, BrokerType, CycleSellFails, Exits,
       SubmitRejected, SubmitRaised, Accepted, Put, OrderRec
  <2> QED
    BY <1>20, <2>1, <2>2, <2>3, <2>4, <2>5 DEF TypeOK, SwitchType, WsType,
       LedgerPositive, CycleSellFails, Exits, SubmitRejected, SubmitRaised,
       Accepted, Put, OrderRec
<1>21. ASSUME NEW k \in Keys, CycleSkips(k) PROVE Goal
  <2>1. CycType'
    BY <1>21 DEF TypeOK, CycType, BrokerType, CycleSkips, Exits
  <2> QED
    BY <1>21, <2>1 DEF TypeOK, BrokerType, TraderType, SwitchType, WsType,
       LockType, HistoryType, LedgerPositive, CycleSkips, Exits
<1>22. CASE CycleRegisters
  <2>1. TraderType'
    BY <1>22 DEF TypeOK, TraderType, BrokerType, CycType, CycleRegisters,
       Registers
  <2>2. CycType'
    BY <1>22 DEF TypeOK, CycType, BrokerType, CycleRegisters, Registers
  <2>3. HistoryType'
    BY <1>22 DEF TypeOK, HistoryType, BrokerType, CycType, CycleRegisters,
       Registers
  <2> QED
    BY <1>22, <2>1, <2>2, <2>3 DEF TypeOK, BrokerType, SwitchType, WsType,
       LockType, LedgerPositive, CycleRegisters, Registers
<1>23. CASE CycleWaits
  <2>1. CycType'
    BY <1>23 DEF TypeOK, CycType, BrokerType, CycleWaits
  <2> QED
    BY <1>23, <2>1 DEF TypeOK, BrokerType, TraderType, SwitchType, WsType,
       LockType, HistoryType, LedgerPositive, CycleWaits
<1>24. CASE CyclePollsAgain
  <2>1. CycType'
    <3>1. cyc.polls - 1 \in Nat
      BY <1>24 DEF TypeOK, CycType, CyclePollsAgain
    <3>2. pending \subseteq Orders /\ pending \subseteq DOMAIN order
      BY DEF TypeOK, TraderType, BrokerType
    <3>3. cyc' = [cyc EXCEPT !.polls = cyc.polls - 1, !.todo = pending]
      BY <1>24 DEF CyclePollsAgain
    <3>4. order' = order
      BY <1>24 DEF CyclePollsAgain
    <3> QED
      BY <3>1, <3>2, <3>3, <3>4 DEF TypeOK, CycType
  <2> QED
    BY <1>24, <2>1 DEF TypeOK, BrokerType, TraderType, SwitchType, WsType,
       LockType, HistoryType, LedgerPositive, CyclePollsAgain
<1>25. CASE CycleEnds
  <2>1. LockType'
    BY <1>25 DEF TypeOK, LockType, BrokerType, CycleEnds, LeavesCycle, CycOff
  <2>2. CycType'
    BY <1>25 DEF TypeOK, CycType, BrokerType, CycleEnds, LeavesCycle, CycOff
  <2> QED
    BY <1>25, <2>1, <2>2 DEF TypeOK, BrokerType, TraderType, SwitchType,
       WsType, HistoryType, LedgerPositive, CycleEnds, LeavesCycle, CycOff
<1>26. ASSUME NEW o \in Orders, NEW k \in Keys, TickSells(o, k) PROVE Goal
  <2>1. BrokerType'
    <3>1. k \in DOMAIN ledger /\ ledger[k] \in Nat \ {0}
      BY <1>26 DEF TypeOK, TraderType, LedgerPositive, TickSells, StopLoss
    <3>2. \E q \in 1..ledger[k] : Accepted(o, k, q)
      BY <1>26 DEF TickSells, SubmitAccepted, StopLoss
    <3> QED
      BY <3>1, <3>2, AcceptedType DEF TypeOK, BrokerType
  <2>2. TraderType'
    BY <1>26 DEF TypeOK, TraderType, BrokerType, TickSells, StopLoss,
       SubmitAccepted, Accepted, Put, OrderRec
  <2>3. LockType'
    BY <1>26 DEF TypeOK, LockType, BrokerType, TickSells, StopLoss,
       SubmitAccepted, Accepted, Put, OrderRec
  <2>4. CycType'
    BY <1>26 DEF TypeOK, CycType, BrokerType, TickSells, StopLoss,
       SubmitAccepted, Accepted, Put, OrderRec
  <2>5. HistoryType'
    BY <1>26 DEF TypeOK, HistoryType, BrokerType, TickSells, StopLoss,
       SubmitAccepted, Accepted, Put, OrderRec
  <2> QED
    BY <1>26, <2>1, <2>2, <2>3, <2>4, <2>5 DEF TypeOK, SwitchType, WsType,
       LedgerPositive, TickSells, StopLoss, SubmitAccepted, Accepted, Put,
       OrderRec
<1>27. ASSUME NEW o \in Orders, NEW k \in Keys, TickSellFails(o, k) PROVE Goal
  <2>1. BrokerType'
    <3>1. k \in DOMAIN ledger /\ ledger[k] \in Nat \ {0}
      BY <1>27 DEF TypeOK, TraderType, LedgerPositive, TickSellFails, StopLoss
    <3>2. CASE SubmitRejected(k)
      BY <3>2 DEF SubmitRejected, TypeOK, BrokerType
    <3>3. ASSUME NEW q \in 1..ledger[k], SubmitRaised(o, k, q)
          PROVE  BrokerType'
      <4>1. CASE Accepted(o, k, q)
        BY <3>1, <4>1, AcceptedType DEF TypeOK
      <4>2. CASE UNCHANGED brokerVars
        BY <4>2 DEF TypeOK, BrokerType
      <4> QED
        BY <3>3, <4>1, <4>2 DEF SubmitRaised
    <3> QED
      BY <1>27, <3>2, <3>3 DEF TickSellFails
  <2>2. TraderType'
    BY <1>27 DEF TypeOK, TraderType, BrokerType, TickSellFails, StopLoss,
       SubmitRejected, SubmitRaised, Accepted, Put, OrderRec
  <2>3. LockType'
    BY <1>27 DEF TypeOK, LockType, BrokerType, TickSellFails, StopLoss,
       SubmitRejected, SubmitRaised, Accepted, Put, OrderRec
  <2>4. CycType'
    BY <1>27 DEF TypeOK, CycType, BrokerType, TickSellFails, StopLoss,
       SubmitRejected, SubmitRaised, Accepted, Put, OrderRec
  <2>5. HistoryType'
    BY <1>27 DEF TypeOK, HistoryType, BrokerType, TickSellFails, StopLoss,
       SubmitRejected, SubmitRaised, Accepted, Put, OrderRec
  <2> QED
    BY <1>27, <2>1, <2>2, <2>3, <2>4, <2>5 DEF TypeOK, SwitchType, WsType,
       LedgerPositive, TickSellFails, StopLoss, SubmitRejected, SubmitRaised,
       Accepted, Put, OrderRec
<1>28. ASSUME NEW k \in Keys, TickFindsNothing(k) PROVE Goal
  <2>1. TraderType'
    BY <1>28 DEF TypeOK, TraderType, BrokerType, TickFindsNothing, StopLoss
  <2> QED
    BY <1>28, <2>1 DEF TypeOK, BrokerType, SwitchType, WsType, CycType,
       LockType, HistoryType, LedgerPositive, TickFindsNothing, StopLoss
<1>29. CASE TickRegisters
  <2>1. TraderType'
    BY <1>29 DEF TypeOK, TraderType, BrokerType, LockType, TickRegisters,
       Registers, LockFree
  <2>2. LockType'
    BY <1>29 DEF TypeOK, LockType, BrokerType, TickRegisters, Registers,
       LockFree
  <2>3. HistoryType'
    BY <1>29 DEF TypeOK, HistoryType, BrokerType, LockType, TickRegisters,
       Registers, LockFree
  <2> QED
    BY <1>29, <2>1, <2>2, <2>3 DEF TypeOK, BrokerType, SwitchType, WsType,
       CycType, LedgerPositive, TickRegisters, Registers, LockFree
<1>30. CASE UNCHANGED vars
  BY <1>30 DEF vars, TypeOK, LedgerPositive, BrokerType, TraderType,
     SwitchType, WsType, CycType, LockType, HistoryType
<1> QED
  BY <1>1, <1>2, <1>3, <1>4, <1>5, <1>6, <1>7, <1>8, <1>9, <1>10, <1>11, <1>12, <1>13, <1>14, <1>15, <1>16, <1>17, <1>18, <1>19, <1>20, <1>21, <1>22, <1>23, <1>24, <1>25, <1>26, <1>27, <1>28, <1>29, <1>30
  DEF Next, WsStep, TriggerStep, CycleStep, TickStep

(* INV-LEDGER-1: no position left in the ledger is ever zero or negative,  *)
(* for any orders, notices, polls and stop losses.                         *)
THEOREM LedgerStaysPositive == Spec => []LedgerPositive
<1>1. Init => LedgerPositive
  BY DEF Init, LedgerPositive
<1> QED
  BY <1>1, InitTypeOK, NextTypeOK, PTL DEF Spec

(* Every variable keeps its type, in every reachable state.                *)
THEOREM TypeCorrect == Spec => []TypeOK
<1>1. Init => LedgerPositive
  BY DEF Init, LedgerPositive
<1> QED
  BY <1>1, InitTypeOK, NextTypeOK, PTL DEF Spec

-----------------------------------------------------------------------------
(* Tracking *)

(* An order that is no longer tracked was applied in full, counting every  *)
(* unit as often as it was applied, or was cancelled at the broker.        *)
AppliedInFull ==
    \A o \in registered \ pending : \/ applied[o] >= order[o].qty
                                    \/ book[o] = "cancelled"

(* No step applies less than the entries, handlers and cycles remember, or *)
(* ends the tracking of an order early.                                    *)
LEMMA NextApplied ==
    /\ TypeOK /\ EntriesBacked /\ AppliedInFull /\ [Next]_vars
    => EntriesBacked' /\ AppliedInFull'
<1> DEFINE Goal == EntriesBacked' /\ AppliedInFull'
<1> SUFFICES ASSUME TypeOK, EntriesBacked, AppliedInFull, [Next]_vars PROVE Goal
  OBVIOUS
<1> USE ConstantsAssumption
<1> USE DEF brokerVars, entryVars, gateVars, ksVars, history
<1>1. ASSUME NEW o \in Orders, BrokerExecutes(o) PROVE Goal
  BY <1>1 DEF TypeOK, BrokerType, TraderType, WsType, CycType, HistoryType,
     Notice, OrderRec, EntriesBacked, AppliedInFull, BrokerExecutes, Put,
     WsIdle
<1>2. ASSUME NEW o \in Orders, BrokerCancels(o) PROVE Goal
  BY <1>2 DEF TypeOK, BrokerType, TraderType, WsType, CycType, HistoryType,
     Notice, OrderRec, EntriesBacked, AppliedInFull, BrokerCancels
<1>3. ASSUME NEW n \in DOMAIN notices, WsReceives(n) PROVE Goal
  BY <1>3 DEF TypeOK, BrokerType, TraderType, WsType, CycType, HistoryType,
     Notice, OrderRec, EntriesBacked, AppliedInFull, WsReceives, Fresh,
     WsIdle, Notice
<1>4. CASE WsApplies
  BY <1>4 DEF TypeOK, BrokerType, TraderType, WsType, CycType, HistoryType,
     Notice, OrderRec, EntriesBacked, AppliedInFull, WsApplies, Put, WsIdle
<1>5. CASE WsChecksSwitch
  BY <1>5 DEF TypeOK, BrokerType, TraderType, WsType, CycType, HistoryType,
     Notice, OrderRec, EntriesBacked, AppliedInFull, WsChecksSwitch, WsIdle
<1>6. CASE WsFinishes
  BY <1>6 DEF TypeOK, BrokerType, TraderType, WsType, CycType, HistoryType,
     Notice, OrderRec, EntriesBacked, AppliedInFull, WsFinishes, WsIdle
<1>7. CASE MonitorWakes
  BY <1>7 DEF TypeOK, BrokerType, TraderType, WsType, CycType, HistoryType,
     Notice, OrderRec, EntriesBacked, AppliedInFull, MonitorWakes
<1>8. ASSUME NEW t \in Triggers, Evaluates(t) PROVE Goal
  BY <1>8 DEF TypeOK, BrokerType, TraderType, WsType, CycType, HistoryType,
     Notice, OrderRec, EntriesBacked, AppliedInFull, Evaluates
<1>9. ASSUME NEW t \in Triggers, CancelsPending(t) PROVE Goal
  BY <1>9 DEF TypeOK, BrokerType, TraderType, WsType, CycType, HistoryType,
     Notice, OrderRec, EntriesBacked, AppliedInFull, CancelsPending,
     LockFree
<1>10. ASSUME NEW t \in Triggers, EntersCycle(t) PROVE Goal
  BY <1>10 DEF TypeOK, BrokerType, TraderType, WsType, CycType, HistoryType,
     Notice, OrderRec, EntriesBacked, AppliedInFull, EntersCycle, LockFree,
     Triggers, CycOff
<1>11. CASE UserResets
  BY <1>11 DEF TypeOK, BrokerType, TraderType, WsType, CycType, HistoryType,
     Notice, OrderRec, EntriesBacked, AppliedInFull, UserResets
<1>12. ASSUME NEW o \in Orders, PollsFilled(o) PROVE Goal
  <2>1. o \in DOMAIN order /\ done[o] >= order[o].qty
    BY <1>12 DEF PollsFilled, Polls, OrderStatus, TypeOK, CycType, BrokerType
  <2>2. /\ done[o] \in Nat /\ order[o].qty \in Nat
        /\ applied \in [Orders -> Nat]
        /\ applied' = [applied EXCEPT ![o] = applied[o] + done[o]]
    BY <1>12, <2>1 DEF PollsFilled, Reflects, TypeOK, BrokerType,
       HistoryType, OrderRec
  <2>3. applied'[o] >= order[o].qty /\ \A x \in Orders : applied'[x] >= applied[x]
    BY <2>1, <2>2
  <2>4. cyc'.step = "delete" /\ cyc'.cur = o
    BY <1>12 DEF PollsFilled, TypeOK, CycType
  <2>5. UNCHANGED <<order, book, done, soFar, ws, pending, registered>>
    BY <1>12 DEF PollsFilled, Reflects
  <2>6. applied' \in [Orders -> Nat]
    BY <2>2
  <2>7. ws.pc # "idle" => /\ ws.notice.order \in Orders /\ ws.notice.qty \in Nat
                          /\ ws.already \in Nat
    BY DEF TypeOK, WsType, WsIdle, Notice
  <2>8. EntriesBacked'
    <3>1. \A x \in Orders : soFar'[x] <= applied'[x]
      BY <2>1, <2>2, <2>3, <2>5, <2>6 DEF EntriesBacked, TypeOK, TraderType,
         HistoryType
    <3>2. /\ ws'.pc = "matched" => ws'.already <= applied'[ws'.notice.order]
          /\ ws'.pc \in {"applied", "finish"} =>
                ws'.already + ws'.notice.qty <= applied'[ws'.notice.order]
      BY <2>1, <2>2, <2>3, <2>5, <2>6, <2>7 DEF EntriesBacked, TypeOK,
         HistoryType
    <3> QED
      BY <2>3, <2>4, <2>5, <3>1, <3>2 DEF EntriesBacked
  <2>9. AppliedInFull'
    <3>1. \A x \in registered : x \in Orders /\ order[x].qty \in Nat
      BY DEF TypeOK, HistoryType, BrokerType, OrderRec
    <3> QED
      BY <2>1, <2>2, <2>3, <2>5, <2>6, <3>1 DEF AppliedInFull, TypeOK,
         HistoryType
  <2> QED
    BY <2>8, <2>9
<1>13. ASSUME NEW o \in Orders, PollsPartial(o) PROVE Goal
  <2>1. done[o] \in Nat /\ soFar[o] \in Nat /\ applied \in [Orders -> Nat]
    BY DEF TypeOK, BrokerType, TraderType, HistoryType
  <2>2. /\ done[o] > soFar[o]
        /\ applied' = [applied EXCEPT ![o] = applied[o] + (done[o] - soFar[o])]
    BY <1>13 DEF PollsPartial, Reflects
  <2>3. applied'[o] >= done[o] /\ \A x \in Orders : applied'[x] >= applied[x]
    BY <2>1, <2>2 DEF EntriesBacked
  <2>4. cyc'.step = "update" /\ cyc'.cur = o /\ cyc'.upTo = done[o]
    BY <1>13 DEF PollsPartial, TypeOK, CycType
  <2>5. UNCHANGED <<order, book, done, soFar, ws, pending, registered>>
    BY <1>13 DEF PollsPartial, Reflects
  <2>6. applied' \in [Orders -> Nat]
    BY <2>1, <2>2
  <2>7. ws.pc # "idle" => /\ ws.notice.order \in Orders /\ ws.notice.qty \in Nat
                          /\ ws.already \in Nat
    BY DEF TypeOK, WsType, WsIdle, Notice
  <2>8. EntriesBacked'
    <3>1. \A x \in Orders : soFar'[x] <= applied'[x]
      BY <2>1, <2>3, <2>5, <2>6 DEF EntriesBacked, TypeOK, TraderType,
         HistoryType
    <3>2. /\ ws'.pc = "matched" => ws'.already <= applied'[ws'.notice.order]
          /\ ws'.pc \in {"applied", "finish"} =>
                ws'.already + ws'.notice.qty <= applied'[ws'.notice.order]
      BY <2>1, <2>3, <2>5, <2>6, <2>7 DEF EntriesBacked, TypeOK, HistoryType
    <3> QED
      BY <2>3, <2>4, <2>5, <3>1, <3>2 DEF EntriesBacked
  <2>9. AppliedInFull'
    <3>1. \A x \in registered : x \in Orders /\ order[x].qty \in Nat
      BY DEF TypeOK, HistoryType, BrokerType, OrderRec
    <3> QED
      BY <2>1, <2>3, <2>5, <2>6, <3>1 DEF AppliedInFull, TypeOK,
         HistoryType
  <2> QED
    BY <2>8, <2>9
<1>14. ASSUME NEW o \in Orders, PollsCancelled(o) PROVE Goal
  <2>1. o \in DOMAIN order /\ book[o] = "cancelled"
    BY <1>14 DEF PollsCancelled, Polls, OrderStatus, TypeOK, CycType,
       BrokerType,
       OrderRec
  <2>2. cyc'.step = "delete" /\ cyc'.cur = o
    BY <1>14 DEF PollsCancelled, TypeOK, CycType
  <2> QED
    BY <1>14, <2>1, <2>2 DEF EntriesBacked, AppliedInFull, PollsCancelled
<1>15. ASSUME NEW o \in Orders, PollsNothing(o) PROVE Goal
  BY <1>15 DEF TypeOK, BrokerType, TraderType, WsType, CycType, HistoryType,
     Notice, OrderRec, EntriesBacked, AppliedInFull, PollsNothing, Polls
<1>16. CASE PollDeletes
  <2>1. UNCHANGED <<order, book, soFar, ws, applied, registered>>
    BY <1>16 DEF PollDeletes
  <2>2. cyc'.step = "next"
    <3>1. CASE cyc' = CycOff
      BY <3>1 DEF CycOff
    <3>2. CASE cyc' = [cyc EXCEPT !.step = "next", !.cur = None]
      BY <3>2 DEF TypeOK, CycType
    <3> QED
      BY <1>16, <3>1, <3>2 DEF PollDeletes, LeavesCycle
  <2>3. pending' = pending \/ pending' = pending \ {cyc.cur}
    BY <1>16 DEF PollDeletes
  <2>4. \/ applied[cyc.cur] >= order[cyc.cur].qty
        \/ book[cyc.cur] = "cancelled"
    BY <1>16 DEF EntriesBacked, PollDeletes
  <2>5. AppliedInFull'
    BY <2>1, <2>3, <2>4 DEF AppliedInFull
  <2>6. EntriesBacked'
    BY <2>1, <2>2 DEF EntriesBacked
  <2> QED
    BY <2>5, <2>6
<1>17. CASE PollUpdates
  BY <1>17 DEF TypeOK, BrokerType, TraderType, WsType, CycType, HistoryType,
     Notice, OrderRec, EntriesBacked, AppliedInFull, PollUpdates
<1>18. CASE CycleChecksHealth
  <2>1. cyc'.step = "next"
    <3>1. CASE cyc' = CycOff
      BY <3>1 DEF CycOff
    <3>2. CASE cyc' = [cyc EXCEPT !.pc = "exit", !.keys = DOMAIN ledger]
      BY <1>18, <3>2 DEF CycleChecksHealth, TypeOK, CycType
    <3> QED
      BY <1>18, <3>1, <3>2 DEF CycleChecksHealth, LeavesCycle
  <2> QED
    BY <1>18, <2>1 DEF EntriesBacked, AppliedInFull, CycleChecksHealth
<1>19. ASSUME NEW o \in Orders, NEW k \in Keys, CycleSells(o, k) PROVE Goal
  BY <1>19 DEF TypeOK, BrokerType, TraderType, WsType, CycType, HistoryType,
     Notice, OrderRec, EntriesBacked, AppliedInFull, CycleSells, Exits,
     SubmitAccepted, Accepted, Put
<1>20. ASSUME NEW o \in Orders, NEW k \in Keys, CycleSellFails(o, k) PROVE Goal
  BY <1>20 DEF TypeOK, BrokerType, TraderType, WsType, CycType, HistoryType,
     Notice, OrderRec, EntriesBacked, AppliedInFull, CycleSellFails, Exits,
     SubmitRejected, SubmitRaised, Accepted, Put
<1>21. ASSUME NEW k \in Keys, CycleSkips(k) PROVE Goal
  BY <1>21 DEF TypeOK, BrokerType, TraderType, WsType, CycType, HistoryType,
     Notice, OrderRec, EntriesBacked, AppliedInFull, CycleSkips, Exits
<1>22. CASE CycleRegisters
  BY <1>22 DEF TypeOK, BrokerType, TraderType, WsType, CycType, HistoryType,
     Notice, OrderRec, EntriesBacked, AppliedInFull, CycleRegisters,
     Registers
<1>23. CASE CycleWaits
  BY <1>23 DEF TypeOK, BrokerType, TraderType, WsType, CycType, HistoryType,
     Notice, OrderRec, EntriesBacked, AppliedInFull, CycleWaits
<1>24. CASE CyclePollsAgain
  BY <1>24 DEF TypeOK, BrokerType, TraderType, WsType, CycType, HistoryType,
     Notice, OrderRec, EntriesBacked, AppliedInFull, CyclePollsAgain
<1>25. CASE CycleEnds
  BY <1>25 DEF TypeOK, BrokerType, TraderType, WsType, CycType, HistoryType,
     Notice, OrderRec, EntriesBacked, AppliedInFull, CycleEnds,
     LeavesCycle, CycOff
<1>26. ASSUME NEW o \in Orders, NEW k \in Keys, TickSells(o, k) PROVE Goal
  BY <1>26 DEF TypeOK, BrokerType, TraderType, WsType, CycType, HistoryType,
     Notice, OrderRec, EntriesBacked, AppliedInFull, TickSells, StopLoss,
     SubmitAccepted, Accepted, Put
<1>27. ASSUME NEW o \in Orders, NEW k \in Keys, TickSellFails(o, k) PROVE Goal
  BY <1>27 DEF TypeOK, BrokerType, TraderType, WsType, CycType, HistoryType,
     Notice, OrderRec, EntriesBacked, AppliedInFull, TickSellFails,
     StopLoss, SubmitRejected, SubmitRaised, Accepted, Put
<1>28. ASSUME NEW k \in Keys, TickFindsNothing(k) PROVE Goal
  BY <1>28 DEF TypeOK, BrokerType, TraderType, WsType, CycType, HistoryType,
     Notice, OrderRec, EntriesBacked, AppliedInFull, TickFindsNothing,
     StopLoss
<1>29. CASE TickRegisters
  BY <1>29 DEF TypeOK, BrokerType, TraderType, WsType, CycType, HistoryType,
     Notice, OrderRec, EntriesBacked, AppliedInFull, TickRegisters,
     Registers, LockFree
<1>30. CASE UNCHANGED vars
  BY <1>30 DEF vars, EntriesBacked, AppliedInFull
<1> QED
  BY <1>1, <1>2, <1>3, <1>4, <1>5, <1>6, <1>7, <1>8, <1>9, <1>10, <1>11, <1>12, <1>13, <1>14, <1>15, <1>16, <1>17, <1>18, <1>19, <1>20, <1>21, <1>22, <1>23, <1>24, <1>25, <1>26, <1>27, <1>28, <1>29, <1>30
  DEF Next, WsStep, TriggerStep, CycleStep, TickStep

(* An order that is no longer tracked was executed in full or cancelled, or *)
(* one of its notices was applied; a handler past _apply_fill has applied  *)
(* its notice, and a cycle deletes what was executed in full or cancelled. *)
DroppedForCause ==
    /\ \A o \in registered \ pending : \/ done[o] >= order[o].qty
                                       \/ book[o] = "cancelled"
                                       \/ \E n \in DOMAIN wsApplied : n.order = o
    /\ ws.pc \in {"applied", "finish"} => ws.notice \in DOMAIN wsApplied
    /\ cyc.step = "delete" => \/ done[cyc.cur] >= order[cyc.cur].qty
                              \/ book[cyc.cur] = "cancelled"

(* Orders stay as they were sent, are executed further and never revived.  *)
LEMMA OrdersOnward ==
    ASSUME TypeOK, LedgerPositive, [Next]_vars
    PROVE  /\ \A o \in DOMAIN order :
                 /\ o \in DOMAIN order' /\ order'[o] = order[o]
                 /\ done'[o] >= done[o]
                 /\ book[o] = "cancelled" => book'[o] = "cancelled"
           /\ DOMAIN wsApplied \subseteq DOMAIN wsApplied'
<1> DEFINE Goal == /\ \A o \in DOMAIN order :
                        /\ o \in DOMAIN order' /\ order'[o] = order[o]
                        /\ done'[o] >= done[o]
                        /\ book[o] = "cancelled" => book'[o] = "cancelled"
                   /\ DOMAIN wsApplied \subseteq DOMAIN wsApplied'
<1> USE DEF brokerVars, history
<1>1. /\ DOMAIN order \subseteq Orders /\ done \in [Orders -> Nat]
      /\ book \in [Orders -> {"new", "working", "cancelled"}]
      /\ \A o \in DOMAIN order : order[o].qty \in Nat /\ book[o] # "new"
  BY DEF TypeOK, BrokerType, OrderRec
<1>2. CASE UNCHANGED brokerVars /\ DOMAIN wsApplied \subseteq DOMAIN wsApplied'
  BY <1>1, <1>2
<1>3. ASSUME NEW o \in Orders, BrokerExecutes(o) PROVE Goal
  <2>1. PICK q \in 1..(order[o].qty - done[o]) : done' = [done EXCEPT ![o] = @ + q]
    BY <1>3 DEF BrokerExecutes
  <2>2. UNCHANGED <<order, book, wsApplied>> /\ q \in Int /\ q >= 1
    BY <1>3 DEF BrokerExecutes
  <2>3. \A x \in Orders : done'[x] >= done[x]
    BY <1>1, <2>1, <2>2
  <2> QED  BY <1>1, <2>2, <2>3
<1>4. ASSUME NEW o \in Orders, BrokerCancels(o) PROVE Goal
  BY <1>1, <1>4 DEF BrokerCancels
<1>5. ASSUME NEW n \in DOMAIN notices, WsReceives(n) PROVE Goal
  BY <1>1, <1>5 DEF WsReceives
<1>6. CASE WsStep
  BY <1>2, <1>6 DEF WsStep, WsApplies, WsChecksSwitch, WsFinishes, Put
<1>7. ASSUME NEW t \in Triggers, TriggerStep(t) PROVE Goal
  <2>1. CASE CancelsPending(t)
    BY <1>1, <2>1 DEF CancelsPending
  <2> QED  BY <1>2, <1>7, <2>1 DEF TriggerStep, Evaluates, EntersCycle
<1>8. CASE MonitorWakes \/ UserResets
  BY <1>2, <1>8 DEF MonitorWakes, UserResets
<1>9. ASSUME NEW o \in Orders, NEW k, NEW q, Accepted(o, k, q), UNCHANGED wsApplied
      PROVE  Goal
  BY <1>1, <1>9 DEF Accepted, Put
<1>10. CASE CycleStep
  <2>1. ASSUME NEW o \in Orders, NEW k \in Keys, CycleSells(o, k) \/ CycleSellFails(o, k)
        PROVE  Goal
    BY <1>2, <1>9, <2>1 DEF CycleSells, CycleSellFails, SubmitAccepted,
       SubmitRejected, SubmitRaised
  <2> QED
    BY <1>2, <1>10, <2>1 DEF CycleStep, PollsFilled, PollsPartial, PollsCancelled,
       PollsNothing, PollDeletes, PollUpdates, CycleChecksHealth, CycleSkips,
       CycleRegisters, CycleWaits, CyclePollsAgain, CycleEnds, Reflects, Registers
<1>11. CASE TickStep
  <2>1. ASSUME NEW o \in Orders, NEW k \in Keys, TickSells(o, k) \/ TickSellFails(o, k)
        PROVE  Goal
    BY <1>2, <1>9, <2>1 DEF TickSells, TickSellFails, SubmitAccepted,
       SubmitRejected, SubmitRaised
  <2> QED
    BY <1>2, <1>11, <2>1 DEF TickStep, TickFindsNothing, TickRegisters, Registers
<1>12. CASE UNCHANGED vars
  BY <1>2, <1>12 DEF vars
<1> QED
  BY <1>3, <1>4, <1>5, <1>6, <1>7, <1>8, <1>10, <1>11, <1>12 DEF Next

LEMMA NextTracking ==
    TypeOK /\ LedgerPositive /\ DroppedForCause /\ [Next]_vars => DroppedForCause'
<1> SUFFICES ASSUME TypeOK, LedgerPositive, DroppedForCause, [Next]_vars
             PROVE  DroppedForCause'
  OBVIOUS
<1> USE DEF brokerVars, entryVars, gateVars, ksVars, history
<1>0. /\ \A o \in DOMAIN order :
           /\ o \in DOMAIN order' /\ order'[o] = order[o]
           /\ done[o] \in Nat /\ done'[o] \in Nat /\ order[o].qty \in Nat
           /\ done'[o] >= done[o]
           /\ book[o] = "cancelled" => book'[o] = "cancelled"
      /\ DOMAIN wsApplied \subseteq DOMAIN wsApplied'
      /\ registered \subseteq DOMAIN order
      /\ cyc.step # "next" => cyc.cur \in DOMAIN order
  <2>1. TypeOK'
    BY NextTypeOK
  <2> QED  BY <2>1, OrdersOnward DEF TypeOK, BrokerType, HistoryType, CycType, OrderRec
(* What is dropped stays accounted for when nothing more is dropped.       *)
<1>1. ASSUME registered' \ pending' \subseteq registered \ pending,
             ws'.pc \in {"applied", "finish"} => ws'.notice \in DOMAIN wsApplied',
             cyc'.step = "delete" => cyc'.step = cyc.step /\ cyc'.cur = cyc.cur
      PROVE  DroppedForCause'
  BY <1>0, <1>1 DEF DroppedForCause
<1>2. UNCHANGED ws => (ws'.pc \in {"applied", "finish"} => ws'.notice \in DOMAIN wsApplied')
  BY <1>0 DEF DroppedForCause
<1>3. ASSUME NEW o \in Orders, BrokerExecutes(o) \/ BrokerCancels(o) PROVE DroppedForCause'
  BY <1>1, <1>2, <1>3 DEF BrokerExecutes, BrokerCancels
<1>4. ASSUME NEW n \in DOMAIN notices, WsReceives(n) PROVE DroppedForCause'
  <2>1. ws'.pc = "matched" \/ ws' = ws
    BY <1>4 DEF WsReceives
  <2> QED  BY <1>1, <1>2, <1>4, <2>1 DEF WsReceives
<1>5. CASE WsApplies
  <2>1. ws'.notice = ws.notice /\ ws.notice \in DOMAIN wsApplied'
    BY <1>5 DEF WsApplies, Put, TypeOK, WsType, WsIdle
  <2> QED  BY <1>1, <1>5, <2>1 DEF WsApplies
<1>6. CASE WsChecksSwitch
  <2>1. ws'.notice = ws.notice /\ ws.pc = "applied"
    BY <1>6 DEF WsChecksSwitch, TypeOK, WsType, WsIdle
  <2> QED  BY <1>0, <1>1, <1>6, <2>1 DEF WsChecksSwitch, DroppedForCause
<1>7. CASE WsFinishes
  <2>1. ws'.pc = "idle" /\ UNCHANGED <<cyc, wsApplied, registered>>
    BY <1>7 DEF WsFinishes, WsIdle
  <2>2. ws.notice \in DOMAIN wsApplied
    BY <1>7 DEF WsFinishes, DroppedForCause
  <2>3. pending' = pending \/ pending' = pending \ {ws.notice.order}
    BY <1>7 DEF WsFinishes
  <2> QED  BY <1>0, <2>1, <2>2, <2>3 DEF DroppedForCause
<1>8. ASSUME NEW t \in Triggers, TriggerStep(t) PROVE DroppedForCause'
  <2>1. UNCHANGED <<registered, pending, ws>> /\ (cyc' = cyc \/ cyc'.step = "next")
    BY <1>8 DEF TriggerStep, Evaluates, CancelsPending, EntersCycle, CycOff
  <2> QED  BY <1>1, <1>2, <2>1
<1>9. CASE MonitorWakes \/ UserResets
  BY <1>1, <1>2, <1>9 DEF MonitorWakes, UserResets
<1>10. ASSUME NEW o \in Orders, PollsFilled(o) \/ PollsCancelled(o) PROVE DroppedForCause'
  <2>1. o \in DOMAIN order /\ (done[o] >= order[o].qty \/ book[o] = "cancelled")
    BY <1>10 DEF PollsFilled, PollsCancelled, Polls, OrderStatus, TypeOK, CycType
  <2>2. UNCHANGED <<ws, wsApplied, registered, pending>> /\ cyc'.cur = o
    BY <1>10 DEF PollsFilled, PollsCancelled, Reflects, TypeOK, CycType
  <2> QED  BY <1>0, <1>2, <2>1, <2>2 DEF DroppedForCause
<1>11. CASE PollDeletes
  <2>1. /\ UNCHANGED <<ws, wsApplied, registered>> /\ cyc'.step = "next"
        /\ pending' = pending \/ pending' = pending \ {cyc.cur}
    <3>1. cyc.cur \in pending \/ cyc' = CycOff
      BY <1>11 DEF PollDeletes, LeavesCycle
    <3>2. cyc' = CycOff => cyc'.step = "next"
      BY DEF CycOff
    <3>3. cyc.cur \in pending => cyc'.step = "next"
      BY <1>11 DEF PollDeletes, TypeOK, CycType
    <3> QED  BY <1>11, <3>1, <3>2, <3>3 DEF PollDeletes
  <2>2. cyc.cur \in DOMAIN order /\ (done[cyc.cur] >= order[cyc.cur].qty \/ book[cyc.cur] = "cancelled")
    BY <1>0, <1>11 DEF PollDeletes, DroppedForCause
  <2> QED  BY <1>0, <1>2, <2>1, <2>2 DEF DroppedForCause
<1>12. ASSUME CycleStep,
              ~PollDeletes, \A o \in Orders : ~PollsFilled(o) /\ ~PollsCancelled(o)
       PROVE  DroppedForCause'
  <2>1. UNCHANGED ws /\ registered' \ pending' \subseteq registered \ pending
    BY <1>12 DEF CycleStep, PollsPartial, PollsNothing, PollUpdates,
       CycleChecksHealth, CycleSells, CycleSellFails, CycleSkips, CycleRegisters,
       CycleWaits, CyclePollsAgain, CycleEnds, Reflects, Registers, LeavesCycle
  <2>2. cyc'.step # "delete"
    <3>1. CASE cyc' = CycOff
      BY <3>1 DEF CycOff
    <3>2. CASE \/ \E o \in Orders : PollsPartial(o) \/ PollsNothing(o)
               \/ PollUpdates \/ CycleRegisters \/ CycleWaits \/ CyclePollsAgain
      BY <3>2 DEF PollsPartial, PollsNothing, PollUpdates, CycleRegisters,
         CycleWaits, CyclePollsAgain, Polls, TypeOK, CycType
    <3>3. CASE \E k \in Keys : \/ CycleSkips(k)
                              \/ \E o \in Orders : CycleSells(o, k) \/ CycleSellFails(o, k)
      BY <3>3 DEF CycleSkips, CycleSells, CycleSellFails, Exits, TypeOK, CycType
    <3>4. CASE CycleChecksHealth /\ cyc' # CycOff
      BY <3>4 DEF CycleChecksHealth, LeavesCycle, TypeOK, CycType
    <3>5. CycleEnds => cyc' = CycOff
      BY DEF CycleEnds, LeavesCycle
    <3> QED  BY <1>12, <3>1, <3>2, <3>3, <3>4, <3>5 DEF CycleStep
  <2> QED  BY <1>1, <1>2, <2>1, <2>2
<1>13. CASE TickStep
  <2>1. /\ UNCHANGED <<ws, cyc>> /\ registered' \ pending' \subseteq registered \ pending
    BY <1>13 DEF TickStep, TickSells, TickSellFails, TickFindsNothing,
       TickRegisters, Registers
  <2> QED  BY <1>1, <1>2, <2>1
<1>14. CASE UNCHANGED vars
  BY <1>1, <1>2, <1>14 DEF vars
<1> QED
  BY <1>3, <1>4, <1>5, <1>6, <1>7, <1>8, <1>9, <1>10, <1>11, <1>12, <1>13, <1>14
  DEF Next, WsStep, CycleStep

-----------------------------------------------------------------------------
(* Redelivered notices *)

LEMMA NextDedup ==
    /\ TypeOK /\ DedupCovers /\ NoticeAppliedOnce /\ [Next]_vars
    => DedupCovers' /\ NoticeAppliedOnce'
<1> DEFINE Goal == DedupCovers' /\ NoticeAppliedOnce'
<1> SUFFICES ASSUME TypeOK, DedupCovers, NoticeAppliedOnce, [Next]_vars PROVE Goal
  OBVIOUS
<1> USE DEF brokerVars, entryVars, gateVars, ksVars, history
<1>1. ASSUME NEW n \in DOMAIN notices, WsReceives(n) PROVE Goal
  <2>1. n.order \in Orders /\ seen \in [Orders -> SUBSET (Stamps \X (Nat \ {0}))]
    BY DEF TypeOK, BrokerType, TraderType, Notice
  <2>2. CASE Fresh(n)
    <3>1. n \notin DOMAIN wsApplied
      BY <2>2 DEF Fresh, DedupCovers
    <3>2. /\ ws' = [pc |-> "matched", notice |-> n, already |-> soFar[n.order]]
          /\ seen' = [seen EXCEPT ![n.order] = @ \cup {<<n.stamp, n.qty>>}]
          /\ wsApplied' = wsApplied
      BY <1>1, <2>2 DEF WsReceives
    <3>3. \A o \in Orders : seen[o] \subseteq seen'[o]
      BY <2>1, <3>2
    <3>4. \A m \in DOMAIN wsApplied : m.order \in Orders
      BY DEF TypeOK, HistoryType, BrokerType, Notice
    <3> QED
      BY <2>1, <3>1, <3>2, <3>3, <3>4 DEF DedupCovers, NoticeAppliedOnce
  <2>3. CASE ~Fresh(n)
    BY <1>1, <2>3 DEF WsReceives, DedupCovers, NoticeAppliedOnce
  <2> QED
    BY <2>2, <2>3
<1>2. CASE WsApplies
  <2>1. /\ ws.notice \notin DOMAIN wsApplied
        /\ <<ws.notice.stamp, ws.notice.qty>> \in seen[ws.notice.order]
    BY <1>2 DEF WsApplies, DedupCovers
  <2>2. wsApplied' = Put(wsApplied, ws.notice, 1)
    BY <1>2, <2>1 DEF WsApplies
  <2>3. ws'.pc = "applied" /\ seen' = seen
    BY <1>2 DEF WsApplies, TypeOK, WsType, WsIdle
  <2> QED
    BY <2>1, <2>2, <2>3 DEF DedupCovers, NoticeAppliedOnce, Put
<1>3. CASE WsChecksSwitch \/ WsFinishes
  <2>1. ws'.pc # "matched"
    BY <1>3 DEF WsChecksSwitch, WsFinishes, TypeOK, WsType, WsIdle
  <2> QED
    BY <1>3, <2>1 DEF WsChecksSwitch, WsFinishes, DedupCovers, NoticeAppliedOnce
<1>4. CASE UNCHANGED <<ws, seen, wsApplied>>
  BY <1>4 DEF DedupCovers, NoticeAppliedOnce
<1>5. ASSUME NEW o \in Orders, BrokerExecutes(o) \/ BrokerCancels(o)
      PROVE  UNCHANGED <<ws, seen, wsApplied>>
  BY <1>5 DEF BrokerExecutes, BrokerCancels
<1>6. ASSUME NEW t \in Triggers, TriggerStep(t)
      PROVE  UNCHANGED <<ws, seen, wsApplied>>
  BY <1>6 DEF TriggerStep, Evaluates, CancelsPending, EntersCycle
<1>7. CASE MonitorWakes \/ UserResets
  BY <1>4, <1>7 DEF MonitorWakes, UserResets
<1>8. ASSUME CycleStep PROVE UNCHANGED <<ws, seen, wsApplied>>
  BY <1>8 DEF CycleStep, PollsFilled, PollsPartial, PollsCancelled, PollsNothing,
     PollDeletes, PollUpdates, CycleChecksHealth, CycleSells, CycleSellFails,
     CycleSkips, CycleRegisters, CycleWaits, CyclePollsAgain, CycleEnds, Reflects,
     Registers
<1>9. ASSUME TickStep PROVE UNCHANGED <<ws, seen, wsApplied>>
  BY <1>9 DEF TickStep, TickSells, TickSellFails, TickFindsNothing, TickRegisters,
     Registers
<1>10. CASE UNCHANGED vars
  BY <1>4, <1>10 DEF vars
<1> QED
  BY <1>1, <1>2, <1>3, <1>4, <1>5, <1>6, <1>7, <1>8, <1>9, <1>10 DEF Next, WsStep

(* L-09: however often a notice is redelivered, and whatever the other     *)
(* threads do meanwhile, it is reflected in the ledger at most once.       *)
THEOREM NoticesOnce == Spec => []NoticeAppliedOnce
<1>1. Init => LedgerPositive /\ DedupCovers /\ NoticeAppliedOnce
  BY DEF Init, LedgerPositive, DedupCovers, NoticeAppliedOnce, WsIdle
<1> QED
  BY <1>1, InitTypeOK, NextTypeOK, NextDedup, PTL DEF Spec

-----------------------------------------------------------------------------
(* The units of an order that a notice reports, and those of its notices   *)
(* that the WebSocket thread applied.                                      *)
UnitsOf(n) == (n.upTo - n.qty + 1) .. n.upTo

Covered(o) == UNION {UnitsOf(n) : n \in {m \in DOMAIN wsApplied : m.order = o}}

(* Notices of an order report different units of it, all executed, and     *)
(* what was applied of an order that no answer was applied to is the       *)
(* number of units its applied notices report.                             *)
UnitsInv ==
    /\ \A n \in DOMAIN notices : n.qty <= n.upTo /\ n.upTo <= done[n.order]
    /\ \A n, m \in DOMAIN notices :
          n.order = m.order /\ n # m => UnitsOf(n) \cap UnitsOf(m) = {}
    /\ \A o \in Orders \ polled :
          IsFiniteSet(Covered(o)) /\ applied[o] = Cardinality(Covered(o))

LEMMA UnitsFinite ==
    ASSUME NEW n \in Notice, n.qty <= n.upTo
    PROVE  /\ IsFiniteSet(UnitsOf(n)) /\ Cardinality(UnitsOf(n)) = n.qty
           /\ UnitsOf(n) \subseteq 1..n.upTo
<1> DEFINE a == n.upTo - n.qty + 1
           b == n.upTo
<1>1. a \in Int /\ b \in Int /\ a <= b /\ b - a + 1 = n.qty /\ a >= 1
  BY DEF Notice
<1>2. IsFiniteSet(a..b) /\ Cardinality(a..b) = IF a > b THEN 0 ELSE b - a + 1
  <2> HIDE DEF a, b
  <2> QED BY <1>1, FS_Interval
<1>3. ~ (a > b)
  BY <1>1
<1>4. UnitsOf(n) = a..b
  BY DEF UnitsOf
<1>5. a..b \subseteq 1..b
  <2> HIDE DEF a, b
  <2> QED BY <1>1
<1> QED BY <1>1, <1>2, <1>3, <1>4, <1>5

LEMMA NextUnits ==
    TypeOK /\ DedupCovers /\ UnitsInv /\ [Next]_vars => UnitsInv'
<1> SUFFICES ASSUME TypeOK, DedupCovers, UnitsInv, [Next]_vars PROVE UnitsInv'
  OBVIOUS
<1> USE DEF brokerVars, entryVars, gateVars, ksVars, history
<1>0. /\ \A n \in DOMAIN notices : n \in Notice /\ n.order \in Orders
      /\ DOMAIN wsApplied \subseteq DOMAIN notices
  BY DEF TypeOK, BrokerType, HistoryType, Notice
(* The notices and the quantities executed stay, and so does what was      *)
(* applied, but for orders to which an answer is applied.                  *)
<1>1. ASSUME UNCHANGED <<done, wsApplied>>, DOMAIN notices' = DOMAIN notices,
             polled \subseteq polled',
             \A o \in Orders \ polled' : applied'[o] = applied[o]
      PROVE  UnitsInv'
  BY <1>1 DEF UnitsInv, Covered
<1>2. ASSUME NEW o \in Orders, BrokerExecutes(o) PROVE UnitsInv'
  <2>1. PICK q \in 1..(order[o].qty - done[o]), s \in Stamps :
           /\ done' = [done EXCEPT ![o] = @ + q]
           /\ notices' = Put(notices, [order |-> o, upTo |-> done[o] + q,
                                       qty |-> q, stamp |-> s], 0)
    BY <1>2 DEF BrokerExecutes
  <2> DEFINE x == [order |-> o, upTo |-> done[o] + q, qty |-> q, stamp |-> s]
  <2>2. done \in [Orders -> Nat] /\ q \in Nat \ {0}
    <3>1. done \in [Orders -> Nat] /\ o \in DOMAIN order
      BY <1>2 DEF TypeOK, BrokerType, BrokerExecutes
    <3>2. order[o].qty \in Nat
      BY <3>1 DEF TypeOK, BrokerType, OrderRec
    <3> QED BY <3>1, <3>2
  <2>3. /\ DOMAIN notices' = DOMAIN notices \cup {x}
        /\ x.order = o /\ x.upTo = done[o] + q /\ x.qty = q
    BY <2>1 DEF Put
  <2>4. done'[o] = done[o] + q /\ \A p \in Orders : p # o => done'[p] = done[p]
    BY <2>1, <2>2
  <2> HIDE DEF x
  <2>5. \A n \in DOMAIN notices' : n.qty <= n.upTo /\ n.upTo <= done'[n.order]
    <3>1. ASSUME NEW n \in DOMAIN notices PROVE n.qty <= n.upTo /\ n.upTo <= done'[n.order]
      <4>1. n.qty <= n.upTo /\ n.upTo <= done[n.order] /\ n.order \in Orders /\ n.upTo \in Nat
        BY <1>0 DEF UnitsInv, Notice
      <4>2. done[n.order] <= done'[n.order] /\ done[n.order] \in Nat /\ done'[n.order] \in Nat
        BY <2>2, <2>4, <4>1
      <4> QED BY <4>1, <4>2
    <3>2. x.qty <= x.upTo /\ x.upTo <= done'[x.order]
      BY <2>2, <2>3, <2>4
    <3> QED BY <2>3, <3>1, <3>2
  <2>6. ASSUME NEW n \in DOMAIN notices, n.order = o PROVE UnitsOf(n) \cap UnitsOf(x) = {}
    <3>1. n.upTo <= done[o] /\ n.upTo \in Nat /\ n.qty \in Nat /\ done[o] \in Nat
      BY <1>0, <2>2, <2>6 DEF UnitsInv, Notice
    <3> QED BY <2>2, <2>3, <3>1 DEF UnitsOf
  <2>7. \A n, m \in DOMAIN notices' :
           n.order = m.order /\ n # m => UnitsOf(n) \cap UnitsOf(m) = {}
    BY <2>3, <2>6 DEF UnitsInv
  <2>8. UNCHANGED <<wsApplied, applied, polled>>
    BY <1>2 DEF BrokerExecutes
  <2> QED BY <2>5, <2>7, <2>8 DEF UnitsInv, Covered
<1>3. CASE WsApplies
  <2> DEFINE n == ws.notice
  <2>1. /\ ws \in [pc : {"matched", "applied", "finish"}, notice : Notice, already : Nat]
        /\ n \in DOMAIN notices /\ n \notin DOMAIN wsApplied
    BY <1>3 DEF WsApplies, TypeOK, WsType, WsIdle, DedupCovers
  <2>2. /\ wsApplied' = Put(wsApplied, n, 1)
        /\ applied' = [applied EXCEPT ![n.order] = @ + n.qty]
        /\ UNCHANGED <<done, notices, polled>>
    BY <1>3, <2>1 DEF WsApplies
  <2>3. n \in Notice /\ n.order \in Orders /\ n.qty \in Nat /\ n.qty <= n.upTo
    BY <1>0, <2>1 DEF Notice, UnitsInv
  <2> HIDE DEF n
  <2>4. DOMAIN wsApplied' = DOMAIN wsApplied \cup {n}
    BY <2>2 DEF Put
  <2>5. applied \in [Orders -> Nat]
    BY DEF TypeOK, HistoryType
  <2>6. ASSUME NEW o \in Orders \ polled
        PROVE  IsFiniteSet(Covered(o)') /\ applied'[o] = Cardinality(Covered(o)')
    <3>0. IsFiniteSet(Covered(o)) /\ applied[o] = Cardinality(Covered(o))
      BY DEF UnitsInv
    <3>1. CASE o # n.order
      <4>1. {m \in DOMAIN wsApplied' : m.order = o} = {m \in DOMAIN wsApplied : m.order = o}
        BY <2>4, <3>1
      <4>2. Covered(o)' = Covered(o)
        BY <4>1 DEF Covered
      <4> QED BY <2>2, <2>5, <3>0, <3>1, <4>2
    <3>2. CASE o = n.order
      <4>1. {m \in DOMAIN wsApplied' : m.order = o}
              = {m \in DOMAIN wsApplied : m.order = o} \cup {n}
        BY <2>4, <3>2
      <4>2. Covered(o)' = Covered(o) \cup UnitsOf(n)
        BY <4>1 DEF Covered
      <4>3. Covered(o) \cap UnitsOf(n) = {}
        <5>1. \A m \in DOMAIN wsApplied : m.order = o => UnitsOf(m) \cap UnitsOf(n) = {}
          BY <1>0, <2>1, <3>2 DEF UnitsInv
        <5> QED BY <5>1 DEF Covered
      <4>4. IsFiniteSet(UnitsOf(n)) /\ Cardinality(UnitsOf(n)) = n.qty
        BY <2>3, UnitsFinite
      <4> DEFINE S == Covered(o)
                 T == UnitsOf(n)
      <4> HIDE DEF S, T
      <4>5. IsFiniteSet(S \cup T)
            /\ Cardinality(S \cup T) = Cardinality(S) + Cardinality(T) - Cardinality(S \cap T)
        BY <3>0, <4>4, FS_Union DEF S, T
      <4>6. Cardinality(S \cap T) = 0
        BY <4>3, FS_EmptySet DEF S, T
      <4>7. applied'[o] = applied[o] + n.qty
        BY <2>2, <2>5, <3>2
      <4>8. Cardinality(S \cup T) = applied[o] + n.qty
        <5>1. applied[o] \in Nat
          BY <2>5
        <5> QED BY <2>3, <3>0, <4>4, <4>5, <4>6, <5>1 DEF S, T
      <4> QED BY <4>2, <4>5, <4>7, <4>8 DEF S, T
    <3> QED BY <3>1, <3>2
  <2> QED BY <2>2, <2>6 DEF UnitsInv
<1>4. ASSUME NEW n \in DOMAIN notices, WsReceives(n) PROVE UnitsInv'
  <2>1. DOMAIN notices' = DOMAIN notices
    BY <1>4 DEF WsReceives
  <2>2. UNCHANGED <<done, wsApplied, applied, polled>>
    BY <1>4 DEF WsReceives
  <2> QED BY <1>1, <2>1, <2>2
<1>5. CASE UNCHANGED <<done, notices, wsApplied, applied, polled>>
  BY <1>1, <1>5
<1>6. ASSUME NEW o \in Orders, BrokerCancels(o) PROVE UnitsInv'
  BY <1>5, <1>6 DEF BrokerCancels
<1>7. CASE WsChecksSwitch \/ WsFinishes \/ MonitorWakes \/ UserResets
  BY <1>5, <1>7 DEF WsChecksSwitch, WsFinishes, MonitorWakes, UserResets
<1>8. ASSUME NEW t \in Triggers, TriggerStep(t) PROVE UnitsInv'
  BY <1>5, <1>8 DEF TriggerStep, Evaluates, CancelsPending, EntersCycle
<1>9. ASSUME NEW o \in Orders, PollsFilled(o) \/ PollsPartial(o) PROVE UnitsInv'
  <2>1. /\ UNCHANGED <<done, notices, wsApplied>> /\ polled' = polled \cup {o}
        /\ \E q : applied' = [applied EXCEPT ![o] = q]
    BY <1>9 DEF PollsFilled, PollsPartial, Reflects
  <2>2. \A p \in Orders \ polled' : applied'[p] = applied[p]
    BY <2>1 DEF TypeOK, HistoryType
  <2> QED BY <1>1, <2>1, <2>2
<1>10. ASSUME NEW o \in Orders, PollsCancelled(o) \/ PollsNothing(o) PROVE UnitsInv'
  BY <1>5, <1>10 DEF PollsCancelled, PollsNothing
<1>11. CASE \/ PollDeletes \/ PollUpdates \/ CycleChecksHealth
            \/ \E k \in Keys : CycleSkips(k)
            \/ CycleRegisters \/ CycleWaits \/ CyclePollsAgain \/ CycleEnds
  BY <1>5, <1>11 DEF PollDeletes, PollUpdates, CycleChecksHealth, CycleSkips, CycleRegisters,
     CycleWaits, CyclePollsAgain, CycleEnds, Registers
<1>12. ASSUME NEW o \in Orders, NEW k \in Keys, CycleSells(o, k) \/ CycleSellFails(o, k)
       PROVE  UnitsInv'
  BY <1>5, <1>12 DEF CycleSells, CycleSellFails, SubmitAccepted, SubmitRejected, SubmitRaised,
     Accepted
<1>13. CASE TickStep
  BY <1>5, <1>13 DEF TickStep, TickSells, TickSellFails, TickFindsNothing, TickRegisters,
     SubmitAccepted, SubmitRejected, SubmitRaised, Accepted, Registers
<1>14. CASE UNCHANGED vars
  BY <1>5, <1>14 DEF vars
<1> QED
  BY <1>2, <1>3, <1>4, <1>6, <1>7, <1>8, <1>9, <1>10, <1>11, <1>12, <1>13, <1>14
     DEF Next, WsStep, CycleStep

(* INV-FILL-1 on the notice path: however notices are lost, repeated and   *)
(* reordered, and entries deleted or updated meanwhile, _on_exec_event     *)
(* never reflects more of an order than the broker executed.               *)
THEOREM NoticesNeverExceed == Spec => []NoticePathExact
<1>1. Init => DedupCovers /\ UnitsInv
  <2> SUFFICES ASSUME Init PROVE DedupCovers /\ UnitsInv
    OBVIOUS
  <2>1. DOMAIN wsApplied = {} /\ DOMAIN notices = {} /\ ws.pc = "idle"
        /\ \A o \in Orders : applied[o] = 0
    BY DEF Init, WsIdle
  <2>2. \A o \in Orders : Covered(o) = {}
    BY <2>1 DEF Covered
  <2> QED BY <2>1, <2>2, FS_EmptySet DEF UnitsInv, DedupCovers
<1>2. TypeOK /\ UnitsInv => NoticePathExact
  <2> SUFFICES ASSUME TypeOK, UnitsInv, NEW o \in Orders \ polled PROVE applied[o] <= done[o]
    BY DEF NoticePathExact
  <2>1. done[o] \in Nat
    BY DEF TypeOK, BrokerType
  <2>2. \A n \in DOMAIN wsApplied : n \in Notice /\ n \in DOMAIN notices
    BY DEF TypeOK, BrokerType, HistoryType
  <2>3. ASSUME NEW n \in DOMAIN wsApplied, n.order = o PROVE UnitsOf(n) \subseteq 1..done[o]
    <3>1. n.qty <= n.upTo /\ n.upTo <= done[o] /\ n \in Notice /\ n.upTo \in Nat
      BY <2>2, <2>3 DEF UnitsInv, Notice
    <3>2. UnitsOf(n) \subseteq 1..n.upTo
      BY <3>1, UnitsFinite
    <3> QED BY <2>1, <3>1, <3>2
  <2>4. Covered(o) \subseteq 1..done[o]
    BY <2>3 DEF Covered
  <2>5. IsFiniteSet(1..done[o]) /\ Cardinality(1..done[o]) = done[o]
    <3> DEFINE b == done[o]
    <3>1. b \in Int /\ 1 \in Int /\ b >= 0
      BY <2>1
    <3> HIDE DEF b
    <3>2. IsFiniteSet(1..b) /\ Cardinality(1..b) = IF 1 > b THEN 0 ELSE b - 1 + 1
      BY <3>1, FS_Interval
    <3>3. Cardinality(1..b) = b
      BY <3>1, <3>2
    <3> QED BY <3>2, <3>3 DEF b
  <2>6. Cardinality(Covered(o)) <= Cardinality(1..done[o])
    BY <2>4, <2>5, FS_Subset
  <2> QED BY <2>5, <2>6 DEF UnitsInv
<1> QED
  BY <1>1, <1>2, TypeCorrect, NoticesOnce, NextDedup, NextUnits, PTL DEF Spec

(* Whatever the threads interleave, an order stays tracked                 *)
(* until it is executed in full or cancelled, but for a unit that a poll   *)
(* and its notice both applied (trader.py:269-276, intraday_loop.py:138-   *)
(* 145), which counts twice towards the order's quantity.                  *)
THEOREM TrackedToTheEnd == Spec => []NeverDroppedEarly
<1>1. Init => LedgerPositive /\ EntriesBacked /\ AppliedInFull /\ DroppedForCause
  BY DEF Init, LedgerPositive, EntriesBacked, AppliedInFull, DroppedForCause,
     WsIdle, CycOff
<1>2. TypeOK /\ AppliedInFull /\ DroppedForCause /\ NoticePathExact => NeverDroppedEarly
  <2> SUFFICES ASSUME TypeOK, AppliedInFull, DroppedForCause, NoticePathExact,
                      NEW o \in registered \ pending,
                      ~ (done[o] >= order[o].qty), book[o] # "cancelled"
               PROVE  /\ o \in polled /\ \E n \in DOMAIN wsApplied : n.order = o
                      /\ applied[o] >= order[o].qty
    BY DEF NeverDroppedEarly
  <2>1. applied[o] >= order[o].qty /\ \E n \in DOMAIN wsApplied : n.order = o
    BY DEF AppliedInFull, DroppedForCause
  <2>2. o \in Orders /\ applied[o] \in Nat /\ done[o] \in Nat /\ order[o].qty \in Nat
    BY DEF TypeOK, BrokerType, HistoryType, OrderRec
  <2> QED  BY <2>1, <2>2 DEF NoticePathExact
<1> QED
  BY <1>1, <1>2, TypeCorrect, LedgerStaysPositive, NoticesNeverExceed, NextApplied,
     NextTracking, PTL DEF Spec
=============================================================================
