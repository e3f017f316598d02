---- MODULE OrderStream ----
(***************************************************************************)
(* The stream of execution notices of one market: a thread that connects,  *)
(* subscribes with the approval key and, when the connection ends, waits   *)
(* and connects again.  KIS answers a subscription with a key, and         *)
(* encrypts the notices of that connection with it.  A notice carries its  *)
(* price in the form of its market, American ones in ten-thousandths.      *)
(* What happens while there is no subscription is never told.              *)
(***************************************************************************)
EXTENDS Integers, Sequences, SequencesExt

CONSTANTS
  Trades,     \* executions, 1..n in the order in which they happen
  MaxConns,   \* bound: connections
  MaxBackoff  \* bound: the seconds between two attempts

VARIABLES
  venue,     \* of this client
  socket,    \* "none", "dials", "open", "waits"
  backoff,
  connNo,    \* number of the connection
  approval,  \* the approval key is one that KIS accepts
  aesKey,    \* the key the client decrypts with, 0 before the first
  accepted,  \* KIS has accepted the subscription of this connection
  wire,      \* what KIS has sent on this connection
  traded,    \* number of executions so far
  handed,    \* the notices handed to on_exec
  stopFlag

orderStreamVars ==
  <<venue, socket, backoff, connNo, approval, aesKey, accepted, wire, traded,
    handed, stopFlag>>

MarketOf(t) == IF t % 2 = 1 THEN "KR" ELSE "US"
TimesTwo(n) == IF 2 * n < MaxBackoff THEN 2 * n ELSE MaxBackoff

OrderStreamInit ==
  /\ venue \in {"KR", "US"}
  /\ socket = "none" /\ backoff = 1 /\ connNo = 0
  /\ approval \in BOOLEAN
  /\ aesKey = 0
  /\ accepted = FALSE /\ wire = <<>>
  /\ traded = 0
  /\ handed = <<>>
  /\ stopFlag = FALSE

---------------------------------------------------------------------------
(* start(): without an approval key it raises; while the thread lives it    *)
(* does nothing.                                                            *)
StartStream ==
  /\ socket = "none"
  /\ stopFlag' = FALSE
  /\ approval' = TRUE
  /\ socket' = "dials" /\ backoff' = 1
  /\ UNCHANGED <<venue, connNo, aesKey, accepted, wire, traded, handed>>

(* The connection opens, and the client asks for the subscription: KIS      *)
(* sends the key of this connection, or an error if the approval is stale.  *)
Opens ==
  /\ socket = "dials" /\ ~stopFlag
  /\ connNo < MaxConns
  /\ socket' = "open"
  /\ connNo' = connNo + 1
  /\ accepted' \in {FALSE, approval}
  /\ wire' = <<[kind |-> IF accepted' THEN "ack" ELSE "refused",
                key |-> connNo + 1]>>
  /\ UNCHANGED <<venue, backoff, approval, aesKey, traded, handed, stopFlag>>

DialFails ==
  /\ socket = "dials"
  /\ socket' = "waits"
  /\ UNCHANGED <<venue, backoff, connNo, approval, aesKey, accepted, wire,
                 traded, handed, stopFlag>>

(* What is on its way is lost with the connection. *)
SocketCloses ==
  /\ socket = "open"
  /\ socket' = "waits"
  /\ accepted' = FALSE /\ wire' = <<>>
  /\ UNCHANGED <<venue, backoff, connNo, approval, aesKey, traded, handed,
                 stopFlag>>

(* A new approval key is asked for before each attempt; if none is issued   *)
(* the old one is used.                                                     *)
Retries ==
  /\ socket = "waits"
  /\ IF stopFlag THEN socket' = "none" /\ UNCHANGED <<backoff, approval>>
     ELSE /\ socket' = "dials"
          /\ backoff' = TimesTwo(backoff)
          /\ approval' \in {approval, TRUE}
  /\ UNCHANGED <<venue, connNo, aesKey, accepted, wire, traded, handed,
                 stopFlag>>

ApprovalExpires ==
  /\ approval' = FALSE
  /\ UNCHANGED <<venue, socket, backoff, connNo, aesKey, accepted, wire, traded,
                 handed, stopFlag>>

StopStream ==
  /\ stopFlag' = TRUE
  /\ socket' = IF socket = "open" THEN "waits" ELSE socket
  /\ accepted' = FALSE /\ wire' = <<>>
  /\ UNCHANGED <<venue, backoff, connNo, approval, aesKey, traded, handed>>

---------------------------------------------------------------------------
(* An execution: KIS tells it to the subscriptions of the account.          *)
Trade ==
  /\ traded + 1 \in Trades
  /\ traded' = traded + 1
  /\ wire' = IF accepted
             THEN Append(wire, [kind |-> "notice", key |-> connNo,
                                 trade |-> traded + 1])
             ELSE wire
  /\ UNCHANGED <<venue, socket, backoff, connNo, approval, aesKey, accepted,
                 handed, stopFlag>>

(* The first key is kept. *)
KeyOnce(m) == IF aesKey = 0 THEN m.key ELSE aesKey

KeyOf(m) == m.key

(* The answer to the subscription; a refusal is logged and nothing else.    *)
System ==
  /\ socket = "open" /\ wire # <<>> /\ wire[1].kind \in {"ack", "refused"}
  /\ aesKey' = IF wire[1].kind = "ack" THEN KeyOf(wire[1]) ELSE aesKey
  /\ wire' = Tail(wire)
  /\ UNCHANGED <<venue, socket, backoff, connNo, approval, accepted, traded,
                 handed, stopFlag>>

(* What the client makes of a notice: text that means something only with   *)
(* the key it was encrypted with, a price in the form of its own market.    *)
Decoded(m) ==
  [trade |-> IF m.key = aesKey THEN m.trade ELSE 0,
   priced |-> MarketOf(m.trade) = venue]

(* A notice of the other market is not this client's.                       *)
Mine(m) == MarketOf(m.trade) = venue

HandsOn ==
  /\ socket = "open" /\ wire # <<>> /\ wire[1].kind = "notice"
  /\ handed' = IF Mine(wire[1]) /\ aesKey # 0
              THEN Append(handed, Decoded(wire[1])) ELSE handed
  /\ wire' = Tail(wire)
  /\ UNCHANGED <<venue, socket, backoff, connNo, approval, aesKey, accepted,
                 traded, stopFlag>>

OrderStreamNext ==
  \/ StartStream \/ Opens \/ DialFails \/ SocketCloses \/ Retries
  \/ ApprovalExpires \/ StopStream
  \/ Trade \/ System \/ HandsOn

OrderStreamSpec == OrderStreamInit /\ [][OrderStreamNext]_orderStreamVars

---------------------------------------------------------------------------
(* Every notice handed on is an execution of this market as it happened,    *)
(* in the order of the executions and each once: whatever connections were  *)
(* lost in between, with their keys.                                        *)
HeardAsTraded ==
  /\ \A i \in DOMAIN handed : handed[i].trade \in 1..traded /\ handed[i].priced
  /\ \A i, j \in DOMAIN handed : i < j => handed[i].trade < handed[j].trade
====
