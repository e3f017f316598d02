---- MODULE Streams ----
(***************************************************************************)
(* The intraday loop and its price stream: start and stop of the loop, the *)
(* thread that connects and reconnects the WebSocket, the subscriptions    *)
(* that it restores and that a minutely sync fits to the holdings, and the *)
(* polling thread that asks for prices while the stream is down.  One      *)
(* module lock is held by all of start and stop, another, of the stream,   *)
(* by each change of the subscriptions.  A message in the hands of a thread *)
(* holds that thread up, and is evaluated whatever happens meanwhile.      *)
(***************************************************************************)
EXTENDS Integers, FiniteSets

CONSTANTS
  Symbols,        \* symbols the account may hold
  SUBSCRIBE_MAX,  \* subscriptions that KIS allows on one connection
  MaxHeld         \* bound: symbols held at a time

ASSUME StreamsAssumption == SUBSCRIBE_MAX \in Nat \ {0}

VARIABLES
  loop,        \* the loop: "off", "starting", "on", "stopping"
  holdings,    \* the symbols of the market in the ledger
  connection,  \* the thread of the stream: ended, about to test the flag,
               \* flag tested, connection made, run, open, waiting to retry
  connected,   \* its event _connected
  stopped,     \* its _stop_flag
  subs,        \* its _symbols
  served,      \* the subscriptions of the connection at KIS
  stray,       \* the thread of an earlier loop's stream, if it lives on
  poll,        \* the polling thread: "none", "checks", "round"
  asked,       \* the symbol whose price the polling thread has asked for, if any
  message,     \* the symbol of the message in the stream thread's hands, if any
  late,        \* that message came after the stop of its loop
  slipped,     \* the stop fell between its thread's test and its connection
  strayMessage,  \* what the earlier thread has in its hands: "none", a
                 \* message that was "held" at the stop, or a "late" one
  straySlipped   \* the same as slipped, of the earlier thread

streamVars == <<loop, holdings, connection, connected, stopped, subs, served,
                stray, poll, asked, message, late, slipped, strayMessage,
                straySlipped>>

(* What the threads of the streams and of the polling hold.                 *)
inHand == <<asked, message, late, slipped, strayMessage, straySlipped>>

StreamsInit ==
  /\ loop = "off"
  /\ holdings = {}
  /\ connection = "none" /\ connected = FALSE /\ stopped = FALSE
  /\ subs = {} /\ served = {}
  /\ stray = "none"
  /\ poll = "none"
  /\ asked = {} /\ message = {} /\ late = FALSE
  /\ slipped = FALSE /\ strayMessage = "none" /\ straySlipped = FALSE

HoldingsChange ==
  /\ \E s \in Symbols :
       holdings' = IF s \in holdings THEN holdings \ {s} ELSE holdings \cup {s}
  /\ Cardinality(holdings') <= MaxHeld
  /\ UNCHANGED <<loop, connection, connected, stopped, subs, served, stray,
                 poll, inHand>>

---------------------------------------------------------------------------
(* Adding stops at the limit; without a connection it is only noted.        *)
Subscribed(target) ==
  {s \in SUBSET (subs \cup target) :
     /\ subs \subseteq s
     /\ Cardinality(s) <= SUBSCRIBE_MAX
     /\ s # subs \cup target => Cardinality(s) = SUBSCRIBE_MAX}

(* start: a new stream whose key is fetched, or a loop without a stream.    *)
LoopStarts ==
  /\ loop = "off"
  /\ loop' = "starting"
  /\ \/ connection' = "test"
     \/ connection' = "none"
  /\ stopped' = FALSE /\ connected' = FALSE /\ slipped' = FALSE
  /\ subs' = {} /\ served' = {} /\ asked' = {}
  /\ UNCHANGED <<holdings, stray, poll, message, late, strayMessage,
                 straySlipped>>

(* It waits for the connection up to ten seconds, subscribes the holdings,  *)
(* and starts the sync and the polling.                                     *)
LoopStarted ==
  /\ loop = "starting"
  /\ loop' = "on"
  /\ IF connection = "none" THEN UNCHANGED <<subs, served>>
     ELSE \E s \in Subscribed(holdings) :
            /\ subs' = s
            /\ served' = IF connected THEN served \cup s ELSE served
  /\ poll' = "checks"
  /\ UNCHANGED <<holdings, connection, connected, stopped, stray, inHand>>

(* stop: the flag is set and the connection closed; a connection object     *)
(* that is not running yet is not held up by that.                          *)
LoopStops ==
  /\ loop = "on"
  /\ loop' = "stopping"
  /\ stopped' = TRUE
  /\ connection' = IF connection \in {"runs", "open"} THEN "waits" ELSE connection
  /\ connected' = FALSE
  /\ served' = {}
  /\ slipped' = (connection \in {"tested", "made"})
  /\ UNCHANGED <<holdings, subs, stray, poll, asked, message, late,
                 strayMessage, straySlipped>>

(* The joins end or time out, and the loop forgets its stream.              *)
LoopStopped ==
  /\ loop = "stopping"
  /\ loop' = "off"
  /\ IF connection = "none"
     THEN UNCHANGED <<stray, strayMessage, straySlipped>>
     ELSE /\ stray' = connection
          /\ strayMessage' = IF message = {} THEN "none"
                             ELSE IF late THEN "late" ELSE "held"
          /\ straySlipped' = slipped
  /\ connection' = "none"
  /\ connected' = FALSE
  /\ subs' = {} /\ served' = {} /\ message' = {} /\ late' = FALSE
  /\ poll' = "none"
  /\ UNCHANGED <<holdings, stopped, asked, slipped>>

---------------------------------------------------------------------------
(* The thread of the stream. *)
ConnTests ==
  /\ connection = "test"
  /\ connection' = IF stopped THEN "none" ELSE "tested"
  /\ UNCHANGED <<loop, holdings, connected, stopped, subs, served, stray, poll, inHand>>

ConnRuns ==
  /\ connection \in {"tested", "made"}
  /\ connection' = IF connection = "tested" THEN "made" ELSE "runs"
  /\ UNCHANGED <<loop, holdings, connected, stopped, subs, served, stray, poll, inHand>>

(* The connection opens: first the event, then, under the stream's lock,    *)
(* every subscription again.                                                *)
ConnOpens ==
  /\ connection = "runs" /\ ~connected
  /\ connected' = TRUE
  /\ UNCHANGED <<loop, holdings, connection, stopped, subs, served, stray, poll, inHand>>

(* A new connection subscribes nothing. *)
ConnRestoresNothing ==
  /\ connection = "runs" /\ connected
  /\ connection' = "open"
  /\ UNCHANGED <<loop, holdings, connected, stopped, subs, served, stray, poll, inHand>>

ConnRestores ==
  /\ connection = "runs" /\ connected
  /\ connection' = "open"
  /\ served' = served \cup subs
  /\ UNCHANGED <<loop, holdings, connected, stopped, subs, stray, poll, inHand>>

(* The connection breaks, or cannot be opened; the thread notices when it   *)
(* has no message in its hands.                                             *)
ConnBreaks ==
  /\ connection \in {"runs", "open"} /\ message = {}
  /\ connection' = "waits"
  /\ connected' = FALSE
  /\ served' = {}
  /\ UNCHANGED <<loop, holdings, stopped, subs, stray, poll, inHand>>

ConnRetries ==
  /\ connection = "waits" /\ message = {}
  /\ connection' = IF stopped THEN "none" ELSE "test"
  /\ UNCHANGED <<loop, holdings, connected, stopped, subs, served, stray, poll,
                 inHand>>

(* A message comes for a symbol that is subscribed on the connection.       *)
Arrives(s) ==
  /\ connection = "open" /\ message = {}
  /\ s \in served
  /\ message' = {s}
  /\ late' = stopped
  /\ UNCHANGED <<loop, holdings, connection, connected, stopped, subs, served,
                 stray, poll, asked, slipped, strayMessage, straySlipped>>

(* The records of a message are evaluated, however long it takes: a US one  *)
(* waits for the module lock that start and stop hold, and whether the loop *)
(* was stopped is not asked.                                                *)
Ticks ==
  /\ message # {}
  /\ message' = {} /\ late' = FALSE
  /\ UNCHANGED <<loop, holdings, connection, connected, stopped, subs, served,
                 stray, poll, asked, slipped, strayMessage, straySlipped>>

---------------------------------------------------------------------------
(* What changes when the thread of an earlier loop goes on.                 *)
StrayGoes(place, held) ==
  /\ stray' = place /\ strayMessage' = held
  /\ UNCHANGED <<loop, holdings, connection, connected, stopped, subs, served,
                 poll, asked, message, late, slipped, straySlipped>>

(* The flag is not tested before a new connection. *)
StrayMovesOn ==
  /\ stray # "none" /\ strayMessage = "none"
  /\ StrayGoes(CASE stray \in {"test", "waits"} -> "tested"
                 [] stray = "tested" -> "made"
                 [] stray = "made" -> "runs"
                 [] stray \in {"runs", "open"} -> "open", "none")

(* A thread that outlives its loop: its flag is set, so that it ends at the *)
(* next test, and runs on when it had passed the test.                      *)
StrayMoves ==
  /\ stray # "none" /\ strayMessage = "none"
  /\ StrayGoes(CASE stray \in {"test", "waits"} -> "none"
                 [] stray = "tested" -> "made"
                 [] stray = "made" -> "runs"
                 [] stray \in {"runs", "open"} -> "open", "none")

StrayBreaks ==
  /\ stray \in {"runs", "open"} /\ strayMessage = "none"
  /\ StrayGoes("none", "none")

(* Its subscriptions are those of the loop that it belonged to.             *)
StrayArrives ==
  /\ stray = "open" /\ strayMessage = "none"
  /\ StrayGoes(stray, "late")

StrayTicks ==
  /\ strayMessage # "none"
  /\ StrayGoes(stray, "none")

---------------------------------------------------------------------------
(* The minutely sync: first what is missing, then what is no longer held.   *)
Syncs ==
  /\ loop = "on" /\ ~stopped
  /\ \E s \in Subscribed(holdings) :
       /\ subs' = s \cap holdings
       /\ served' = IF connected THEN (served \cup (s \ subs)) \ (s \ holdings)
                                  ELSE served
  /\ UNCHANGED <<loop, holdings, connection, connected, stopped, stray, poll, inHand>>

(* The polling thread looks at the connection and polls a round without it. *)
PollChecks ==
  /\ poll = "checks"
  /\ loop = "on"
  /\ poll' = IF connected \/ holdings = {} THEN "checks" ELSE "round"
  /\ UNCHANGED <<loop, holdings, connection, connected, stopped, subs, served,
                 stray, inHand>>

(* A price that is asked for before the connection is back, or before the   *)
(* stop, is evaluated afterwards; one that is not answered is left to the   *)
(* next round.                                                              *)
PollAsks(s) ==
  /\ poll = "round" /\ asked = {}
  /\ loop = "on" /\ ~connected
  /\ s \in holdings
  /\ asked' = {s}
  /\ UNCHANGED <<loop, holdings, connection, connected, stopped, subs, served,
                 stray, poll, message, late, slipped, strayMessage,
                 straySlipped>>

PollAnswers ==
  /\ asked # {}
  /\ asked' = {}
  /\ UNCHANGED <<loop, holdings, connection, connected, stopped, subs, served,
                 stray, poll, message, late, slipped, strayMessage,
                 straySlipped>>

PollEndsRound ==
  /\ poll = "round" /\ asked = {}
  /\ poll' = "checks"
  /\ UNCHANGED <<loop, holdings, connection, connected, stopped, subs, served,
                 stray, inHand>>

StreamsNext ==
  \/ HoldingsChange
  \/ LoopStarts \/ LoopStarted \/ LoopStops \/ LoopStopped
  \/ ConnTests \/ ConnRuns \/ ConnOpens
  \/ ConnRestores \/ ConnBreaks \/ ConnRetries \/ Ticks
  \/ StrayMoves \/ StrayBreaks \/ StrayArrives \/ StrayTicks
  \/ Syncs \/ PollChecks \/ PollAnswers \/ PollEndsRound
  \/ \E s \in Symbols : Arrives(s) \/ PollAsks(s)

StreamsSpec == StreamsInit /\ [][StreamsNext]_streamVars

---------------------------------------------------------------------------
(* A price of s is evaluated. *)
Evaluates(s) ==
  \/ s \in message /\ Ticks
  \/ s \in asked /\ PollAnswers

(* A symbol that stays held while the loop stays on is evaluated again and  *)
(* again, by ticks or by polling, through any number of broken connections, *)
(* when no more are held than the limit and the other holdings either come  *)
(* to rest or never fill the limit together with those sold before: a sync  *)
(* adds what is bought before it removes what is sold, so that trades at    *)
(* every sync may keep the places of the limit taken.                       *)
HeldPriced ==
  \A s \in Symbols :
    (/\ <>[](/\ s \in holdings /\ Cardinality(holdings) <= SUBSCRIBE_MAX
             /\ loop = "on")
     /\ \/ <>[][FALSE]_holdings
        \/ <>[](Cardinality(subs \cup holdings) <= SUBSCRIBE_MAX))
    => []<><<Evaluates(s)>>_streamVars

(* A message that comes after the stop of the loop is evaluated only by a   *)
(* thread of which the stop fell between the test of the flag and the run   *)
(* of a new connection.                                                     *)
StopEndsStream ==
  /\ late => slipped
  /\ strayMessage = "late" => straySlipped
====
