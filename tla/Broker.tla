---- MODULE Broker ----
(***************************************************************************)
(* The REST client of KIS.  Every call takes a place in the throttle that  *)
(* all threads share, a sliding window whose lock is held through the wait *)
(* for it; then it gets the token from the file, or a new one; then it is  *)
(* sent.  A query is tried again after any answer that may be transient, a *)
(* posted order only when KIS says that it refused it for the rate.  Times *)
(* are ages in ticks: the age of a place in the window, up to Window.      *)
(***************************************************************************)
EXTENDS Integers, Sequences, FiniteSets, SequencesExt

CONSTANTS
  Threads,
  MAX_CALLS,  \* places in a window
  Window,     \* ticks of a window
  Tries       \* attempts of a call

ASSUME BrokerAssumption == /\ MAX_CALLS \in Nat \ {0}
                           /\ Window \in Nat \ {0}
                           /\ Tries \in Nat \ {0}
                           /\ "free" \notin Threads

VARIABLES
  calls,    \* the throttle's list: ages of the places taken
  granted,  \* ages of all places taken within the last window
  lock,     \* the thread that holds the throttle's lock, "free"
  call,     \* the threads: where they are, what they send, attempts made
  token,    \* the token file: "fresh" or "old"
  created   \* orders that KIS made of the thread's present call

brokerVars == <<calls, granted, lock, call, token, created>>

NoCall == [pc |-> "idle", kind |-> "get", tried |-> 0, wait |-> 0]

BrokerInit ==
  /\ calls = <<>> /\ granted = <<>>
  /\ lock = "free"
  /\ call = [t \in Threads |-> NoCall]
  /\ token = "old"
  /\ created = [t \in Threads |-> 0]

Within(ages) ==
  FoldLeft(LAMBDA kept, a : IF a < Window THEN Append(kept, a) ELSE kept,
           <<>>, ages)
Older(ages) ==
  [i \in DOMAIN ages |-> IF ages[i] < Window THEN ages[i] + 1 ELSE Window]
Goes(t, pc) == call' = [call EXCEPT ![t].pc = pc]

Tick ==
  /\ calls' = Older(calls)
  /\ granted' = Within(Older(granted))
  /\ call' = [t \in Threads |->
       [call[t] EXCEPT !.wait = IF @ = 0 THEN 0 ELSE @ - 1]]
  /\ UNCHANGED <<lock, token, created>>

Calls(t) ==
  /\ call[t].pc = "idle"
  /\ \E kind \in {"get", "post"} :
       call' = [call EXCEPT ![t] = [NoCall EXCEPT !.pc = "acquire", !.kind = kind]]
  /\ created' = [created EXCEPT ![t] = 0]
  /\ UNCHANGED <<calls, granted, lock, token>>

(* In a full window, the wait until its first place is out of it.           *)
Sleeps(t) ==
  call' = [call EXCEPT ![t].pc = "sleep", ![t].wait = Window - Head(Within(calls))]

(* The lock is released for the wait. *)
AcquiresAndYields(t) ==
  /\ call[t].pc = "acquire"
  /\ IF Len(Within(calls)) >= MAX_CALLS
     THEN /\ calls' = Within(calls)
          /\ Sleeps(t)
          /\ UNCHANGED granted
     ELSE /\ calls' = Append(Within(calls), 0)
          /\ granted' = Append(granted, 0)
          /\ Goes(t, "token")
  /\ UNCHANGED <<lock, token, created>>

(* A full window is waited for with the lock held.                          *)
Acquires(t) ==
  /\ call[t].pc = "acquire"
  /\ lock = "free"
  /\ IF Len(Within(calls)) >= MAX_CALLS
     THEN /\ lock' = t
          /\ calls' = Within(calls)
          /\ Sleeps(t)
          /\ UNCHANGED granted
     ELSE /\ calls' = Append(Within(calls), 0)
          /\ granted' = Append(granted, 0)
          /\ Goes(t, "token")
          /\ UNCHANGED lock
  /\ UNCHANGED <<token, created>>

(* The sleep lasts as long as asked for, or longer.                         *)
Wakes(t) ==
  /\ call[t].pc = "sleep"
  /\ call[t].wait = 0
  /\ calls' = Append(Within(calls), 0)
  /\ granted' = Append(granted, 0)
  /\ lock' = "free"
  /\ Goes(t, "token")
  /\ UNCHANGED <<token, created>>

---------------------------------------------------------------------------
Returns(t) == call' = [call EXCEPT ![t] = NoCall]

(* The token of the file, or a new one, which may not be had or not saved:  *)
(* the call raises.                                                         *)
TakesToken(t) ==
  /\ call[t].pc = "token"
  /\ \/ token = "fresh" /\ Goes(t, "send") /\ UNCHANGED token
     \/ token = "old" /\ Goes(t, "send") /\ token' = "fresh"
     \/ token = "old" /\ Returns(t) /\ UNCHANGED token
  /\ UNCHANGED <<calls, granted, lock, created>>

TokenAges ==
  /\ token' = "old"
  /\ UNCHANGED <<calls, granted, lock, call, created>>

(* What may come of a request: an answer, or none; "limited" is EGW00201.   *)
Outcomes == {"ok", "limited", "busy", "refused", "lost"}

(* KIS makes an order of a post that it accepts, and perhaps of one whose   *)
(* answer is an error or lost; never of one that it refuses or limits.      *)
Creates(t, out) ==
  IF call[t].kind = "get" \/ out \in {"limited", "refused"} THEN {0}
  ELSE IF out = "ok" THEN {1} ELSE {0, 1}

(* Whether a call that came out so is tried again.                          *)
TriesAgain(t, out) ==
  /\ call[t].tried + 1 < Tries
  /\ out \in IF call[t].kind = "get" THEN {"limited", "busy"} ELSE {"limited"}

SendsRequest(t) ==
  /\ call[t].pc = "send"
  /\ \E out \in Outcomes :
       /\ \E n \in Creates(t, out) : created' = [created EXCEPT ![t] = @ + n]
       /\ IF TriesAgain(t, out)
          THEN call' = [call EXCEPT ![t].pc = "acquire", ![t].tried = @ + 1]
          ELSE Returns(t)
  /\ UNCHANGED <<calls, granted, lock, token>>

BrokerNext ==
  \/ Tick \/ TokenAges
  \/ \E t \in Threads : \/ Calls(t) \/ Acquires(t) \/ Wakes(t)
                        \/ TakesToken(t) \/ SendsRequest(t)

BrokerSpec == BrokerInit /\ [][BrokerNext]_brokerVars

---------------------------------------------------------------------------
(* However the threads interleave, and however late a waiting one wakes up, *)
(* no window holds more calls than the limit.  Requests of a token and of   *)
(* an approval key do not pass the throttle, and are not counted.           *)
WindowBounded == Len(granted) <= MAX_CALLS

(* A call that posts an order makes one at most, whatever KIS answers and   *)
(* however often the call tries.                                            *)
PostedOnce == \A t \in Threads : created[t] <= 1

====
