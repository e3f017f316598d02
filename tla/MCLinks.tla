---- MODULE MCLinks ----
(* The machines by which the application keeps up with the server and with  *)
(* KIS while it runs, each on its own variables: a behaviour is one of the  *)
(* machine that its first state names.                                      *)
EXTENDS SnapshotSync, Calendars, Streams, TLC

CONSTANTS r1, r2, n1, a, b, c

VARIABLE machine

Machines == {"sync", "calendars", "streams"}

(* The variables of the other machines rest; where those may start in       *)
(* several states, they rest in one of them.                                *)
Init ==
  /\ machine \in Machines
  /\ SyncInit
  /\ CalInit
  /\ StreamsInit

Rest ==
  /\ UNCHANGED machine
  /\ machine # "sync" => UNCHANGED syncVars
  /\ machine # "calendars" => UNCHANGED calVars
  /\ machine # "streams" => UNCHANGED streamVars

Next ==
  \/ machine = "sync" /\ SyncNext /\ Rest
  \/ machine = "calendars" /\ CalNext /\ Rest
  \/ machine = "streams" /\ StreamsNext /\ Rest

vars == <<machine, syncVars, calVars, streamVars>>

(* What goes on by itself, fair to its machine; only one machine runs in a  *)
(* behaviour, so that the steps of the three share their conditions.        *)
(* Strongly fair, as a restart, a broken connection or an end of the        *)
(* application may come in between: the calendar is pulled and loaded, the  *)
(* file is read and sent again, prices come by ticks and by polling.        *)
Strong(i) ==
  \/ /\ machine = "calendars"
     /\ \/ i = 1 /\ Pulls
        \/ i = 2 /\ KeepsRead
        \/ i = 3 /\ LoadsCalendar
        \/ i = 4 /\ KeepsLoaded
  \/ /\ machine = "sync"
     /\ \/ i = 1 /\ RetryReads
        \/ i = 2 /\ RetrySends
        \/ i = 3 /\ RetryUnlinks
  \/ /\ machine = "streams"
     /\ \/ i = 1 /\ PollChecks
        \/ i = 2 /\ (Arrives(a) \/ PollAsks(a))
        \/ i = 3 /\ (Arrives(b) \/ PollAsks(b))
        \/ i = 4 /\ (Arrives(c) \/ PollAsks(c))

(* Weakly fair: the calendar is built every night, the retry thread starts, *)
(* and the threads of the loop go on.                                       *)
Weak(i) ==
  \/ machine = "calendars" /\ i = 1 /\ BuildsCalendar
  \/ machine = "sync" /\ i = 1 /\ RetryStarts
  \/ /\ machine = "streams"
     /\ \/ i = 1 /\ Syncs
        \/ i = 2 /\ PollEndsRound
        \/ i = 3 /\ ConnRuns
        \/ i = 4 /\ ConnTests
        \/ i = 5 /\ ConnRetries
        \/ i = 6 /\ ConnRestores
        \/ i = 7 /\ LoopStarted
        \/ i = 8 /\ LoopStopped
        \/ i = 9 /\ Ticks
        \/ i = 10 /\ PollAnswers

Fair ==
  /\ \A i \in 1..4 : SF_vars(Strong(i) /\ Rest)
  /\ \A i \in 1..10 : WF_vars(Weak(i) /\ Rest)

Spec == Init /\ [][Next]_vars /\ Fair
====
