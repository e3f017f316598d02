---- MODULE SnapshotSync ----
(***************************************************************************)
(* The way of a snapshot from the local application to the server.  A run  *)
(* first sends the snapshot that an earlier one has left in the pending    *)
(* file, then takes and sends its own, and saves that in the file when the *)
(* sending fails; the file holds one snapshot.  A thread sends the file    *)
(* again in the background, and the notices of the intraday threads are    *)
(* sent once.  The server appends every snapshot it receives.  A snapshot  *)
(* is the number of its taking.                                            *)
(***************************************************************************)
EXTENDS Integers, FiniteSets

CONSTANTS
  Cycles,   \* threads that run cycles and settlements
  Notices,  \* threads that send a snapshot without keeping it
  MaxTaken  \* bound: snapshots taken

ASSUME SyncAssumption == /\ MaxTaken \in Nat
                         /\ Cycles \cap Notices = {}

VARIABLES
  taken,    \* snapshots taken so far
  pending,  \* the snapshot in the pending file, 0 when there is no file
  run,      \* the pushing threads: where they are, the snapshot they hold
  retry,    \* the retry thread, likewise
  stored,   \* the snapshots the server has received
  fate      \* how a snapshot was lost, "none" as long as it is not

syncVars == <<taken, pending, run, retry, stored, fate>>

Pushers == Cycles \cup Notices
Version == 1..MaxTaken
Idle == [pc |-> "idle", hold |-> 0]
RetryOff == [pc |-> "off", hold |-> 0]

SyncInit ==
  /\ taken = 0
  /\ pending = 0
  /\ run = [p \in Pushers |-> Idle]
  /\ retry = RetryOff
  /\ stored = {}
  /\ fate = [v \in Version |-> "none"]

(* The request arrives or not; a snapshot may arrive again. *)
Sends(v, arrives) == stored' = IF arrives THEN stored \cup {v} ELSE stored

(* The snapshots vs are given up for the reason why, if no copy arrived. *)
Loses(vs, why) ==
  fate' = [v \in Version |-> IF v \in vs \ stored' /\ fate[v] = "none"
                             THEN why ELSE fate[v]]

(* Sending the file over it is removed; by then it may hold another one. *)
Unlinks(hold) ==
  /\ pending' = 0
  /\ Loses({pending} \ {0, hold}, "raced")

---------------------------------------------------------------------------
(* A run sends the file if there is one, and goes on if that fails. *)
RunStarts(r) ==
  /\ r \in Cycles
  /\ run[r].pc = "idle"
  /\ run' = [run EXCEPT ![r] =
       IF pending # 0 THEN [pc |-> "flushing", hold |-> pending]
                      ELSE [pc |-> "working", hold |-> 0]]
  /\ UNCHANGED <<taken, pending, retry, stored, fate>>

(* The file is removed although the sending failed. *)
FlushSendsAnyway(r) ==
  /\ run[r].pc = "flushing"
  /\ \E arrives \in BOOLEAN : Sends(run[r].hold, arrives)
  /\ run' = [run EXCEPT ![r].pc = "unlinking"]
  /\ UNCHANGED <<taken, pending, retry, fate>>

FlushSends(r) ==
  /\ run[r].pc = "flushing"
  /\ \E arrives \in BOOLEAN, answered \in BOOLEAN :
       /\ answered => arrives
       /\ Sends(run[r].hold, arrives)
       /\ run' = [run EXCEPT ![r] =
            IF answered THEN [@ EXCEPT !.pc = "unlinking"]
                        ELSE [pc |-> "working", hold |-> 0]]
  /\ UNCHANGED <<taken, pending, retry, fate>>

FlushUnlinks(r) ==
  /\ run[r].pc = "unlinking"
  /\ run' = [run EXCEPT ![r] = [pc |-> "working", hold |-> 0]]
  /\ UNCHANGED <<taken, retry, stored>>
  /\ Unlinks(run[r].hold)

(* A holiday, or a settlement that cannot read the balance: nothing is sent. *)
RunEndsEarly(r) ==
  /\ run[r].pc = "working"
  /\ run' = [run EXCEPT ![r] = Idle]
  /\ UNCHANGED <<taken, pending, retry, stored, fate>>

(* The account is read, or the cycle's error becomes the snapshot. *)
Takes(p) ==
  /\ run[p].pc = IF p \in Cycles THEN "working" ELSE "idle"
  /\ taken < MaxTaken
  /\ taken' = taken + 1
  /\ run' = [run EXCEPT ![p] = [pc |-> "pushing", hold |-> taken + 1]]
  /\ UNCHANGED <<pending, retry, stored, fate>>

(* A run whose request fails, or whose answer is lost, saves the snapshot;  *)
(* a notice is only logged.                                                 *)
Pushes(p) ==
  /\ run[p].pc = "pushing"
  /\ \E arrives \in BOOLEAN, answered \in BOOLEAN :
       /\ answered => arrives
       /\ Sends(run[p].hold, arrives)
       /\ run' = [run EXCEPT ![p] =
            IF answered \/ p \in Notices THEN Idle
                                         ELSE [@ EXCEPT !.pc = "saving"]]
  /\ IF p \in Notices THEN Loses({run[p].hold}, "notice")
                      ELSE UNCHANGED fate
  /\ UNCHANGED <<taken, pending, retry>>

SavesPayload(r) ==
  /\ run[r].pc = "saving"
  /\ pending' = run[r].hold
  /\ run' = [run EXCEPT ![r] = Idle]
  /\ UNCHANGED <<taken, retry, stored>>
  /\ Loses({pending} \ {0}, "replaced")

---------------------------------------------------------------------------
(* The retry thread. *)
RetryStarts ==
  /\ retry.pc = "off"
  /\ retry' = [pc |-> "waiting", hold |-> 0]
  /\ UNCHANGED <<taken, pending, run, stored, fate>>

RetryReads ==
  /\ retry.pc = "waiting"
  /\ pending # 0
  /\ retry' = [pc |-> "sending", hold |-> pending]
  /\ UNCHANGED <<taken, pending, run, stored, fate>>

(* The thread ends with its first failure. *)
RetryFailsLast ==
  /\ retry.pc = "sending"
  /\ \E arrives \in BOOLEAN : Sends(retry.hold, arrives)
  /\ retry' = [pc |-> "ended", hold |-> 0]
  /\ UNCHANGED <<taken, pending, run, fate>>

RetryFails ==
  /\ retry.pc = "sending"
  /\ \E arrives \in BOOLEAN : Sends(retry.hold, arrives)
  /\ retry' = [pc |-> "waiting", hold |-> 0]
  /\ UNCHANGED <<taken, pending, run, fate>>

RetrySends ==
  /\ retry.pc = "sending"
  /\ Sends(retry.hold, TRUE)
  /\ retry' = [retry EXCEPT !.pc = "unlinking"]
  /\ UNCHANGED <<taken, pending, run, fate>>

RetryUnlinks ==
  /\ retry.pc = "unlinking"
  /\ retry' = [pc |-> "waiting", hold |-> 0]
  /\ UNCHANGED <<taken, run, stored>>
  /\ Unlinks(retry.hold)

(* The file cannot be removed, and is sent again. *)
RetryKeepsFile ==
  /\ retry.pc = "unlinking"
  /\ retry' = [pc |-> "waiting", hold |-> 0]
  /\ UNCHANGED <<taken, pending, run, stored, fate>>

(* The snapshots that a thread is about to send or to save. *)
Hands == {run[p].hold : p \in {q \in Pushers : run[q].pc \in {"pushing", "saving"}}}

(* The application ends, with every thread of it; the file stays. *)
Dies ==
  /\ run' = [p \in Pushers |-> Idle]
  /\ retry' = RetryOff
  /\ UNCHANGED <<taken, pending, stored>>
  /\ Loses(Hands, "crashed")

SyncNext ==
  \/ \E r \in Cycles : \/ RunStarts(r) \/ FlushSends(r) \/ FlushUnlinks(r)
                     \/ RunEndsEarly(r) \/ SavesPayload(r)
  \/ \E p \in Pushers : Takes(p) \/ Pushes(p)
  \/ RetryStarts \/ RetryReads \/ RetryFails \/ RetrySends
  \/ RetryUnlinks \/ RetryKeepsFile
  \/ Dies

SyncSpec == SyncInit /\ [][SyncNext]_syncVars

---------------------------------------------------------------------------
SyncTypeOK ==
  /\ taken \in 0..MaxTaken
  /\ pending \in 0..taken
  /\ run \in [Pushers -> [pc : {"idle", "flushing", "unlinking", "working",
                                "pushing", "saving"}, hold : 0..MaxTaken]]
  /\ retry \in [pc : {"off", "waiting", "sending", "unlinking"}, hold : 0..MaxTaken]
  /\ stored \subseteq 1..taken
  /\ fate \in [Version -> {"none", "raced", "replaced", "notice", "crashed"}]

(* A snapshot is never lost without a reason: the server has it, or the     *)
(* file, or a thread that is about to send or to save it; or it was a       *)
(* notice, the application ended with it in hand, the next failing run      *)
(* replaced it in the file, or the file was removed by a thread that had    *)
(* sent another snapshot.                                                   *)
NothingLostSilently ==
  \A v \in 1..taken : \/ v \in stored \cup {pending} \cup Hands
                      \/ fate[v] # "none"

(* A snapshot in the file does not stay there for ever, undelivered: the    *)
(* retry thread delivers it, through failures and restarts, unless a newer  *)
(* one takes its place.                                                     *)
FileMoves == \A v \in Version : []<>(pending # v \/ v \in stored)
====
