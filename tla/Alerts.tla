---- MODULE Alerts ----
(***************************************************************************)
(* The webhook messages of the server.  Every snapshot that is pushed is   *)
(* checked in the background, after the answer, in a session of its own;   *)
(* the checks of two snapshots may overlap.  A check reads the settings of *)
(* the user once and again after each of its commits, and goes through the *)
(* alarms in a fixed order.  What was told is kept in the settings: the    *)
(* switch as told or not, every other alarm as told within its cooldown.   *)
(***************************************************************************)
EXTENDS Integers, Sequences, FiniteSets

CONSTANTS
  Checks,     \* background tasks of the server
  Threshold,  \* preview_missing_alert_threshold
  MaxPushes   \* bound: snapshots pushed

VARIABLES
  pushes,      \* snapshots pushed
  settings,    \* the alert fields of the user's settings, as committed
  heard,       \* what the user was told and holds: the switch, an alarm in
               \* its cooldown
  check,       \* the running checks: alarm reached, snapshot, settings as read
  overlapped,  \* two checks ran at the same time
  unrecorded,  \* a message was sent and not recorded
  misread,     \* what was heard and struck off the record by a snapshot that
               \* does not speak of it
  repeated     \* how messages of what the user had heard came: "misread",
               \* after such a snapshot, or "plain"

alertVars == <<pushes, settings, heard, check, overlapped, unrecorded,
               misread, repeated>>

(* The order in which a check goes through the alarms; drawdown and loss    *)
(* share one record and one cooldown.                                       *)
Alarms == <<"switch", "drawdown", "missing", "loss", "drift", "slippage">>
Field(alarm) == IF alarm = "drawdown" THEN "loss" ELSE alarm
Timed == {"loss", "missing", "drift", "slippage"}

(* A cycle reports the switch and a missing preview; a settlement, a        *)
(* reconciliation after the open and a notice do not.                       *)
Snapshots ==
  [kind : {"cycle"}, ks : {"active", "clear"}, missing : {FALSE},
   raised : {{}, {"drawdown", "loss"}, {"slippage"}}]
  \cup [kind : {"cycle"}, ks : {"active", "clear"}, missing : {TRUE}, raised : {{}}]
  \cup [kind : {"settlement"}, ks : {"absent"}, missing : {FALSE},
        raised : {{"drift"}}]
  \cup [kind : {"notice"}, ks : {"absent"}, missing : {FALSE}, raised : {{}}]

Nothing == [at |-> 0]
Busy(c) == check[c] # Nothing

AlertInit ==
  /\ pushes = 0
  /\ settings = [switch |-> FALSE, loss |-> FALSE, missing |-> FALSE,
                 drift |-> FALSE, slippage |-> FALSE, streak |-> 0]
  /\ heard = {} /\ misread = {}
  /\ check = [c \in Checks |-> Nothing]
  /\ overlapped = FALSE /\ unrecorded = FALSE
  /\ repeated = {}

(* The snapshot is stored and answered; its check starts and reads.         *)
ServerReceives(c) ==
  /\ pushes < MaxPushes
  /\ ~Busy(c)
  /\ pushes' = pushes + 1
  /\ \E s \in Snapshots :
       check' = [check EXCEPT ![c] = [at |-> 1, snap |-> s, seen |-> settings]]
  /\ overlapped' = (overlapped \/ \E d \in Checks \ {c} : Busy(d))
  /\ UNCHANGED <<settings, heard, unrecorded, misread, repeated>>

(* An hour passes, twelve for the missing preview, without a check.         *)
CooldownPasses(f) ==
  /\ f \in Timed
  /\ f \in heard
  /\ \A c \in Checks : ~Busy(c)
  /\ settings' = [settings EXCEPT ![f] = FALSE]
  /\ heard' = heard \ {f}
  /\ UNCHANGED <<pushes, check, overlapped, unrecorded, misread, repeated>>

(* The streak that this check counts for its snapshot. *)
Streak(c) == check[c].seen.streak + 1

(* Whether the alarm that check c has reached sends a message.              *)
Raises(c) ==
  LET s == check[c].snap  seen == check[c].seen  alarm == Alarms[check[c].at]
  IN CASE alarm = "switch" -> (s.ks = "active") # seen.switch
       [] alarm = "missing" -> /\ s.missing
                               /\ Streak(c) >= Threshold
                               /\ ~seen.missing
       [] OTHER -> alarm \in s.raised /\ ~seen[Field(alarm)]

(* A drawdown is told and not recorded. *)
RecordedNoDrawdown(c, told) ==
  LET s == check[c].snap  alarm == Alarms[check[c].at]  f == Field(alarm)
      flag == IF told /\ alarm # "drawdown"
              THEN [settings EXCEPT ![f] = (alarm # "switch" \/ s.ks = "active")]
              ELSE settings
  IN IF alarm # "missing" THEN flag
     ELSE IF s.missing THEN [flag EXCEPT !.streak = Streak(c)]
     ELSE IF check[c].seen.streak > 0
          THEN [settings EXCEPT !.streak = 0, !.missing = FALSE]
     ELSE settings

(* The settings that the alarm commits; told: its message went out.         *)
Recorded(c, told) ==
  LET s == check[c].snap  alarm == Alarms[check[c].at]  f == Field(alarm)
      flag == IF told THEN [settings EXCEPT ![f] = (alarm # "switch" \/ s.ks = "active")]
                      ELSE settings
  IN IF alarm # "missing" THEN flag
     ELSE IF s.missing THEN [flag EXCEPT !.streak = Streak(c)]
     ELSE IF check[c].seen.streak > 0
          THEN [settings EXCEPT !.streak = 0, !.missing = FALSE]
     ELSE settings

Commits(c, told) == told \/ Recorded(c, told) # settings

(* The check goes on to the next alarm that the snapshot concerns, and ends *)
(* after the last.                                                          *)
Concerns(s, alarm) == alarm \in {"switch", "missing"} \cup s.raised

Advance(c, seen) ==
  LET s == check[c].snap
      rest == {i \in DOMAIN Alarms : i > check[c].at /\ Concerns(s, Alarms[i])}
  IN check' = [check EXCEPT ![c] =
       IF rest = {} THEN Nothing
       ELSE [at |-> CHOOSE i \in rest : \A j \in rest : i <= j,
             snap |-> s, seen |-> seen]]

(* Check c's snapshot is of a cycle and reports the alarm as over: the       *)
(* switch is off, there is a preview.                                       *)
IsOver(c) ==
  LET s == check[c].snap  alarm == Alarms[check[c].at]
  IN /\ s.kind = "cycle"
     /\ \/ alarm = "switch" /\ s.ks = "clear"
        \/ alarm = "missing" /\ ~s.missing

(* A message that is no release of the switch. *)
News(c, told) ==
  told /\ (Alarms[check[c].at] = "switch" => check[c].snap.ks = "active")

(* What the user holds after a message, or after a recovery.  A snapshot    *)
(* without the field of the switch is read as its release, and one without  *)
(* the field of a missing preview as a preview that is there.               *)
Hears(c, told) ==
  LET f == Field(Alarms[check[c].at])
  IN /\ heard' = IF IsOver(c) THEN heard \ {f}
                 ELSE IF News(c, told) THEN heard \cup {f} ELSE heard
     /\ misread' = IF IsOver(c) \/ News(c, told) THEN misread \ {f}
                   ELSE IF f \in heard /\ settings[f] /\ ~settings'[f]
                        THEN misread \cup {f} ELSE misread
     /\ repeated' = IF News(c, told) /\ f \in heard
                    THEN repeated \cup {IF f \in misread THEN "misread" ELSE "plain"}
                    ELSE repeated

(* A message of the webhook succeeds, or it fails and is not recorded.      *)
ChecksAlarm(c) ==
  /\ Busy(c)
  /\ \E told \in BOOLEAN :
       /\ told => Raises(c)
       /\ settings' = Recorded(c, told)
       /\ Advance(c, IF Commits(c, told) THEN settings' ELSE check[c].seen)
       /\ Hears(c, told)
  /\ UNCHANGED <<pushes, overlapped, unrecorded>>

(* The commit raises after the message went out: the check is given up.     *)
CommitFails(c) ==
  /\ Busy(c)
  /\ Raises(c)
  /\ check' = [check EXCEPT ![c] = Nothing]
  /\ UNCHANGED settings
  /\ Hears(c, TRUE)
  /\ unrecorded' = TRUE
  /\ UNCHANGED <<pushes, overlapped>>

AlertNext ==
  \/ \E f \in Timed : CooldownPasses(f)
  \/ \E c \in Checks : ServerReceives(c) \/ ChecksAlarm(c) \/ CommitFails(c)

AlertSpec == AlertInit /\ [][AlertNext]_alertVars

---------------------------------------------------------------------------
(* The user is told again what he has heard, an activation of the switch    *)
(* or an alarm within its cooldown, only when two checks overlapped, each   *)
(* of which had read the settings before the other wrote, when a message    *)
(* went out that could not be recorded, or when a snapshot of another kind  *)
(* came in between that says nothing of it: that is read as its end (of the *)
(* switch, a release is told that never was), and the next cycle has it     *)
(* told again.                                                              *)
ToldOnce == "plain" \in repeated => overlapped \/ unrecorded

====
