------------------------------- MODULE CommandBus -------------------------------
(***************************************************************************)
(* Commands from the web to the local program: the rows and the streams of *)
(* the server (server/app/routers/commands.py) and the client's one thread *)
(* (local/localapp/commands_client.py), for the commands of one device.    *)
(*                                                                         *)
(* create_command stores a command as pending and puts it in the queue of  *)
(* the stream that registered last.  A stream sends the pending rows once  *)
(* and then what comes to its queue; a poll, which the client makes when   *)
(* it has no stream, answers with the pending rows.  Either of them marks  *)
(* a row as delivered before it is sent.  The client executes a command    *)
(* and then acknowledges it.                                               *)
(***************************************************************************)
EXTENDS Naturals, Sequences, Functions

CONSTANTS
    Cmds,       \* the commands a user gives
    Conns,      \* identities of streams, used again
    MaxFaults   \* bound: breaks, lost answers, crashes, restarts

None == "none"

ASSUME ConstantsAssumption ==
    None \notin Cmds \cup Conns /\ MaxFaults \in Nat

VARIABLES
    \* the server's database and threads
    status,      \* command -> "none" before it is created; Command.status
    stamp,       \* command -> created_at
    creating,    \* commands whose create_command has committed, not published
    late,        \* a poll that nobody waits for: [at, rows]
    \* the server's streams
    registered,  \* the stream of _device_queues[device_id]
    gen,         \* stream -> where its event_gen is
    queue,       \* stream -> its asyncio.Queue
    batch,       \* stream -> the rows of the first query that it has still to deliver
    pipe,        \* stream -> what it has sent after them
    cut,         \* streams whose connection is broken, or that have none
    deaf,        \* the connection broke and the client does not know
    \* the client
    client,      \* where it is, its stream, its poll, the command it executes
    \* bounds and history
    faults, ran, raced, hit, overtaken

database == <<status, stamp, creating, late>>
streams  == <<registered, gen, queue, batch, pipe, cut, deaf>>
history  == <<ran, raced, hit, overtaken>>
vars     == <<database, streams, client, faults, history>>

Out == [at |-> "out", conn |-> None, rows |-> {}, cmd |-> None]
NoPoll == [at |-> "none", rows |-> {}]

Init ==
    /\ status = [c \in Cmds |-> "none"] /\ stamp = [c \in Cmds |-> 0]
    /\ creating = {} /\ late = NoPoll
    /\ registered = None
    /\ gen = [k \in Conns |-> "none"]
    /\ queue = [k \in Conns |-> <<>>]
    /\ batch = [k \in Conns |-> {}] /\ pipe = [k \in Conns |-> <<>>]
    /\ cut = {} /\ deaf = FALSE
    /\ client = Out
    /\ faults = 0
    /\ ran = [c \in Cmds |-> 0]    \* how often it was executed
    /\ raced = {}       \* commands marked by a reader of the pending rows while
                        \* they were in a queue, or about to be
    /\ hit = {}         \* commands marked for a reader that is gone, or on their way
                        \* when the connection or the program ended
    /\ overtaken = FALSE   \* a stream nobody waits for has registered last

Fault == faults < MaxFaults /\ faults' = faults + 1

Pending == {c \in Cmds : status[c] = "pending"}
Created == {c \in Cmds : status[c] # "none"}
Settled == {"done", "failed"}

Delivered(rows) == [c \in Cmds |-> IF c \in rows THEN "delivered" ELSE status[c]]

Oldest(c, rows) == c \in rows /\ \A d \in rows : stamp[c] <= stamp[d]

(* What create_command has put in the queue of a stream that works, or is   *)
(* about to.                                                               *)
ToBeQueued ==
    creating \cup UNION {Range(queue[k]) : k \in {l \in Conns \ cut : gen[l] # "none"}}

(* What is sent to the client, and not executed. *)
OnTheWay ==
    IF client.at = "in" THEN batch[client.conn] \cup Range(pipe[client.conn])
    ELSE IF client.at = "out" THEN client.rows ELSE {}

(* A reader of the pending rows marks them as delivered; gone is whether   *)
(* nobody waits for them.                                                  *)
Marks(rows, gone) ==
    /\ status' = Delivered(rows)
    /\ raced' = raced \cup (rows \cap ToBeQueued)
    /\ hit' = hit \cup (IF gone THEN rows ELSE {})

-----------------------------------------------------------------------------
(* create_command *)

Commits(c) ==
    /\ status[c] = "none"
    /\ status' = [status EXCEPT ![c] = "pending"]
    /\ \E n \in {1} \cup {stamp[d] + 1 : d \in Created} :
          /\ \A d \in Created : stamp[d] < n
          /\ stamp' = [stamp EXCEPT ![c] = n]
    /\ creating' = creating \cup {c}
    /\ UNCHANGED <<late, streams, client, faults, ran, raced, hit, overtaken>>

Publishes(c) ==
    /\ c \in creating
    /\ creating' = creating \ {c}
    /\ queue' = [k \in Conns |-> IF k = registered THEN Append(queue[k], c)
                                                   ELSE queue[k]]
    /\ UNCHANGED <<status, stamp, late, registered, gen, batch, pipe, cut, deaf, client,
                   faults, history>>

-----------------------------------------------------------------------------
(* stream_commands *)

(* The request: a new queue takes the place of the one registered before.  *)
Registers(k) ==
    /\ gen[k] = "none"
    /\ registered' = k
    /\ gen' = [gen EXCEPT ![k] = "opened"]
    /\ queue' = [queue EXCEPT ![k] = <<>>]
    /\ batch' = [batch EXCEPT ![k] = {}]
    /\ pipe' = [pipe EXCEPT ![k] = <<>>]

Connects(k) ==
    /\ client = Out
    /\ Registers(k)
    /\ cut' = cut \ {k}
    /\ client' = [Out EXCEPT !.at = "in", !.conn = k]
    /\ deaf' = FALSE
    /\ overtaken' = FALSE
    /\ UNCHANGED <<database, faults, ran, raced, hit>>

(* A request that the client, or a proxy, has given up comes to be handled.*)
RegistersLate(k) ==
    /\ Fault
    /\ k # client.conn
    /\ Registers(k)
    /\ cut' = cut \cup {k}
    /\ overtaken' = TRUE
    /\ UNCHANGED <<database, deaf, client, ran, raced, hit>>

(* event_gen, its query ... *)
Queries(k) ==
    /\ gen[k] = "opened"
    /\ gen' = [gen EXCEPT ![k] = "live"]
    /\ batch' = [batch EXCEPT ![k] = IF k \in cut THEN {} ELSE Pending]
    /\ Marks(Pending, k \in cut)
    /\ UNCHANGED <<stamp, creating, late, registered, queue, pipe, cut, deaf, client,
                   faults, ran, overtaken>>

(* ... and its loop. *)
Takes(k) ==
    /\ gen[k] = "live" /\ queue[k] # <<>>
    /\ status' = Delivered({Head(queue[k])} \cap Pending)
    /\ queue' = [queue EXCEPT ![k] = Tail(@)]
    /\ pipe' = [pipe EXCEPT ![k] = IF k \in cut THEN @ ELSE Append(@, Head(queue[k]))]
    /\ hit' = hit \cup (IF k \in cut THEN {Head(queue[k])} ELSE {})
    /\ UNCHANGED <<stamp, creating, late, registered, gen, batch, cut, deaf, client,
                   faults, ran, raced, overtaken>>

(* The connection breaks; what was on its way arrives up to some point.    *)
(* The client may learn of it or not: its request has no read timeout.     *)
Breaks(k) ==
    /\ Fault
    /\ gen[k] # "none" /\ k \notin cut
    /\ cut' = cut \cup {k}
    /\ deaf' \in {deaf, deaf \/ client.conn = k}
    /\ \/ /\ \E n \in 0 .. Len(pipe[k]) :
                pipe' = [pipe EXCEPT ![k] = SubSeq(@, 1, n)]
          /\ UNCHANGED batch
       \/ /\ pipe' = [pipe EXCEPT ![k] = <<>>]
          /\ \E c \in batch[k] :
                batch' = [batch EXCEPT ![k] = {d \in @ : stamp[d] < stamp[c]}]
    /\ hit' = hit \cup ((batch[k] \cup Range(pipe[k])) \ (batch'[k] \cup Range(pipe'[k])))
    /\ UNCHANGED <<database, registered, gen, queue, client, ran, raced,
                   overtaken>>

(* Mutant: the generator removes whatever queue is registered. *)
DiesAnyQueue(k) ==
    /\ gen[k] # "none" /\ k \in cut
    /\ gen' = [gen EXCEPT ![k] = "none"]
    /\ \/ UNCHANGED registered
       \/ gen[k] = "live" /\ registered' = None
    /\ UNCHANGED <<database, queue, batch, pipe, cut, deaf, client, faults,
                   history>>

(* The server notices; the generator removes its queue, unless it is ended *)
(* at a yield.                                                             *)
Dies(k) ==
    /\ gen[k] # "none" /\ k \in cut
    /\ gen' = [gen EXCEPT ![k] = "none"]
    /\ \/ UNCHANGED <<registered, queue>>
       \/ /\ gen[k] = "live" /\ registered = k
          /\ registered' = None
          /\ queue' = [queue EXCEPT ![k] = <<>>]
    /\ UNCHANGED <<database, batch, pipe, cut, deaf, client, faults, history>>

-----------------------------------------------------------------------------
(* poll_pending: the query, and the commit with the answer *)

PollQueries ==
    /\ client.at = "asked"
    /\ client' = [client EXCEPT !.at = "answering", !.rows = Pending]
    /\ UNCHANGED <<database, streams, faults, history>>

(* Mutant: the rows stay pending. *)
PollAnswersPending ==
    /\ client.at = "answering"
    /\ client' = [client EXCEPT !.at = "out"]
    /\ raced' = raced \cup (client.rows \cap ToBeQueued)
    /\ UNCHANGED <<database, streams, faults, ran, hit, overtaken>>

PollAnswers ==
    /\ client.at = "answering"
    /\ Marks(client.rows, FALSE)
    /\ client' = [client EXCEPT !.at = "out"]
    /\ UNCHANGED <<stamp, creating, late, streams, faults, ran, overtaken>>

LatePollQueries ==
    /\ late.at = "asked"
    /\ late' = [at |-> "answering", rows |-> Pending]
    /\ UNCHANGED <<status, stamp, creating, streams, client, faults, history>>

LatePollCommits ==
    /\ late.at = "answering"
    /\ Marks(late.rows, TRUE)
    /\ late' = NoPoll
    /\ UNCHANGED <<stamp, creating, streams, client, faults, ran, overtaken>>

-----------------------------------------------------------------------------
(* CommandClient._run *)

(* No stream, for now: a refusal or a network error. *)
Refused ==
    /\ client = Out
    /\ client' = [Out EXCEPT !.at = "poll"]
    /\ UNCHANGED <<database, streams, faults, history>>

(* A stream that ends in an error is followed by a poll. *)
StreamEnds ==
    /\ client.at = "in" /\ client.cmd = None
    /\ client.conn \in cut /\ ~deaf
    /\ batch[client.conn] = {} /\ pipe[client.conn] = <<>>
    /\ \E l \in {"out", "poll"} : client' = [Out EXCEPT !.at = l]
    /\ UNCHANGED <<database, streams, faults, history>>

Polls ==
    /\ client.at = "poll"
    /\ client' = [client EXCEPT !.at = "asked"]
    /\ UNCHANGED <<database, streams, faults, history>>

(* The request is lost, or its answer is late or lost. *)
PollFails ==
    /\ Fault
    /\ client.at \in {"asked", "answering"}
    /\ client' = Out
    /\ \/ client.at = "asked" /\ UNCHANGED late
       \/ late = NoPoll /\ late' = [at |-> client.at, rows |-> client.rows]
    /\ UNCHANGED <<status, stamp, creating, streams, history>>

(* _dispatch *)
Executes(c) == ran' = [ran EXCEPT ![c] = @ + 1]

(* Mutant: only the first of the polled rows is executed. *)
DispatchesPolledOne(c) ==
    /\ client.at = "out" /\ client.cmd = None
    /\ Oldest(c, client.rows)
    /\ client' = [client EXCEPT !.rows = {}, !.cmd = c]
    /\ Executes(c)
    /\ UNCHANGED <<database, streams, faults, raced, hit, overtaken>>

DispatchesPolled(c) ==
    /\ client.at = "out" /\ client.cmd = None
    /\ Oldest(c, client.rows)
    /\ client' = [client EXCEPT !.rows = @ \ {c}, !.cmd = c]
    /\ Executes(c)
    /\ UNCHANGED <<database, streams, faults, raced, hit, overtaken>>

DispatchesStreamed(c) ==
    LET k == client.conn IN
    /\ client.at = "in" /\ client.cmd = None
    /\ \/ /\ Oldest(c, batch[k])
          /\ batch' = [batch EXCEPT ![k] = @ \ {c}]
          /\ UNCHANGED pipe
       \/ /\ batch[k] = {} /\ pipe[k] # <<>> /\ c = Head(pipe[k])
          /\ pipe' = [pipe EXCEPT ![k] = Tail(@)]
          /\ UNCHANGED batch
    /\ client' = [client EXCEPT !.cmd = c]
    /\ Executes(c)
    /\ UNCHANGED <<database, registered, gen, queue, cut, deaf, faults, raced,
                   hit, overtaken>>

(* The command is executed or raises, and is acknowledged ...              *)
Acknowledges ==
    /\ client.cmd # None
    /\ \E s \in Settled : status' = [status EXCEPT ![client.cmd] = s]
    /\ client' = [client EXCEPT !.cmd = None]
    /\ UNCHANGED <<stamp, creating, late, streams, faults, history>>

(* ... or the acknowledgement is lost, which is not tried again.           *)
AckLost ==
    /\ Fault
    /\ client.cmd # None
    /\ client' = [client EXCEPT !.cmd = None]
    /\ UNCHANGED <<database, streams, history>>

-----------------------------------------------------------------------------
(* The program ends at any point and starts again. *)
ClientCrashes ==
    /\ Fault
    /\ client # Out
    /\ client' = Out
    /\ cut' = cut \cup ({client.conn} \ {None})
    /\ deaf' = FALSE
    /\ \/ late = NoPoll /\ client.at \in {"asked", "answering"}
          /\ late' = [at |-> client.at, rows |-> client.rows]
       \/ client.at \notin {"asked", "answering"} /\ UNCHANGED late
    /\ hit' = hit \cup OnTheWay
    /\ batch' = [k \in Conns |-> {}] /\ pipe' = [k \in Conns |-> <<>>]
    /\ UNCHANGED <<status, stamp, creating, registered, gen, queue, ran,
                   raced, overtaken>>

(* The server restarts; the rows remain. *)
ServerRestarts ==
    /\ Fault
    /\ creating' = {} /\ late' = NoPoll
    /\ registered' = None
    /\ gen' = [k \in Conns |-> "none"]
    /\ queue' = [k \in Conns |-> <<>>]
    /\ cut' = Conns
    /\ client' = IF client.at \in {"asked", "answering"} THEN Out ELSE client
    /\ UNCHANGED <<status, stamp, batch, pipe, deaf, history>>

-----------------------------------------------------------------------------
StreamStep(k) == Queries(k) \/ Takes(k) \/ Dies(k)

PollStep == PollQueries \/ PollAnswers

LatePollStep == LatePollQueries \/ LatePollCommits

(* Where the client goes without a command in hand. *)
ClientTurns ==
    \/ \E k \in Conns : Connects(k)
    \/ Refused \/ StreamEnds \/ Polls

ClientStep ==
    \/ ClientTurns
    \/ \E c \in Cmds : DispatchesPolled(c) \/ DispatchesStreamed(c)
    \/ Acknowledges

Mishaps ==
    \/ \E k \in Conns : RegistersLate(k) \/ Breaks(k)
    \/ PollFails \/ AckLost \/ ClientCrashes \/ ServerRestarts

Next ==
    \/ \E c \in Cmds : Commits(c) \/ Publishes(c)
    \/ \E k \in Conns : StreamStep(k)
    \/ PollStep \/ LatePollStep \/ ClientStep \/ Mishaps

Spec == Init /\ [][Next]_vars

(* The server and the client keep running. *)
Fairness ==
    /\ \A c \in Cmds : WF_vars(Publishes(c))
    /\ \A k \in Conns : WF_vars(StreamStep(k))
    /\ WF_vars(PollStep) /\ WF_vars(LatePollStep) /\ WF_vars(ClientStep)

FairSpec == Spec /\ Fairness

-----------------------------------------------------------------------------
StatusType == {"none", "pending", "delivered", "done", "failed"}

TypeOK ==
    /\ status \in [Cmds -> StatusType] /\ stamp \in [Cmds -> Nat]
    /\ creating \subseteq Cmds
    /\ late \in [at : {"none", "asked", "answering"}, rows : SUBSET Cmds]
    /\ registered \in Conns \cup {None}
    /\ gen \in [Conns -> {"none", "opened", "live"}]
    /\ queue \in [Conns -> Seq(Cmds)] /\ pipe \in [Conns -> Seq(Cmds)]
    /\ batch \in [Conns -> SUBSET Cmds]
    /\ cut \subseteq Conns /\ deaf \in BOOLEAN
    /\ client \in [at : {"out", "in", "poll", "asked", "answering"},
                   conn : Conns \cup {None}, rows : SUBSET Cmds,
                   cmd : Cmds \cup {None}]
    /\ client.at = "in" <=> client.conn # None
    /\ faults \in Nat /\ ran \in [Cmds -> Nat]
    /\ raced \subseteq Cmds /\ hit \subseteq Cmds
    /\ overtaken \in BOOLEAN

(* A command is executed once at most, over streams, polls, crashes and    *)
(* restarts; but one that a stream or a poll reads as pending while its    *)
(* creation is between the commit and the queue, or while it is in the     *)
(* queue, may come twice (the server's marking is idempotent, the client   *)
(* is not).                                                                *)
ExecutedOnce == \A c \in Cmds : ran[c] <= IF c \in raced THEN 2 ELSE 1

(* A command that was acknowledged does not become open again, unless a    *)
(* poll nobody waits for read it before.                                   *)
SettledStays ==
    [][\A c \in Cmds : status[c] \in Settled /\ status'[c] \notin Settled
                       => c \in late.rows]_status

(* The server marks a command before it sends it, and the client asks for  *)
(* pending ones only.  What this can lose is what a fault has hit: every   *)
(* other marked command is executed or still to be received.               *)
LostForCause ==
    \A c \in Cmds : status[c] = "delivered" /\ ran[c] = 0 => c \in hit \cup OnTheWay

(* No command is left pending, whatever moment of a stream's life it comes *)
(* in: unless a request handled too late has taken the client's place in   *)
(* _device_queues, or the client waits at a connection that has broken     *)
(* without its knowledge.                                                  *)
PendingDelivered ==
    \A c \in Cmds : status[c] = "pending" ~> status[c] # "pending" \/ overtaken \/ deaf

=============================================================================
