--------------------------- MODULE CommandBus_proofs ---------------------------
(***************************************************************************)
(* TypeOK, LostForCause, SettledStays and ExecutedOnce for any commands,   *)
(* streams and bounds.                                                     *)
(*                                                                         *)
(* The server has forgotten a command once it is marked, so that nothing   *)
(* is lost rests on where the marked ones are: a stream that works is the  *)
(* one the client reads (WorkingIsRead), and a stream that has not made    *)
(* its query has sent nothing (OpenedSentNothing).                         *)
(*                                                                         *)
(* There are two ways to the client, by a reader of the pending rows and   *)
(* by the queue.  Each brings a command once, and both are open to one     *)
(* only if they crossed (Counted).                                         *)
(***************************************************************************)
EXTENDS CommandBus, TLAPS

-----------------------------------------------------------------------------
(* Sequences *)

(* What a queue holds after an append. *)
LEMMA RangeAppend ==
    ASSUME NEW S, NEW s \in Seq(S), NEW e \in S
    PROVE  Range(Append(s, e)) = Range(s) \cup {e}
<1>1. /\ DOMAIN Append(s, e) = DOMAIN s \cup {Len(s) + 1}
      /\ \A i \in DOMAIN s : Append(s, e)[i] = s[i]
      /\ Append(s, e)[Len(s) + 1] = e
  OBVIOUS
<1> QED  BY <1>1 DEF Range

(* What is taken from a sequence is its head, and what remains was there. *)
LEMMA RangeTail ==
    ASSUME NEW S, NEW s \in Seq(S), s # <<>>
    PROVE  Range(s) = Range(Tail(s)) \cup {Head(s)}
<1>1. /\ Len(s) \in Nat \ {0} /\ DOMAIN s = 1 .. Len(s)
      /\ DOMAIN Tail(s) = 1 .. Len(s) - 1
      /\ \A i \in 1 .. Len(s) - 1 : Tail(s)[i] = s[i + 1]
      /\ Head(s) = s[1]
  OBVIOUS
<1>2. ASSUME NEW x \in Range(s)  PROVE x \in Range(Tail(s)) \cup {Head(s)}
  <2>1. PICK i \in 1 .. Len(s) : x = s[i]
    BY <1>1 DEF Range
  <2>2. CASE i = 1
    BY <2>1, <2>2, <1>1
  <2>3. CASE i # 1
    <3>1. i - 1 \in 1 .. Len(s) - 1 /\ Tail(s)[i - 1] = s[i]
      BY <2>3, <1>1
    <3> QED  BY <3>1, <2>1, <1>1 DEF Range
  <2> QED  BY <2>2, <2>3
<1>3. ASSUME NEW x \in Range(Tail(s)) \cup {Head(s)}  PROVE x \in Range(s)
  <2>1. CASE x = Head(s)
    BY <2>1, <1>1 DEF Range
  <2>2. CASE x \in Range(Tail(s))
    <3>1. PICK i \in 1 .. Len(s) - 1 : x = s[i + 1]
      BY <2>2, <1>1 DEF Range
    <3> QED  BY <3>1, <1>1 DEF Range
  <2> QED  BY <2>1, <2>2, <1>3
<1> QED  BY <1>2, <1>3

LEMMA SeqTypes ==
    ASSUME NEW S, NEW s \in Seq(S)
    PROVE  /\ <<>> \in Seq(S) /\ Range(s) \subseteq S
           /\ \A e \in S : Append(s, e) \in Seq(S)
           /\ s # <<>> => Tail(s) \in Seq(S) /\ Head(s) \in S
           /\ \A n \in 0 .. Len(s) : SubSeq(s, 1, n) \in Seq(S)
  BY DEF Range

-----------------------------------------------------------------------------
(* Types *)

ClientType == [at : {"out", "in", "poll", "asked", "answering"},
               conn : Conns \cup {None}, rows : SUBSET Cmds, cmd : Cmds \cup {None}]

LEMMA TypeInit == Init => TypeOK
<1> SUFFICES ASSUME Init  PROVE TypeOK
  OBVIOUS
<1>1. <<>> \in Seq(Cmds)
  OBVIOUS
<1>2. queue \in [Conns -> Seq(Cmds)] /\ pipe \in [Conns -> Seq(Cmds)]
  BY <1>1 DEF Init
<1>3. client \in ClientType /\ (client.at = "in" <=> client.conn # None)
  BY DEF Init, Out, ClientType
<1>4. late \in [at : {"none", "asked", "answering"}, rows : SUBSET Cmds]
  BY DEF Init, NoPoll
<1> QED  BY <1>2, <1>3, <1>4 DEF Init, TypeOK, StatusType, ClientType

LEMMA MarksType ==
    ASSUME TypeOK, NEW rows \in SUBSET Cmds, NEW gone, Marks(rows, gone)
    PROVE  status' \in [Cmds -> StatusType] /\ raced' \subseteq Cmds /\ hit' \subseteq Cmds
  BY DEF TypeOK, Marks, Delivered, StatusType

LEMMA RegistersType ==
    ASSUME TypeOK, NEW k \in Conns, Registers(k)
    PROVE  /\ registered' \in Conns \cup {None}
           /\ gen' \in [Conns -> {"none", "opened", "live"}]
           /\ queue' \in [Conns -> Seq(Cmds)] /\ pipe' \in [Conns -> Seq(Cmds)]
           /\ batch' \in [Conns -> SUBSET Cmds]
<1>1. <<>> \in Seq(Cmds)
  OBVIOUS
<1> QED  BY <1>1 DEF TypeOK, Registers

LEMMA TypeNext == TypeOK /\ [Next]_vars => TypeOK'
<1> SUFFICES ASSUME TypeOK, [Next]_vars  PROVE TypeOK'
  OBVIOUS
<1> USE ConstantsAssumption DEF TypeOK
<1>1. ASSUME NEW c \in Cmds, Commits(c)  PROVE TypeOK'
  <2>1. stamp' \in [Cmds -> Nat]
    BY <1>1 DEF Commits, Created
  <2> QED  BY <1>1, <2>1 DEF Commits, streams, StatusType
<1>2. ASSUME NEW c \in Cmds, Publishes(c)  PROVE TypeOK'
  <2>1. queue' \in [Conns -> Seq(Cmds)]
    BY <1>2, SeqTypes DEF Publishes
  <2> QED  BY <1>2, <2>1 DEF Publishes, history
<1>3. ASSUME NEW k \in Conns, Queries(k)  PROVE TypeOK'
  <2>1. Pending \subseteq Cmds
    BY DEF Pending
  <2>2. status' \in [Cmds -> StatusType] /\ raced' \subseteq Cmds /\ hit' \subseteq Cmds
    BY <1>3, <2>1, MarksType DEF Queries
  <2> QED  BY <1>3, <2>1, <2>2 DEF Queries
<1>4. ASSUME NEW k \in Conns, Takes(k)  PROVE TypeOK'
  <2>1. /\ queue[k] \in Seq(Cmds) /\ pipe[k] \in Seq(Cmds) /\ queue[k] # <<>>
        /\ Tail(queue[k]) \in Seq(Cmds) /\ Head(queue[k]) \in Cmds
    BY <1>4, SeqTypes DEF Takes
  <2>2. Append(pipe[k], Head(queue[k])) \in Seq(Cmds)
    BY <2>1, SeqTypes
  <2>3. queue' \in [Conns -> Seq(Cmds)] /\ pipe' \in [Conns -> Seq(Cmds)]
    BY <1>4, <2>1, <2>2 DEF Takes
  <2>4. status' \in [Cmds -> StatusType]
    BY <1>4 DEF Takes, Delivered, StatusType
  <2>5. hit' \subseteq Cmds
    BY <1>4, <2>1 DEF Takes
  <2> QED  BY <1>4, <2>3, <2>4, <2>5 DEF Takes
<1>5. ASSUME NEW k \in Conns, Dies(k)  PROVE TypeOK'
  <2>1. registered' \in Conns \cup {None} /\ queue' \in [Conns -> Seq(Cmds)]
    <3>1. CASE UNCHANGED <<registered, queue>>
      BY <3>1
    <3>2. CASE registered' = None /\ queue' = [queue EXCEPT ![k] = <<>>]
      <4>1. <<>> \in Seq(Cmds)
        OBVIOUS
      <4> QED  BY <3>2, <4>1
    <3> QED  BY <1>5, <3>1, <3>2 DEF Dies
  <2> QED  BY <1>5, <2>1 DEF Dies, database, history
<1>6. CASE PollStep
  <2>1. CASE PollQueries
    BY <2>1 DEF PollQueries, Pending, database, streams, history
  <2>2. CASE PollAnswers
    <3>1. status' \in [Cmds -> StatusType] /\ raced' \subseteq Cmds /\ hit' \subseteq Cmds
      BY <2>2, MarksType DEF PollAnswers
    <3> QED  BY <2>2, <3>1 DEF PollAnswers, streams
  <2> QED  BY <1>6, <2>1, <2>2 DEF PollStep
<1>7. CASE LatePollStep
  <2>1. CASE LatePollQueries
    BY <2>1 DEF LatePollQueries, Pending, streams, history
  <2>2. CASE LatePollCommits
    <3>1. status' \in [Cmds -> StatusType] /\ raced' \subseteq Cmds /\ hit' \subseteq Cmds
      BY <2>2, MarksType DEF LatePollCommits
    <3> QED  BY <2>2, <3>1 DEF LatePollCommits, streams, NoPoll
  <2> QED  BY <1>7, <2>1, <2>2 DEF LatePollStep
<1>8. CASE ClientTurns
  <2>1. ASSUME NEW k \in Conns, Connects(k)  PROVE TypeOK'
    BY <2>1, RegistersType DEF Connects, Out, database
  <2>2. CASE Refused
    BY <2>2 DEF Refused, Out, database, streams, history
  <2>3. CASE StreamEnds
    BY <2>3 DEF StreamEnds, Out, database, streams, history
  <2>4. CASE Polls
    BY <2>4 DEF Polls, database, streams, history
  <2> QED  BY <1>8, <2>1, <2>2, <2>3, <2>4 DEF ClientTurns
<1>9. ASSUME NEW c \in Cmds, DispatchesPolled(c)  PROVE TypeOK'
  <2>1. client' = [client EXCEPT !.rows = client.rows \ {c}, !.cmd = c]
    BY <1>9 DEF DispatchesPolled
  <2>2. client' \in ClientType /\ client'.at = client.at /\ client'.conn = client.conn
    BY <2>1 DEF ClientType
  <2>3. ran' \in [Cmds -> Nat]
    BY <1>9 DEF DispatchesPolled, Executes
  <2> QED  BY <1>9, <2>2, <2>3 DEF DispatchesPolled, ClientType, database, streams
<1>10. ASSUME NEW c \in Cmds, DispatchesStreamed(c)  PROVE TypeOK'
  <2>1. client.conn \in Conns
    BY <1>10 DEF DispatchesStreamed
  <2>2. pipe' \in [Conns -> Seq(Cmds)] /\ batch' \in [Conns -> SUBSET Cmds]
    <3> DEFINE k == client.conn
    <3>1. CASE batch' = [batch EXCEPT ![k] = @ \ {c}] /\ UNCHANGED pipe
      BY <3>1, <2>1
    <3>2. CASE /\ pipe[k] # <<>> /\ pipe' = [pipe EXCEPT ![k] = Tail(@)]
               /\ UNCHANGED batch
      <4>1. pipe[k] \in Seq(Cmds)
        BY <2>1
      <4>2. Tail(pipe[k]) \in Seq(Cmds)
        BY <4>1, <3>2, SeqTypes
      <4> QED  BY <3>2, <4>2, <2>1
    <3> QED  BY <1>10, <3>1, <3>2 DEF DispatchesStreamed
  <2>3. client' = [client EXCEPT !.cmd = c]
    BY <1>10 DEF DispatchesStreamed
  <2>4. client' \in ClientType /\ client'.at = client.at /\ client'.conn = client.conn
    BY <2>3 DEF ClientType
  <2>5. ran' \in [Cmds -> Nat]
    BY <1>10 DEF DispatchesStreamed, Executes
  <2> QED  BY <1>10, <2>2, <2>4, <2>5 DEF DispatchesStreamed, ClientType, database
<1>11. CASE Acknowledges
  <2>1. client' = [client EXCEPT !.cmd = None]
    BY <1>11 DEF Acknowledges
  <2>2. client' \in ClientType /\ client'.at = client.at /\ client'.conn = client.conn
    BY <2>1 DEF ClientType
  <2>3. status' \in [Cmds -> StatusType]
    BY <1>11 DEF Acknowledges, Settled, StatusType
  <2> QED  BY <1>11, <2>2, <2>3 DEF Acknowledges, ClientType, streams, history
<1>12. CASE Mishaps
  <2>1. ASSUME NEW k \in Conns, RegistersLate(k)  PROVE TypeOK'
    <3>1. Registers(k)
      BY <2>1 DEF RegistersLate
    <3> HIDE DEF TypeOK
    <3>2. /\ registered' \in Conns \cup {None}
          /\ gen' \in [Conns -> {"none", "opened", "live"}]
          /\ queue' \in [Conns -> Seq(Cmds)] /\ pipe' \in [Conns -> Seq(Cmds)]
          /\ batch' \in [Conns -> SUBSET Cmds]
      BY <3>1, RegistersType
    <3>3. cut' \subseteq Conns /\ faults' \in Nat /\ overtaken' \in BOOLEAN
      BY <2>1 DEF RegistersLate, Fault, TypeOK
    <3>4. UNCHANGED <<database, deaf, client, ran, raced, hit>>
      BY <2>1 DEF RegistersLate
    <3> QED  BY <3>2, <3>3, <3>4 DEF database, TypeOK
  <2>2. ASSUME NEW k \in Conns, Breaks(k)  PROVE TypeOK'
    <3>1. pipe' \in [Conns -> Seq(Cmds)]
      <4>1. \E n \in 0 .. Len(pipe[k]) : pipe' = [pipe EXCEPT ![k] = SubSeq(@, 1, n)]
        <5>1. CASE pipe' = [pipe EXCEPT ![k] = <<>>]
          <6>1. pipe[k] \in Seq(Cmds)
            OBVIOUS
          <6>2. Len(pipe[k]) \in Nat /\ <<>> = SubSeq(pipe[k], 1, 0)
            BY <6>1
          <6>3. pipe' = [pipe EXCEPT ![k] = SubSeq(@, 1, 0)]
            BY <5>1, <6>2
          <6>4. 0 \in 0 .. Len(pipe[k])
            BY <6>2
          <6> QED  BY <6>3, <6>4
        <5> QED  BY <2>2, <5>1 DEF Breaks
      <4>2. PICK n \in 0 .. Len(pipe[k]) : pipe' = [pipe EXCEPT ![k] = SubSeq(@, 1, n)]
        BY <4>1
      <4>3. pipe[k] \in Seq(Cmds)
        OBVIOUS
      <4>4. SubSeq(pipe[k], 1, n) \in Seq(Cmds)
        BY <4>3, SeqTypes
      <4> QED  BY <4>2, <4>4
    <3>2. batch' \in [Conns -> SUBSET Cmds]
      <4>1. CASE UNCHANGED batch
        BY <4>1
      <4>2. ASSUME NEW c \in batch[k],
                   batch' = [batch EXCEPT ![k] = {d \in @ : stamp[d] < stamp[c]}]
            PROVE  batch' \in [Conns -> SUBSET Cmds]
        <5>1. {d \in batch[k] : stamp[d] < stamp[c]} \in SUBSET Cmds
          OBVIOUS
        <5> QED  BY <4>2, <5>1
      <4> QED  BY <2>2, <4>1, <4>2 DEF Breaks
    <3>3. hit' \subseteq Cmds
      <4>1. Range(pipe[k]) \subseteq Cmds
        BY SeqTypes
      <4> QED  BY <2>2, <4>1 DEF Breaks
    <3>4. deaf' \in BOOLEAN
      BY <2>2 DEF Breaks
    <3>5. cut' \subseteq Conns /\ faults' \in Nat
      BY <2>2 DEF Breaks, Fault
    <3> QED  BY <2>2, <3>1, <3>2, <3>3, <3>4, <3>5 DEF Breaks, database
  <2>3. CASE PollFails
    BY <2>3 DEF PollFails, Fault, Out, streams, history
  <2>4. CASE AckLost
    <3>1. client' = [client EXCEPT !.cmd = None]
      BY <2>4 DEF AckLost
    <3>2. client' \in ClientType /\ client'.at = client.at /\ client'.conn = client.conn
      BY <3>1 DEF ClientType
    <3>3. faults' \in Nat
      BY <2>4 DEF AckLost, Fault
    <3> QED  BY <2>4, <3>2, <3>3 DEF AckLost, ClientType, database, streams, history
  <2>5. CASE ClientCrashes
    <3>1. OnTheWay \subseteq Cmds
      BY SeqTypes DEF OnTheWay
    <3>2. <<>> \in Seq(Cmds)
      OBVIOUS
    <3>3. pipe' \in [Conns -> Seq(Cmds)] /\ batch' \in [Conns -> SUBSET Cmds]
      BY <2>5, <3>2 DEF ClientCrashes
    <3>4. client' \in ClientType /\ (client'.at = "in" <=> client'.conn # None)
      BY <2>5 DEF ClientCrashes, Out, ClientType
    <3>5. late' \in [at : {"none", "asked", "answering"}, rows : SUBSET Cmds]
      BY <2>5 DEF ClientCrashes
    <3>6. cut' \subseteq Conns /\ hit' \subseteq Cmds
      BY <2>5, <3>1 DEF ClientCrashes
    <3>7. faults' \in Nat
      BY <2>5 DEF ClientCrashes, Fault
    <3>9. deaf' \in BOOLEAN
      BY <2>5, Zenon DEF ClientCrashes
    <3>8. UNCHANGED <<status, stamp, creating, registered, gen, queue, ran,
                      raced, overtaken>>
      BY <2>5 DEF ClientCrashes
    <3> QED  BY <3>3, <3>4, <3>5, <3>6, <3>7, <3>8, <3>9 DEF ClientType
  <2>6. CASE ServerRestarts
    <3>1. queue' \in [Conns -> Seq(Cmds)]
      BY <2>6, SeqTypes DEF ServerRestarts
    <3> QED  BY <2>6, <3>1 DEF ServerRestarts, Fault, Out, NoPoll, history
  <2> QED  BY <1>12, <2>1, <2>2, <2>3, <2>4, <2>5, <2>6 DEF Mishaps
<1>13. CASE UNCHANGED vars
  BY <1>13 DEF vars, database, streams, history
<1> QED
  BY <1>1, <1>2, <1>3, <1>4, <1>5, <1>6, <1>7, <1>8, <1>9, <1>10, <1>11, <1>12, <1>13
     DEF Next, StreamStep, ClientStep

(* The model's types: commands.py:42-238, commands_client.py:75-142. *)
THEOREM TypeCorrect == Spec => []TypeOK
  BY TypeInit, TypeNext, PTL DEF Spec

-----------------------------------------------------------------------------
(* Where the marked commands are *)

(* A stream whose connection works is the one the client reads. *)
WorkingIsRead ==
    \A k \in Conns : gen[k] # "none" /\ k \notin cut => client.at = "in" /\ client.conn = k

(* Before its query a stream has sent nothing. *)
OpenedSentNothing ==
    \A k \in Conns : gen[k] = "opened" => batch[k] = {}

(* The client polls with no command in hand ... *)
PollsEmptyHanded ==
    client.at \in {"poll", "asked", "answering"} => client.cmd = None

(* ... and only it acknowledges, so what a poll has read is not settled. *)
ReadUnsettled ==
    client.at = "answering" => \A c \in client.rows : status[c] \in {"pending", "delivered"}

IInv == TypeOK /\ WorkingIsRead /\ OpenedSentNothing /\ PollsEmptyHanded
               /\ ReadUnsettled /\ LostForCause

LEMMA InvInit == Init => IInv
<1> SUFFICES ASSUME Init  PROVE IInv
  OBVIOUS
<1>1. WorkingIsRead /\ OpenedSentNothing
  BY DEF Init, WorkingIsRead, OpenedSentNothing
<1>2. PollsEmptyHanded /\ ReadUnsettled
  BY DEF Init, Out, PollsEmptyHanded, ReadUnsettled
<1>3. LostForCause
  BY DEF Init, LostForCause
<1> QED  BY <1>1, <1>2, <1>3, TypeInit DEF IInv

LEMMA ReadNext == IInv /\ [Next]_vars => WorkingIsRead' /\ OpenedSentNothing'
<1> SUFFICES ASSUME IInv, [Next]_vars  PROVE WorkingIsRead' /\ OpenedSentNothing'
  OBVIOUS
<1> USE ConstantsAssumption DEF IInv, TypeOK, WorkingIsRead, OpenedSentNothing
<1>1. ASSUME NEW c \in Cmds, Commits(c) \/ Publishes(c)
      PROVE  WorkingIsRead' /\ OpenedSentNothing'
  BY <1>1 DEF Commits, Publishes, streams
<1>2. ASSUME NEW k \in Conns, StreamStep(k)  PROVE WorkingIsRead' /\ OpenedSentNothing'
  BY <1>2 DEF StreamStep, Queries, Takes, Dies
<1>3. CASE PollStep \/ LatePollStep
  BY <1>3 DEF PollStep, LatePollStep, PollQueries, PollAnswers, LatePollQueries,
              LatePollCommits, streams
<1>4. CASE ClientStep
  <2>1. ASSUME NEW k \in Conns, Connects(k)  PROVE WorkingIsRead' /\ OpenedSentNothing'
    BY <2>1 DEF Connects, Registers, Out
  <2>2. CASE Refused \/ StreamEnds \/ Polls
    BY <2>2 DEF Refused, StreamEnds, Polls, Out, streams
  <2>3. ASSUME NEW c \in Cmds, DispatchesPolled(c) \/ DispatchesStreamed(c)
        PROVE  WorkingIsRead' /\ OpenedSentNothing'
    <3>1. UNCHANGED <<gen, cut>> /\ client'.at = client.at /\ client'.conn = client.conn
      BY <2>3 DEF DispatchesPolled, DispatchesStreamed, streams
    <3>2. ASSUME NEW k \in Conns  PROVE batch'[k] \subseteq batch[k]
      <4>1. \/ UNCHANGED batch
            \/ batch' = [batch EXCEPT ![client.conn] = @ \ {c}]
        BY <2>3 DEF DispatchesPolled, DispatchesStreamed, streams
      <4>2. CASE batch' = [batch EXCEPT ![client.conn] = @ \ {c}]
        <5>1. batch'[k] \in {batch[k], batch[k] \ {c}}
          BY <4>2
        <5> QED  BY <5>1
      <4> QED  BY <4>1, <4>2
    <3> QED  BY <3>1, <3>2
  <2>4. CASE Acknowledges
    BY <2>4 DEF Acknowledges, streams
  <2> QED  BY <1>4, <2>1, <2>2, <2>3, <2>4 DEF ClientStep, ClientTurns
<1>5. CASE Mishaps
  <2>1. ASSUME NEW k \in Conns, RegistersLate(k)  PROVE WorkingIsRead' /\ OpenedSentNothing'
    BY <2>1 DEF RegistersLate, Registers
  <2>2. ASSUME NEW k \in Conns, Breaks(k)  PROVE WorkingIsRead' /\ OpenedSentNothing'
    BY <2>2 DEF Breaks
  <2>3. CASE PollFails \/ AckLost
    BY <2>3 DEF PollFails, AckLost, Out, streams
  <2>4. CASE ClientCrashes
    BY <2>4 DEF ClientCrashes, Out
  <2>5. CASE ServerRestarts
    BY <2>5 DEF ServerRestarts
  <2> QED  BY <1>5, <2>1, <2>2, <2>3, <2>4, <2>5 DEF Mishaps
<1>6. CASE UNCHANGED vars
  BY <1>6 DEF vars, streams
<1> QED  BY <1>1, <1>2, <1>3, <1>4, <1>5, <1>6 DEF Next

(* The rows of a poll stay unsettled until it is answered. *)
LEMMA PollNext == IInv /\ [Next]_vars => PollsEmptyHanded' /\ ReadUnsettled'
<1> SUFFICES ASSUME IInv, [Next]_vars  PROVE PollsEmptyHanded' /\ ReadUnsettled'
  OBVIOUS
<1> USE DEF IInv, TypeOK, PollsEmptyHanded, ReadUnsettled
<1>1. ASSUME NEW c \in Cmds, Commits(c) \/ Publishes(c)
      PROVE  PollsEmptyHanded' /\ ReadUnsettled'
  BY <1>1 DEF Commits, Publishes
<1>2. ASSUME NEW k \in Conns, StreamStep(k)  PROVE PollsEmptyHanded' /\ ReadUnsettled'
  BY <1>2 DEF StreamStep, Queries, Takes, Dies, Marks, Delivered, database, Pending
<1>3. CASE PollStep \/ LatePollStep
  <2>1. CASE PollQueries
    <3>1. client'.rows = Pending /\ client'.cmd = client.cmd /\ UNCHANGED status
      BY <2>1 DEF PollQueries, database
    <3>2. PollsEmptyHanded'
      BY <2>1, <3>1 DEF PollQueries
    <3> QED  BY <3>1, <3>2 DEF Pending
  <2>2. CASE PollAnswers
    BY <2>2 DEF PollAnswers
  <2>3. CASE LatePollQueries \/ LatePollCommits
    BY <2>3 DEF LatePollQueries, LatePollCommits, Marks, Delivered
  <2> QED  BY <1>3, <2>1, <2>2, <2>3 DEF PollStep, LatePollStep
<1>4. CASE ClientStep
  <2>1. ASSUME NEW k \in Conns, Connects(k)  PROVE PollsEmptyHanded' /\ ReadUnsettled'
    BY <2>1 DEF Connects, Out
  <2>2. CASE Refused \/ StreamEnds \/ Polls
    BY <2>2 DEF Refused, StreamEnds, Polls, Out
  <2>3. ASSUME NEW c \in Cmds, DispatchesPolled(c) \/ DispatchesStreamed(c)
        PROVE  PollsEmptyHanded' /\ ReadUnsettled'
    BY <2>3 DEF DispatchesPolled, DispatchesStreamed
  <2>4. CASE Acknowledges
    BY <2>4 DEF Acknowledges
  <2> QED  BY <1>4, <2>1, <2>2, <2>3, <2>4 DEF ClientStep, ClientTurns
<1>5. CASE Mishaps
  <2>1. ASSUME NEW k \in Conns, RegistersLate(k) \/ Breaks(k)
        PROVE  PollsEmptyHanded' /\ ReadUnsettled'
    BY <2>1 DEF RegistersLate, Breaks, database
  <2>2. CASE PollFails \/ ClientCrashes
    BY <2>2 DEF PollFails, ClientCrashes, Out
  <2>3. CASE AckLost
    BY <2>3 DEF AckLost, database
  <2>4. CASE ServerRestarts
    BY <2>4 DEF ServerRestarts, Out
  <2> QED  BY <1>5, <2>1, <2>2, <2>3, <2>4 DEF Mishaps
<1>6. CASE UNCHANGED vars
  BY <1>6 DEF vars, database
<1> QED  BY <1>1, <1>2, <1>3, <1>4, <1>5, <1>6 DEF Next

(* A step loses nothing if what it marks, and what was on its way, is hit, *)
(* executed or on its way afterwards.                                      *)
LEMMA Accounted ==
    ASSUME LostForCause,
           \A c \in Cmds : status'[c] = "delivered" /\ ran'[c] = 0
                            => \/ status[c] = "delivered" /\ ran[c] = 0
                               \/ c \in hit' \cup OnTheWay',
           hit \subseteq hit',
           \A c \in Cmds \cap OnTheWay : ran'[c] = 0 => c \in hit' \cup OnTheWay'
    PROVE  LostForCause'
  BY DEF LostForCause

(* ... in particular if it does not touch what is marked or on its way.    *)
LEMMA Untouched ==
    ASSUME LostForCause, UNCHANGED <<ran, hit>>,
           \A c \in Cmds : status'[c] = "delivered" => status[c] = "delivered",
           OnTheWay \subseteq OnTheWay'
    PROVE  LostForCause'
  BY DEF LostForCause

LEMMA StreamLoses ==
    ASSUME IInv, NEW k \in Conns, StreamStep(k)  PROVE LostForCause'
<1> USE DEF IInv, TypeOK
<1>1. CASE Queries(k)
  <2>1. hit \subseteq hit' /\ UNCHANGED <<ran, client, pipe>>
    BY <1>1 DEF Queries, Marks
  <2>2. OnTheWay \subseteq OnTheWay'
    BY <1>1, <2>1 DEF Queries, OnTheWay, OpenedSentNothing
  <2>3. Pending \subseteq hit' \cup OnTheWay'
    <3>1. CASE k \in cut
      BY <1>1, <3>1 DEF Queries, Marks
    <3>2. CASE k \notin cut
      BY <1>1, <3>2 DEF Queries, OnTheWay, WorkingIsRead
    <3> QED  BY <3>1, <3>2
  <2>4. \A c \in Cmds : status'[c] = "delivered" => status[c] = "delivered" \/ c \in Pending
    BY <1>1 DEF Queries, Marks, Delivered
  <2> QED  BY <2>1, <2>2, <2>3, <2>4, Accounted
<1>2. CASE Takes(k)
  <2> DEFINE c == Head(queue[k])
  <2>1. hit \subseteq hit' /\ UNCHANGED <<ran, client, batch>>
    BY <1>2 DEF Takes
  <2>2. queue[k] \in Seq(Cmds) /\ pipe[k] \in Seq(Cmds) /\ c \in Cmds
    BY <1>2, SeqTypes DEF Takes
  <2>3. \A d \in Cmds : status'[d] = "delivered" => status[d] = "delivered" \/ d = c
    BY <1>2, <2>2 DEF Takes, Delivered
  <2>4. CASE k \in cut
    <3>1. c \in hit' /\ UNCHANGED pipe
      BY <1>2, <2>4 DEF Takes
    <3>2. OnTheWay \subseteq OnTheWay'
      BY <2>1, <3>1 DEF OnTheWay
    <3> QED  BY <2>1, <2>3, <3>1, <3>2, Accounted
  <2>5. CASE k \notin cut
    <3>1. client.at = "in" /\ client.conn = k
      BY <1>2, <2>5 DEF Takes, WorkingIsRead
    <3>2. pipe'[k] = Append(pipe[k], c)
      BY <1>2, <2>5 DEF Takes
    <3>3. Range(pipe'[k]) = Range(pipe[k]) \cup {c}
      BY <3>2, <2>2, RangeAppend
    <3>4. OnTheWay \subseteq OnTheWay' /\ c \in OnTheWay'
      BY <2>1, <3>1, <3>3 DEF OnTheWay
    <3> QED  BY <2>1, <2>3, <3>4, Accounted
  <2> QED  BY <2>4, <2>5
<1>3. CASE Dies(k)
  <2>1. OnTheWay' = OnTheWay
    BY <1>3 DEF Dies, OnTheWay
  <2> QED  BY <1>3, <2>1, Untouched DEF Dies, database, history
<1> QED  BY <1>1, <1>2, <1>3 DEF StreamStep

LEMMA PollLoses ==
    ASSUME IInv, PollStep \/ LatePollStep  PROVE LostForCause'
<1> USE DEF IInv, TypeOK
<1>1. CASE PollQueries
  <2>1. OnTheWay = {}
    BY <1>1 DEF PollQueries, OnTheWay
  <2> QED  BY <1>1, <2>1, Untouched DEF PollQueries, database, history
<1>2. CASE PollAnswers
  <2>1. OnTheWay = {} /\ client.rows \subseteq OnTheWay'
    BY <1>2 DEF PollAnswers, OnTheWay
  <2>2. \A c \in Cmds : status'[c] = "delivered" => status[c] = "delivered" \/ c \in client.rows
    BY <1>2 DEF PollAnswers, Marks, Delivered
  <2>3. hit \subseteq hit' /\ UNCHANGED ran
    BY <1>2 DEF PollAnswers, Marks
  <2> QED  BY <2>1, <2>2, <2>3, Accounted
<1>3. CASE LatePollQueries
  <2>1. OnTheWay' = OnTheWay
    BY <1>3 DEF LatePollQueries, OnTheWay, streams
  <2> QED  BY <1>3, <2>1, Untouched DEF LatePollQueries, history
<1>4. CASE LatePollCommits
  <2>1. OnTheWay' = OnTheWay
    BY <1>4 DEF LatePollCommits, OnTheWay, streams
  <2>2. \A c \in Cmds : status'[c] = "delivered" => status[c] = "delivered" \/ c \in hit'
    BY <1>4 DEF LatePollCommits, Marks, Delivered
  <2>3. hit \subseteq hit' /\ UNCHANGED ran
    BY <1>4 DEF LatePollCommits, Marks
  <2> QED  BY <2>1, <2>2, <2>3, Accounted
<1> QED  BY <1>1, <1>2, <1>3, <1>4 DEF PollStep, LatePollStep

LEMMA ClientLoses ==
    ASSUME IInv, ClientStep  PROVE LostForCause'
<1> USE ConstantsAssumption DEF IInv, TypeOK
<1>1. ASSUME NEW k \in Conns, Connects(k)  PROVE LostForCause'
  <2>1. OnTheWay = {}
    BY <1>1 DEF Connects, Out, OnTheWay
  <2> QED  BY <1>1, <2>1, Untouched DEF Connects, database
<1>2. CASE Refused
  <2>1. OnTheWay = {}
    BY <1>2 DEF Refused, Out, OnTheWay
  <2> QED  BY <1>2, <2>1, Untouched DEF Refused, database, history
<1>3. CASE StreamEnds
  <2>1. OnTheWay = {}
    BY <1>3 DEF StreamEnds, OnTheWay, Range
  <2> QED  BY <1>3, <2>1, Untouched DEF StreamEnds, database, history
<1>4. CASE Polls
  <2>1. OnTheWay = {}
    BY <1>4 DEF Polls, OnTheWay
  <2> QED  BY <1>4, <2>1, Untouched DEF Polls, database, history
<1>5. ASSUME NEW c \in Cmds, DispatchesPolled(c)  PROVE LostForCause'
  <2>1. ran'[c] # 0 /\ (\A d \in Cmds : ran'[d] = 0 => ran[d] = 0)
    BY <1>5 DEF DispatchesPolled, Executes
  <2>2. OnTheWay \subseteq OnTheWay' \cup {c}
    BY <1>5 DEF DispatchesPolled, OnTheWay
  <2>3. UNCHANGED <<status, hit>>
    BY <1>5 DEF DispatchesPolled, database
  <2> QED  BY <2>1, <2>2, <2>3, Accounted
<1>6. ASSUME NEW c \in Cmds, DispatchesStreamed(c)  PROVE LostForCause'
  <2> DEFINE k == client.conn
  <2>1. ran'[c] # 0 /\ (\A d \in Cmds : ran'[d] = 0 => ran[d] = 0)
    BY <1>6 DEF DispatchesStreamed, Executes
  <2>2. k \in Conns /\ client.at = "in" /\ client'.at = "in" /\ client'.conn = k
    BY <1>6 DEF DispatchesStreamed
  <2>3. batch[k] \subseteq batch'[k] \cup {c} /\ Range(pipe[k]) \subseteq Range(pipe'[k]) \cup {c}
    <3>1. CASE batch' = [batch EXCEPT ![k] = @ \ {c}] /\ UNCHANGED pipe
      BY <3>1, <2>2
    <3>2. CASE /\ pipe[k] # <<>> /\ c = Head(pipe[k])
               /\ pipe' = [pipe EXCEPT ![k] = Tail(@)] /\ UNCHANGED batch
      <4>1. pipe[k] \in Seq(Cmds) /\ pipe'[k] = Tail(pipe[k])
        BY <2>2, <3>2
      <4>2. Range(pipe[k]) = Range(pipe'[k]) \cup {c}
        BY <4>1, <3>2, RangeTail
      <4> QED  BY <3>2, <4>2
    <3> QED  BY <1>6, <3>1, <3>2 DEF DispatchesStreamed
  <2>4. OnTheWay \subseteq OnTheWay' \cup {c}
    BY <2>2, <2>3 DEF OnTheWay
  <2>5. UNCHANGED <<status, hit>>
    BY <1>6 DEF DispatchesStreamed, database
  <2> QED  BY <2>1, <2>4, <2>5, Accounted
<1>7. CASE Acknowledges
  <2>1. OnTheWay' = OnTheWay
    BY <1>7 DEF Acknowledges, OnTheWay, streams
  <2>2. \A c \in Cmds : status'[c] = "delivered" => status[c] = "delivered"
    BY <1>7 DEF Acknowledges, Settled
  <2> QED  BY <1>7, <2>1, <2>2, Untouched DEF Acknowledges, history
<1> QED  BY <1>1, <1>2, <1>3, <1>4, <1>5, <1>6, <1>7 DEF ClientStep, ClientTurns

LEMMA MishapLoses ==
    ASSUME IInv, Mishaps  PROVE LostForCause'
<1> USE ConstantsAssumption DEF IInv, TypeOK
<1>1. ASSUME NEW k \in Conns, RegistersLate(k)  PROVE LostForCause'
  <2>1. OnTheWay' = OnTheWay
    BY <1>1 DEF RegistersLate, Registers, OnTheWay
  <2> QED  BY <1>1, <2>1, Untouched DEF RegistersLate, database
<1>2. ASSUME NEW k \in Conns, Breaks(k)  PROVE LostForCause'
  <2>1. /\ hit' = hit \cup ((batch[k] \cup Range(pipe[k])) \ (batch'[k] \cup Range(pipe'[k])))
        /\ \A l \in Conns \ {k} : batch'[l] = batch[l] /\ pipe'[l] = pipe[l]
    BY <1>2 DEF Breaks
  <2>2. OnTheWay \subseteq OnTheWay' \cup hit'
    BY <1>2, <2>1 DEF Breaks, OnTheWay
  <2>3. UNCHANGED <<status, ran>>
    BY <1>2 DEF Breaks, database
  <2> QED  BY <2>1, <2>2, <2>3, Accounted
<1>3. CASE PollFails
  <2>1. OnTheWay = {}
    BY <1>3 DEF PollFails, OnTheWay
  <2> QED  BY <1>3, <2>1, Untouched DEF PollFails, history
<1>4. CASE AckLost
  <2>1. OnTheWay' = OnTheWay
    BY <1>4 DEF AckLost, OnTheWay, streams
  <2> QED  BY <1>4, <2>1, Untouched DEF AckLost, database, history
<1>5. CASE ClientCrashes
  <2>1. hit' = hit \cup OnTheWay /\ UNCHANGED <<status, ran>>
    BY <1>5 DEF ClientCrashes
  <2> QED  BY <2>1, Accounted
<1>6. CASE ServerRestarts
  <2>1. OnTheWay \subseteq OnTheWay'
    BY <1>6 DEF ServerRestarts, OnTheWay
  <2> QED  BY <1>6, <2>1, Untouched DEF ServerRestarts, history
<1> QED  BY <1>1, <1>2, <1>3, <1>4, <1>5, <1>6 DEF Mishaps

LEMMA InvNext == IInv /\ [Next]_vars => IInv'
<1> SUFFICES ASSUME IInv, [Next]_vars  PROVE IInv'
  OBVIOUS
<1>1. LostForCause'
  <2>1. ASSUME NEW c \in Cmds, Commits(c) \/ Publishes(c)  PROVE LostForCause'
    <3>1. OnTheWay' = OnTheWay
      BY <2>1 DEF Commits, Publishes, OnTheWay, streams
    <3>2. \A d \in Cmds : status'[d] = "delivered" => status[d] = "delivered"
      BY <2>1 DEF Commits, Publishes, IInv, TypeOK
    <3>3. UNCHANGED <<ran, hit>>
      BY <2>1 DEF Commits, Publishes, history
    <3> QED  BY <3>1, <3>2, <3>3, Untouched DEF IInv
  <2>2. CASE UNCHANGED vars
    BY <2>2 DEF vars, database, streams, history, IInv, LostForCause, OnTheWay
  <2> QED  BY <2>1, <2>2, StreamLoses, PollLoses, ClientLoses, MishapLoses DEF Next
<1> QED  BY <1>1, TypeNext, ReadNext, PollNext DEF IInv

(* Nothing is lost but by a fault: a marked command that nobody executed   *)
(* was on its way when a connection or the program ended, or was marked    *)
(* for a reader that had gone (commands.py:185-225, commands_client.py).   *)
THEOREM LostOnlyForCause == Spec => []LostForCause
<1>1. IInv => LostForCause
  BY DEF IInv
<1> QED  BY <1>1, InvInit, InvNext, PTL DEF Spec

-----------------------------------------------------------------------------
(* Acknowledged commands *)

LEMMA SettledStep ==
    ASSUME IInv, [Next]_vars, NEW c \in Cmds, status[c] \in Settled, status'[c] \notin Settled
    PROVE  c \in late.rows
<1> USE DEF IInv, TypeOK, Settled
<1>1. ASSUME NEW d \in Cmds, Commits(d) \/ Publishes(d)  PROVE FALSE
  BY <1>1 DEF Commits, Publishes
<1>2. ASSUME NEW k \in Conns, StreamStep(k)  PROVE FALSE
  BY <1>2 DEF StreamStep, Queries, Takes, Dies, Marks, Delivered, Pending, database
<1>3. CASE PollStep
  BY <1>3 DEF PollStep, PollQueries, PollAnswers, Marks, Delivered, ReadUnsettled, database
<1>4. CASE LatePollStep
  BY <1>4 DEF LatePollStep, LatePollQueries, LatePollCommits, Marks, Delivered
<1>5. CASE ClientStep
  BY <1>5 DEF ClientStep, ClientTurns, Connects, Refused, StreamEnds, Polls,
              DispatchesPolled, DispatchesStreamed, Acknowledges, database
<1>6. CASE Mishaps
  BY <1>6 DEF Mishaps, RegistersLate, Breaks, PollFails, AckLost, ClientCrashes,
              ServerRestarts, database
<1>7. CASE UNCHANGED vars
  BY <1>7 DEF vars, database
<1> QED  BY <1>1, <1>2, <1>3, <1>4, <1>5, <1>6, <1>7 DEF Next

(* An acknowledged command is not opened again but by a late poll that had *)
(* read it before: poll_pending writes what it read (commands.py:127-138). *)
THEOREM SettledForGood == Spec => SettledStays
<1>1. IInv /\ [Next]_vars
      => [\A c \in Cmds : status[c] \in Settled /\ status'[c] \notin Settled
                          => c \in late.rows]_status
  BY SettledStep
<1> QED  BY <1>1, InvInit, InvNext, PTL DEF Spec, SettledStays

-----------------------------------------------------------------------------
(* How often a command is executed *)

(* A sequence in which nothing is twice stays one when something new comes *)
(* behind it, and when its head or its end is taken off.                   *)
LEMMA AppendNew ==
    ASSUME NEW S, NEW s \in Seq(S), IsInjective(s), NEW e \in S, e \notin Range(s)
    PROVE  IsInjective(Append(s, e))
<1>1. /\ DOMAIN Append(s, e) = DOMAIN s \cup {Len(s) + 1}
      /\ \A i \in DOMAIN s : Append(s, e)[i] = s[i] /\ s[i] # e
      /\ Append(s, e)[Len(s) + 1] = e
  BY DEF Range
<1> QED  BY <1>1 DEF IsInjective

(* What is taken from such a sequence is not in it any more. *)
LEMMA TailOfDistinct ==
    ASSUME NEW S, NEW s \in Seq(S), IsInjective(s), s # <<>>
    PROVE  IsInjective(Tail(s)) /\ Head(s) \notin Range(Tail(s))
<1>1. /\ Len(s) \in Nat \ {0} /\ DOMAIN s = 1 .. Len(s)
      /\ DOMAIN Tail(s) = 1 .. Len(s) - 1
      /\ \A i \in 1 .. Len(s) - 1 : Tail(s)[i] = s[i + 1]
      /\ Head(s) = s[1]
  OBVIOUS
<1>2. ASSUME NEW i \in 1 .. Len(s) - 1, NEW j \in 1 .. Len(s) - 1, Tail(s)[i] = Tail(s)[j]
      PROVE  i = j
  <2>1. s[i + 1] = s[j + 1] /\ i + 1 \in DOMAIN s /\ j + 1 \in DOMAIN s
    BY <1>1, <1>2
  <2>2. i + 1 = j + 1
    BY <2>1 DEF IsInjective
  <2> QED  BY <1>1, <2>2
<1>3. ASSUME NEW i \in 1 .. Len(s) - 1  PROVE Tail(s)[i] # Head(s)
  <2>1. i + 1 \in DOMAIN s /\ 1 \in DOMAIN s /\ i + 1 # 1
    BY <1>1
  <2>2. s[i + 1] # s[1]
    BY <2>1 DEF IsInjective
  <2> QED  BY <1>1, <2>2
<1> QED  BY <1>1, <1>2, <1>3 DEF IsInjective, Range

(* The start of such a sequence is one, and has nothing else. *)
LEMMA StartOfDistinct ==
    ASSUME NEW S, NEW s \in Seq(S), IsInjective(s), NEW n \in 0 .. Len(s)
    PROVE  IsInjective(SubSeq(s, 1, n)) /\ Range(SubSeq(s, 1, n)) \subseteq Range(s)
<1>1. /\ DOMAIN SubSeq(s, 1, n) = 1 .. n /\ DOMAIN s = 1 .. Len(s)
      /\ \A i \in 1 .. n : SubSeq(s, 1, n)[i] = s[i] /\ i \in DOMAIN s
  OBVIOUS
<1> QED  BY <1>1 DEF IsInjective, Range

(* So is the sequence of nothing. *)
LEMMA EmptyDistinct == IsInjective(<<>>) /\ Range(<<>>) = {}
  BY DEF IsInjective, Range

-----------------------------------------------------------------------------
(* A command takes its place in one queue, once; before it is created it   *)
(* is nowhere.                                                             *)
InLine(k) ==
    /\ IsInjective(queue[k]) /\ IsInjective(pipe[k])
    /\ Range(queue[k]) \cap Range(pipe[k]) = {}
    /\ creating \cap (Range(queue[k]) \cup Range(pipe[k])) = {}

(* A command that is not created is in no queue. *)
Unknown(c) ==
    status[c] = "none" =>
        c \notin creating /\ \A k \in Conns : c \notin Range(queue[k]) \cup Range(pipe[k])

(* Both, of all queues and commands. *)
QueueInv == (\A k \in Conns : InLine(k)) /\ (\A c \in Cmds : Unknown(c))

(* At first nothing is in a queue. *)
LEMMA QueueInit == Init => QueueInv
  BY EmptyDistinct DEF Init, QueueInv, InLine, Unknown

(* The queues and what was sent only lose commands, in a step that creates *)
(* and publishes none and hands none on.                                   *)
LEMMA QueueShrinks ==
    ASSUME QueueInv,
           \A c \in Cmds : status'[c] = "none" => status[c] = "none",
           creating' \subseteq creating, creating \subseteq Cmds,
           \A k \in Conns :
              /\ IsInjective(queue[k]) => IsInjective(queue'[k])
              /\ IsInjective(pipe[k]) => IsInjective(pipe'[k])
              /\ Range(queue'[k]) \subseteq Range(queue[k])
              /\ Range(pipe'[k]) \subseteq Range(pipe[k])
    PROVE  QueueInv'
<1>1. ASSUME NEW k \in Conns  PROVE InLine(k)'
  BY DEF QueueInv, InLine
<1>2. ASSUME NEW c \in Cmds  PROVE Unknown(c)'
  BY DEF QueueInv, Unknown
<1> QED  BY <1>1, <1>2 DEF QueueInv

(* Every step keeps the queues so. *)
LEMMA QueueNext == TypeOK /\ QueueInv /\ [Next]_vars => QueueInv'
<1> SUFFICES ASSUME TypeOK, QueueInv, [Next]_vars  PROVE QueueInv'
  OBVIOUS
<1>1. creating \subseteq Cmds
  BY DEF TypeOK
<1>2. ASSUME NEW k \in Conns
      PROVE  queue[k] \in Seq(Cmds) /\ pipe[k] \in Seq(Cmds)
  BY DEF TypeOK
<1>3. ASSUME \A c \in Cmds : status'[c] = "none" => status[c] = "none",
             creating' \subseteq creating, UNCHANGED <<queue, pipe>>
      PROVE  QueueInv'
  BY <1>1, <1>3, QueueShrinks
<1>4. ASSUME NEW rows, NEW gone, Marks(rows, gone), NEW c \in Cmds, status'[c] = "none"
      PROVE  status[c] = "none"
  BY <1>4 DEF Marks, Delivered
<1>5. ASSUME NEW c \in Cmds, Commits(c)  PROVE QueueInv'
  <2>1. /\ status' = [status EXCEPT ![c] = "pending"] /\ status[c] = "none"
        /\ creating' = creating \cup {c} /\ UNCHANGED <<queue, pipe>>
    BY <1>5 DEF Commits, streams
  <2>2. \A k \in Conns : c \notin Range(queue[k]) \cup Range(pipe[k])
    BY <2>1 DEF QueueInv, Unknown
  <2>3. ASSUME NEW k \in Conns  PROVE InLine(k)'
    BY <2>1, <2>2 DEF QueueInv, InLine
  <2>4. ASSUME NEW d \in Cmds  PROVE Unknown(d)'
    <3>1. status'[d] = "none" => d # c /\ status[d] = "none"
      BY <2>1 DEF TypeOK
    <3> QED  BY <2>1, <3>1 DEF QueueInv, Unknown
  <2> QED  BY <2>3, <2>4 DEF QueueInv
<1>6. ASSUME NEW c \in Cmds, Publishes(c)  PROVE QueueInv'
  <2>1. /\ creating' = creating \ {c} /\ c \in creating /\ UNCHANGED <<status, pipe>>
        /\ queue' = [k \in Conns |-> IF k = registered THEN Append(queue[k], c) ELSE queue[k]]
    BY <1>6 DEF Publishes
  <2>2. ASSUME NEW k \in Conns
        PROVE  InLine(k)' /\ Range(queue'[k]) \subseteq Range(queue[k]) \cup {c}
    <3>1. InLine(k) /\ c \notin Range(queue[k]) \cup Range(pipe[k])
      BY <2>1 DEF QueueInv, InLine
    <3>2. CASE k = registered
      <4>1. queue'[k] = Append(queue[k], c)
        BY <2>1, <3>2
      <4>2. IsInjective(queue'[k]) /\ Range(queue'[k]) = Range(queue[k]) \cup {c}
        <5>1. queue[k] \in Seq(Cmds) /\ IsInjective(queue[k])
          BY <1>2, <3>1 DEF InLine
        <5> QED  BY <3>1, <4>1, <5>1, AppendNew, RangeAppend
      <4> QED  BY <2>1, <3>1, <4>2 DEF InLine
    <3>3. CASE k # registered
      BY <2>1, <3>1, <3>3 DEF InLine
    <3> QED  BY <3>2, <3>3
  <2>3. ASSUME NEW d \in Cmds  PROVE Unknown(d)'
    <3>1. status[d] = "none" => d # c
      BY <2>1 DEF QueueInv, Unknown
    <3> QED  BY <2>1, <2>2, <3>1 DEF QueueInv, Unknown
  <2> QED  BY <2>2, <2>3 DEF QueueInv
<1>7. ASSUME NEW k \in Conns, Registers(k), UNCHANGED <<status, creating>>
      PROVE  QueueInv'
  <2>1. /\ queue' = [queue EXCEPT ![k] = <<>>] /\ pipe' = [pipe EXCEPT ![k] = <<>>]
    BY <1>7 DEF Registers
  <2>2. ASSUME NEW l \in Conns
        PROVE  queue'[l] \in {<<>>, queue[l]} /\ pipe'[l] \in {<<>>, pipe[l]}
    BY <2>1 DEF TypeOK
  <2> QED  BY <1>1, <1>7, <2>2, EmptyDistinct, QueueShrinks
<1>8. ASSUME NEW k \in Conns, Queries(k)  PROVE QueueInv'
  BY <1>3, <1>4, <1>8 DEF Queries
<1>9. ASSUME NEW k \in Conns, Takes(k)  PROVE QueueInv'
  <2> DEFINE c == Head(queue[k])
  <2>1. /\ queue[k] # <<>> /\ queue' = [queue EXCEPT ![k] = Tail(@)]
        /\ pipe' = [pipe EXCEPT ![k] = IF k \in cut THEN @ ELSE Append(@, c)]
        /\ status' = Delivered({c} \cap Pending) /\ creating' = creating
    BY <1>9 DEF Takes
  <2>2. InLine(k) /\ queue[k] \in Seq(Cmds) /\ pipe[k] \in Seq(Cmds)
    BY <1>2 DEF QueueInv
  <2>3. /\ IsInjective(Tail(queue[k])) /\ c \notin Range(Tail(queue[k])) /\ c \in Cmds
        /\ Range(queue[k]) = Range(Tail(queue[k])) \cup {c}
    BY <2>1, <2>2, TailOfDistinct, RangeTail, SeqTypes DEF InLine
  <2>4. /\ c \notin Range(pipe[k]) /\ c \notin creating
    BY <2>2, <2>3 DEF InLine
  <2>5. /\ IsInjective(Append(pipe[k], c))
        /\ Range(Append(pipe[k], c)) = Range(pipe[k]) \cup {c}
    <3> HIDE DEF c
    <3> QED  BY <2>2, <2>3, <2>4, AppendNew, RangeAppend DEF InLine
  <2>6. /\ queue'[k] = Tail(queue[k]) /\ pipe'[k] \in {pipe[k], Append(pipe[k], c)}
        /\ \A l \in Conns \ {k} : queue'[l] = queue[l] /\ pipe'[l] = pipe[l]
    BY <2>1 DEF TypeOK
  <2> HIDE DEF c
  <2>7. ASSUME NEW l \in Conns  PROVE InLine(l)'
    <3>1. CASE l = k
      BY <2>1, <2>2, <2>3, <2>4, <2>5, <2>6, <3>1 DEF InLine
    <3>2. CASE l # k
      BY <2>1, <2>6, <3>2 DEF QueueInv, InLine
    <3> QED  BY <3>1, <3>2
  <2>8. ASSUME NEW d \in Cmds  PROVE Unknown(d)'
    <3>1. status'[d] = "none" => status[d] = "none"
      BY <2>1 DEF Delivered
    <3>2. \A l \in Conns : Range(queue'[l]) \cup Range(pipe'[l])
                             \subseteq Range(queue[l]) \cup Range(pipe[l])
      BY <2>3, <2>5, <2>6
    <3> QED  BY <2>1, <3>1, <3>2 DEF QueueInv, Unknown
  <2> QED  BY <2>7, <2>8 DEF QueueInv
<1>10. ASSUME NEW k \in Conns, Dies(k)  PROVE QueueInv'
  <2>1. ASSUME NEW l \in Conns  PROVE queue'[l] \in {<<>>, queue[l]} /\ pipe'[l] = pipe[l]
    BY <1>10 DEF Dies, TypeOK
  <2> QED  BY <1>1, <1>10, <2>1, EmptyDistinct, QueueShrinks DEF Dies, database
<1>11. CASE PollStep \/ LatePollStep
  BY <1>3, <1>4, <1>11 DEF PollStep, LatePollStep, PollQueries, PollAnswers,
                           LatePollQueries, LatePollCommits, streams, database
<1>12. CASE ClientStep
  <2>1. CASE ClientTurns
    BY <1>3, <1>7, <2>1 DEF ClientTurns, Connects, Refused, StreamEnds, Polls, database, streams
  <2>2. ASSUME NEW c \in Cmds, DispatchesPolled(c)  PROVE QueueInv'
    BY <1>3, <2>2 DEF DispatchesPolled, database, streams
  <2>3. ASSUME NEW c \in Cmds, DispatchesStreamed(c)  PROVE QueueInv'
    <3>1. client.conn \in Conns /\ UNCHANGED <<status, creating, queue>>
      BY <2>3, ConstantsAssumption DEF DispatchesStreamed, TypeOK, database
    <3>2. ASSUME NEW k \in Conns
          PROVE  \/ pipe'[k] = pipe[k]
                 \/ pipe[k] # <<>> /\ pipe'[k] = Tail(pipe[k])
      BY <2>3, <3>1 DEF DispatchesStreamed, TypeOK
    <3>3. ASSUME NEW k \in Conns
          PROVE  /\ IsInjective(pipe[k]) => IsInjective(pipe'[k])
                 /\ Range(pipe'[k]) \subseteq Range(pipe[k])
      BY <1>2, <3>2, TailOfDistinct, RangeTail
    <3> QED  BY <1>1, <3>1, <3>3, QueueShrinks
  <2>4. CASE Acknowledges
    BY <1>3, <2>4 DEF Acknowledges, streams, Settled
  <2> QED  BY <1>12, <2>1, <2>2, <2>3, <2>4 DEF ClientStep
<1>13. CASE Mishaps
  <2>1. ASSUME NEW k \in Conns, RegistersLate(k)  PROVE QueueInv'
    BY <1>7, <2>1 DEF RegistersLate, database
  <2>2. ASSUME NEW k \in Conns, Breaks(k)  PROVE QueueInv'
    <3>1. UNCHANGED <<status, creating, queue>>
      BY <2>2 DEF Breaks, database
    <3>2. ASSUME NEW l \in Conns
          PROVE  /\ IsInjective(pipe[l]) => IsInjective(pipe'[l])
                 /\ Range(pipe'[l]) \subseteq Range(pipe[l])
      <4>1. CASE \E n \in 0 .. Len(pipe[k]) : pipe' = [pipe EXCEPT ![k] = SubSeq(@, 1, n)]
        <5>1. PICK n \in 0 .. Len(pipe[k]) : pipe' = [pipe EXCEPT ![k] = SubSeq(@, 1, n)]
          BY <4>1
        <5>2. pipe'[l] = pipe[l] \/ (l = k /\ pipe'[l] = SubSeq(pipe[k], 1, n))
          BY <5>1 DEF TypeOK
        <5>3. IsInjective(pipe[k]) =>
                /\ IsInjective(SubSeq(pipe[k], 1, n))
                /\ Range(SubSeq(pipe[k], 1, n)) \subseteq Range(pipe[k])
          BY <1>2, StartOfDistinct
        <5>4. IsInjective(pipe[k])
          BY DEF QueueInv, InLine
        <5> QED  BY <5>2, <5>3, <5>4
      <4>2. CASE pipe' = [pipe EXCEPT ![k] = <<>>]
        <5>1. pipe'[l] \in {<<>>, pipe[l]}
          BY <4>2 DEF TypeOK
        <5> QED  BY <5>1, EmptyDistinct
      <4> QED  BY <2>2, <4>1, <4>2 DEF Breaks
    <3> QED  BY <1>1, <3>1, <3>2, QueueShrinks
  <2>3. CASE PollFails \/ AckLost
    BY <1>3, <2>3 DEF PollFails, AckLost, streams, database
  <2>4. CASE ClientCrashes
    BY <1>1, <2>4, EmptyDistinct, QueueShrinks DEF ClientCrashes
  <2>5. CASE ServerRestarts
    <3>1. UNCHANGED <<status, pipe>> /\ creating' = {} /\ \A k \in Conns : queue'[k] = <<>>
      BY <2>5 DEF ServerRestarts
    <3> QED  BY <1>1, <3>1, EmptyDistinct, QueueShrinks
  <2> QED  BY <1>13, <2>1, <2>2, <2>3, <2>4, <2>5 DEF Mishaps
<1>14. CASE UNCHANGED vars
  BY <1>3, <1>14 DEF vars, database, streams
<1> QED
  BY <1>5, <1>6, <1>8, <1>9, <1>10, <1>11, <1>12, <1>13, <1>14 DEF Next, StreamStep

-----------------------------------------------------------------------------
(* The ways to the client: what a reader of the pending rows has marked    *)
(* for it, and what comes by the queue, from the commit on.                *)
ByReader ==
    IF client.at = "in" THEN batch[client.conn]
    ELSE IF client.at = "out" THEN client.rows ELSE {}

(* The second way, from the commit to what the client has not yet read. *)
ByQueue == ToBeQueued \cup (IF client.at = "in" THEN Range(pipe[client.conn]) ELSE {})

(* How many ways of a kind are open to a command. *)
One(c, S) == IF c \in S THEN 1 ELSE 0

(* A command that is pending was never sent. *)
PendingUnsent ==
    \A c \in Cmds : status[c] \in {"none", "pending"} => ran[c] = 0 /\ c \notin OnTheWay

(* What a poll has read was never executed. *)
PolledUnsent ==
    client.at = "answering" => \A c \in client.rows : ran[c] = 0

(* Each way brings a command once, the second one if they crossed.         *)
Counted ==
    \A c \in Cmds : ran[c] + One(c, ByReader) + One(c, ByQueue) <= 1 + One(c, raced)

(* The inductive invariant. *)
ExecInv == IInv /\ QueueInv /\ PendingUnsent /\ PolledUnsent /\ Counted

(* It holds before the first command. *)
LEMMA ExecInit == Init => ExecInv
<1> SUFFICES ASSUME Init  PROVE ExecInv
  OBVIOUS
<1>1. OnTheWay = {} /\ ByReader = {} /\ ByQueue = {}
  BY EmptyDistinct DEF Init, Out, OnTheWay, ByReader, ByQueue, ToBeQueued
<1>2. PendingUnsent /\ PolledUnsent /\ Counted
  BY <1>1 DEF Init, Out, PendingUnsent, PolledUnsent, Counted, One
<1> QED  BY <1>2, InvInit, QueueInit DEF ExecInv

(* A step that executes nothing and opens no way does no harm.             *)
LEMMA NoWayOpens ==
    ASSUME ExecInv, UNCHANGED ran, raced \subseteq raced',
           ByReader' \subseteq ByReader, ByQueue' \subseteq ByQueue
    PROVE  Counted'
<1> SUFFICES ASSUME NEW c \in Cmds
             PROVE  ran[c] + One(c, ByReader') + One(c, ByQueue') <= 1 + One(c, raced')
  BY DEF Counted, One
<1>1. ran[c] \in Nat /\ ran[c] + One(c, ByReader) + One(c, ByQueue) <= 1 + One(c, raced)
  BY DEF ExecInv, IInv, TypeOK, Counted
<1> QED  BY <1>1 DEF One

(* Readers of the pending rows, while a stream or a poll has nothing else  *)
(* that they marked: those that may come by the queue too are crossed.     *)
LEMMA ReaderOpens ==
    ASSUME ExecInv, NEW rows \in SUBSET Cmds, UNCHANGED ran,
           \A c \in rows : ran[c] = 0,
           ByReader' \subseteq rows, ByQueue' \subseteq ByQueue,
           raced' = raced \cup (rows \cap ByQueue)
    PROVE  Counted'
<1> SUFFICES ASSUME NEW c \in Cmds
             PROVE  ran[c] + One(c, ByReader') + One(c, ByQueue') <= 1 + One(c, raced')
  BY DEF Counted, One
<1>1. ran[c] \in Nat /\ ran[c] + One(c, ByReader) + One(c, ByQueue) <= 1 + One(c, raced)
  BY DEF ExecInv, IInv, TypeOK, Counted
<1>2. CASE c \in rows
  BY <1>1, <1>2 DEF One
<1>3. CASE c \notin rows
  BY <1>1, <1>3 DEF One
<1> QED  BY <1>2, <1>3

(* An execution uses up one way.                                           *)
LEMMA WayUsed ==
    ASSUME ExecInv, NEW c \in Cmds, Executes(c), UNCHANGED raced,
           ByReader' \subseteq ByReader, ByQueue' \subseteq ByQueue,
           \/ c \in ByReader \ ByReader'
           \/ c \in ByQueue \ ByQueue'
    PROVE  Counted'
<1> SUFFICES ASSUME NEW d \in Cmds
             PROVE  ran'[d] + One(d, ByReader') + One(d, ByQueue') <= 1 + One(d, raced)
  BY DEF Counted, One
<1>1. ran[d] \in Nat /\ ran[d] + One(d, ByReader) + One(d, ByQueue) <= 1 + One(d, raced)
  BY DEF ExecInv, IInv, TypeOK, Counted
<1>2. ran'[d] = IF d = c THEN ran[d] + 1 ELSE ran[d]
  BY DEF ExecInv, IInv, TypeOK, Executes
<1> QED  BY <1>1, <1>2 DEF One

(* A step that executes nothing, marks and reads nothing new keeps the     *)
(* rest.                                                                   *)
LEMMA UnsentKept ==
    ASSUME ExecInv, UNCHANGED ran,
           \A c \in Cmds : status'[c] \in {"none", "pending"} =>
               status[c] \in {"none", "pending"} /\ (c \in OnTheWay' => c \in OnTheWay)
    PROVE  PendingUnsent'
  BY DEF ExecInv, PendingUnsent

(* Only the queue of the stream that the client reads counts.              *)
LEMMA ReadQueue ==
    ASSUME ExecInv, NEW c \in ToBeQueued
    PROVE  \/ c \in creating
           \/ client.at = "in" /\ c \in Range(queue[client.conn])
  BY DEF ExecInv, IInv, WorkingIsRead, ToBeQueued

(* What is asked of each step.                                             *)
StillOnce == PendingUnsent' /\ PolledUnsent' /\ Counted'

(* A command that is created has one way, by the queue. *)
LEMMA CreatesOnce ==
    ASSUME ExecInv, NEW c \in Cmds, Commits(c) \/ Publishes(c)  PROVE StillOnce
<1> USE DEF ExecInv, IInv, TypeOK
<1>1. OnTheWay' = OnTheWay /\ ByReader' = ByReader /\ UNCHANGED <<ran, raced, client>>
  BY DEF Commits, Publishes, streams, history, OnTheWay, ByReader
<1>2. PolledUnsent'
  BY <1>1 DEF PolledUnsent
<1>3. CASE Commits(c)
  <2>1. status[c] = "none" /\ status' = [status EXCEPT ![c] = "pending"]
    BY <1>3 DEF Commits
  <2>2. PendingUnsent'
    BY <1>1, <2>1 DEF PendingUnsent
  <2>3. ByQueue' = ByQueue \cup {c}
    BY <1>1, <1>3 DEF Commits, streams, ByQueue, ToBeQueued
  <2>4. ran[c] = 0 /\ c \notin ByReader
    BY <2>1 DEF PendingUnsent, OnTheWay, ByReader
  <2>5. ASSUME NEW d \in Cmds
        PROVE  ran[d] + One(d, ByReader') + One(d, ByQueue') <= 1 + One(d, raced')
    <3>1. ran[d] \in Nat /\ ran[d] + One(d, ByReader) + One(d, ByQueue) <= 1 + One(d, raced)
      BY DEF Counted
    <3> QED  BY <1>1, <2>3, <2>4, <3>1 DEF One
  <2>6. Counted'
    BY <1>1, <2>5 DEF Counted, One
  <2> QED  BY <1>2, <2>2, <2>6 DEF StillOnce
<1>4. CASE Publishes(c)
  <2>1. PendingUnsent'
    BY <1>1, <1>4 DEF Publishes, PendingUnsent
  <2>2. ASSUME NEW k \in Conns  PROVE Range(queue'[k]) \subseteq Range(queue[k]) \cup {c}
    BY <1>4, RangeAppend DEF Publishes
  <2>3. ByQueue' \subseteq ByQueue
    BY <1>1, <1>4, <2>2 DEF Publishes, ByQueue, ToBeQueued
  <2>4. Counted'
    <3> HIDE DEF ExecInv
    <3> QED  BY <1>1, <2>3, NoWayOpens
  <2> QED  BY <1>2, <2>1, <2>4 DEF StillOnce
<1> QED  BY <1>3, <1>4

(* The first query of a stream opens the other way to all that is pending. *)
LEMMA QueriesOnce ==
    ASSUME ExecInv, NEW k \in Conns, Queries(k)  PROVE StillOnce
<1> USE DEF ExecInv, IInv, TypeOK
<1>1. /\ UNCHANGED <<ran, client, creating, queue, pipe, cut>>
      /\ gen[k] = "opened" /\ gen' = [gen EXCEPT ![k] = "live"]
      /\ batch' = [batch EXCEPT ![k] = IF k \in cut THEN {} ELSE Pending]
      /\ status' = Delivered(Pending) /\ raced' = raced \cup (Pending \cap ToBeQueued)
  BY DEF Queries, Marks
<1>2. PolledUnsent'
  BY <1>1 DEF PolledUnsent
<1>3. batch[k] = {} /\ ByQueue' = ByQueue
  <2>1. ToBeQueued' = ToBeQueued
    <3>1. \A l \in Conns : gen'[l] # "none" <=> gen[l] # "none"
      BY <1>1
    <3> QED  BY <1>1, <3>1 DEF ToBeQueued
  <2> QED  BY <1>1, <2>1 DEF ByQueue, OpenedSentNothing
<1>4. PendingUnsent'
  <2> SUFFICES ASSUME NEW c \in Cmds, status'[c] \in {"none", "pending"}
               PROVE  ran[c] = 0 /\ c \notin OnTheWay'
    BY <1>1 DEF PendingUnsent
  <2>1. status[c] = "none" /\ c \notin Pending
    BY <1>1 DEF Delivered, Pending
  <2>2. OnTheWay' \subseteq OnTheWay \cup Pending
    BY <1>1 DEF OnTheWay
  <2> QED  BY <2>1, <2>2 DEF PendingUnsent
<1>5. CASE k \in cut
  <2>1. ByReader' = ByReader
    BY <1>1, <1>3, <1>5 DEF ByReader
  <2>2. Counted'
    <3> HIDE DEF ExecInv
    <3> QED  BY <1>1, <1>3, <2>1, NoWayOpens
  <2> QED  BY <1>2, <1>4, <2>2 DEF StillOnce
<1>6. CASE k \notin cut
  <2>1. client.at = "in" /\ client.conn = k
    BY <1>1, <1>6 DEF WorkingIsRead
  <2>2. ByReader' = Pending
    BY <1>1, <1>6, <2>1 DEF ByReader
  <2>3. \A c \in Pending : c \in Cmds /\ ran[c] = 0 /\ c \notin OnTheWay
    BY DEF Pending, PendingUnsent
  <2>4. Pending \cap ByQueue = Pending \cap ToBeQueued
    BY <2>3 DEF ByQueue, OnTheWay
  <2>5. Counted'
    <3> HIDE DEF ExecInv
    <3> QED  BY <1>1, <1>3, <2>2, <2>3, <2>4, ReaderOpens
  <2> QED  BY <1>2, <1>4, <2>5 DEF StillOnce
<1> QED  BY <1>5, <1>6

(* What is taken from a queue was on its way already. *)
LEMMA TakesOnce ==
    ASSUME ExecInv, NEW k \in Conns, Takes(k)  PROVE StillOnce
<1> USE DEF ExecInv, IInv, TypeOK
<1> DEFINE c == Head(queue[k])
<1>1. /\ UNCHANGED <<ran, raced, client, creating, gen, batch, cut>>
      /\ gen[k] = "live" /\ queue[k] # <<>> /\ queue' = [queue EXCEPT ![k] = Tail(@)]
      /\ pipe' = [pipe EXCEPT ![k] = IF k \in cut THEN @ ELSE Append(@, c)]
      /\ status' = Delivered({c} \cap Pending)
  BY DEF Takes
<1>2. queue[k] \in Seq(Cmds) /\ pipe[k] \in Seq(Cmds)
  OBVIOUS
<1>3. c \in Cmds /\ Range(queue[k]) = Range(queue'[k]) \cup {c}
  BY <1>1, <1>2, RangeTail, SeqTypes
<1>4. status[c] # "none"
  BY <1>3 DEF QueueInv, Unknown
<1>5. Range(pipe'[k]) \subseteq Range(pipe[k]) \cup (IF k \in cut THEN {} ELSE {c})
  <2>1. Range(Append(pipe[k], c)) = Range(pipe[k]) \cup {c}
    BY <1>2, <1>3, RangeAppend
  <2> QED  BY <1>1, <2>1
<1>6. \A l \in Conns \ {k} : queue'[l] = queue[l] /\ pipe'[l] = pipe[l]
  BY <1>1
<1> HIDE DEF c
<1>7. PolledUnsent'
  BY <1>1 DEF PolledUnsent
<1>8. OnTheWay' \subseteq OnTheWay \cup {c}
  BY <1>1, <1>5, <1>6 DEF OnTheWay
<1>9. PendingUnsent'
  <2> SUFFICES ASSUME NEW d \in Cmds, status'[d] \in {"none", "pending"}
               PROVE  ran[d] = 0 /\ d \notin OnTheWay'
    BY <1>1 DEF PendingUnsent
  <2>1. status[d] \in {"none", "pending"} /\ d # c
    BY <1>1, <1>4 DEF Delivered, Pending
  <2> QED  BY <1>8, <2>1 DEF PendingUnsent
<1>10. ByReader' = ByReader
  BY <1>1 DEF ByReader
<1>11. ByQueue' \subseteq ByQueue
  <2>1. ToBeQueued' \subseteq ToBeQueued
    BY <1>1, <1>3, <1>6 DEF ToBeQueued
  <2>2. k \notin cut => c \in ToBeQueued
    <3>1. c \in Range(queue[k]) /\ gen[k] # "none"
      BY <1>1, <1>3
    <3> HIDE DEF ExecInv, IInv, TypeOK
    <3> QED  BY <3>1 DEF ToBeQueued
  <2> QED  BY <1>1, <1>5, <1>6, <2>1, <2>2 DEF ByQueue
<1>12. Counted'
  <2> HIDE DEF ExecInv
  <2> QED  BY <1>1, <1>10, <1>11, NoWayOpens
<1> QED  BY <1>7, <1>9, <1>12 DEF StillOnce

(* An answered poll opens the other way to what it has read. *)
LEMMA PollsOnce ==
    ASSUME ExecInv, PollStep \/ LatePollStep  PROVE StillOnce
<1> USE DEF ExecInv, IInv, TypeOK
<1>1. CASE PollQueries
  <2>1. /\ client.at = "asked" /\ client' = [client EXCEPT !.at = "answering", !.rows = Pending]
        /\ UNCHANGED <<status, creating, ran, raced, queue, gen, cut, batch, pipe>>
    BY <1>1 DEF PollQueries, database, streams, history
  <2>2. PolledUnsent'
    BY <2>1 DEF PolledUnsent, PendingUnsent, Pending
  <2>3. OnTheWay' = {} /\ ByReader' = {} /\ ByQueue' \subseteq ByQueue
    BY <2>1 DEF OnTheWay, ByReader, ByQueue, ToBeQueued
  <2>4. PendingUnsent'
    BY <2>1, <2>3 DEF PendingUnsent
  <2>5. Counted'
    <3> HIDE DEF ExecInv
    <3> QED  BY <2>1, <2>3, NoWayOpens
  <2> QED  BY <2>2, <2>4, <2>5 DEF StillOnce
<1>2. CASE PollAnswers
  <2>1. /\ client.at = "answering" /\ client' = [client EXCEPT !.at = "out"]
        /\ status' = Delivered(client.rows)
        /\ raced' = raced \cup (client.rows \cap ToBeQueued)
        /\ UNCHANGED <<creating, ran, queue, gen, cut, batch, pipe>>
    BY <1>2 DEF PollAnswers, Marks, streams
  <2>2. client'.at = "out" /\ client'.rows = client.rows /\ client.rows \subseteq Cmds
    BY <2>1
  <2>3. PolledUnsent'
    BY <2>2 DEF PolledUnsent
  <2>4. /\ OnTheWay' = client.rows /\ ByReader' = client.rows
        /\ ByQueue' = ToBeQueued /\ ByQueue = ToBeQueued
    BY <2>1, <2>2 DEF OnTheWay, ByReader, ByQueue, ToBeQueued
  <2>5. PendingUnsent'
    BY <2>1, <2>4 DEF PendingUnsent, Delivered
  <2>6. Counted'
    <3>1. \A c \in client.rows : ran[c] = 0
      BY <2>1 DEF PolledUnsent
    <3> HIDE DEF ExecInv
    <3> QED  BY <2>1, <2>2, <2>4, <3>1, ReaderOpens
  <2> QED  BY <2>3, <2>5, <2>6 DEF StillOnce
<1>3. CASE LatePollQueries \/ LatePollCommits
  <2>1. /\ UNCHANGED <<creating, ran, queue, gen, cut, batch, pipe, client>>
        /\ raced \subseteq raced'
        /\ \A c \in Cmds : status'[c] \in {status[c], "delivered"}
    BY <1>3 DEF LatePollQueries, LatePollCommits, Marks, Delivered, streams, history
  <2>2. PolledUnsent'
    BY <2>1 DEF PolledUnsent
  <2>3. OnTheWay' = OnTheWay /\ ByReader' = ByReader /\ ByQueue' = ByQueue
    BY <2>1 DEF OnTheWay, ByReader, ByQueue, ToBeQueued
  <2>4. PendingUnsent'
    BY <2>1, <2>3 DEF PendingUnsent
  <2>5. Counted'
    <3> HIDE DEF ExecInv
    <3> QED  BY <2>1, <2>3, NoWayOpens
  <2> QED  BY <2>2, <2>4, <2>5 DEF StillOnce
<1> QED  BY <1>1, <1>2, <1>3 DEF PollStep, LatePollStep

(* An execution uses one way up; the rest of the client opens none. *)
LEMMA ClientOnce ==
    ASSUME ExecInv, ClientStep  PROVE StillOnce
<1> USE ConstantsAssumption DEF ExecInv, IInv, TypeOK
<1>1. ASSUME NEW k \in Conns, Connects(k)  PROVE StillOnce
  <2>1. /\ client = Out /\ client' = [Out EXCEPT !.at = "in", !.conn = k]
        /\ UNCHANGED <<status, creating, ran, raced>> /\ cut' = cut \ {k}
        /\ queue' = [queue EXCEPT ![k] = <<>>] /\ batch' = [batch EXCEPT ![k] = {}]
        /\ pipe' = [pipe EXCEPT ![k] = <<>>] /\ gen' = [gen EXCEPT ![k] = "opened"]
    BY <1>1 DEF Connects, Registers, database
  <2>2. /\ client'.at = "in" /\ client'.conn = k /\ batch'[k] = {} /\ Range(pipe'[k]) = {}
        /\ Range(queue'[k]) = {}
    BY <2>1, EmptyDistinct DEF Out
  <2>3. OnTheWay' = {} /\ ByReader' = {} /\ PolledUnsent'
    BY <2>2 DEF OnTheWay, ByReader, PolledUnsent
  <2>4. ByQueue' \subseteq ByQueue
    <3>1. \A l \in Conns \ {k} : queue'[l] = queue[l] /\ gen'[l] = gen[l]
      BY <2>1
    <3>2. ToBeQueued' \subseteq ToBeQueued
      BY <2>1, <2>2, <3>1 DEF ToBeQueued
    <3> QED  BY <2>2, <3>2 DEF ByQueue
  <2>5. PendingUnsent'
    BY <2>1, <2>3 DEF PendingUnsent
  <2>6. Counted'
    <3> HIDE DEF ExecInv
    <3> QED  BY <2>1, <2>3, <2>4, NoWayOpens
  <2> QED  BY <2>3, <2>5, <2>6 DEF StillOnce
<1>2. CASE Refused \/ StreamEnds \/ Polls
  <2>1. /\ UNCHANGED <<status, creating, ran, raced, queue, gen, cut, batch, pipe>>
        /\ client'.at \in {"out", "poll", "asked"}
        /\ client'.at = "out" => client'.rows = {}
    BY <1>2 DEF Refused, StreamEnds, Polls, Out, database, streams, history
  <2>2. OnTheWay' = {} /\ ByReader' = {} /\ PolledUnsent' /\ ByQueue' \subseteq ByQueue
    BY <2>1 DEF OnTheWay, ByReader, ByQueue, ToBeQueued, PolledUnsent
  <2>3. PendingUnsent'
    BY <2>1, <2>2 DEF PendingUnsent
  <2>4. Counted'
    <3> HIDE DEF ExecInv
    <3> QED  BY <2>1, <2>2, NoWayOpens
  <2> QED  BY <2>2, <2>3, <2>4 DEF StillOnce
<1>3. ASSUME NEW c \in Cmds, DispatchesPolled(c)  PROVE StillOnce
  <2>1. /\ client.at = "out" /\ c \in client.rows
        /\ client'.at = "out" /\ client'.rows = client.rows \ {c}
        /\ UNCHANGED <<status, creating, raced, queue, gen, cut, batch, pipe>>
    BY <1>3 DEF DispatchesPolled, Oldest, database, streams
  <2>2. Executes(c)
    BY <1>3 DEF DispatchesPolled
  <2>3. /\ OnTheWay = client.rows /\ OnTheWay' \subseteq OnTheWay
        /\ ByReader' \subseteq ByReader /\ c \in ByReader \ ByReader'
        /\ ByQueue' \subseteq ByQueue /\ PolledUnsent'
    BY <2>1 DEF OnTheWay, ByReader, ByQueue, ToBeQueued, PolledUnsent
  <2>4. PendingUnsent'
    <3>1. \A d \in Cmds : d # c => ran'[d] = ran[d]
      BY <2>2 DEF Executes
    <3> QED  BY <2>1, <2>3, <3>1 DEF PendingUnsent
  <2>5. Counted'
    <3> HIDE DEF ExecInv
    <3> QED  BY <2>1, <2>2, <2>3, WayUsed
  <2> QED  BY <2>3, <2>4, <2>5 DEF StillOnce
<1>4. ASSUME NEW c \in Cmds, DispatchesStreamed(c)  PROVE StillOnce
  <2> DEFINE k == client.conn
  <2>1. /\ client.at = "in" /\ client'.at = "in" /\ client'.conn = k /\ k \in Conns
        /\ UNCHANGED <<status, creating, raced, queue, gen, cut>>
    BY <1>4 DEF DispatchesStreamed, database
  <2>2. Executes(c)
    BY <1>4 DEF DispatchesStreamed
  <2>3. ToBeQueued' = ToBeQueued /\ PolledUnsent'
    BY <2>1 DEF ToBeQueued, PolledUnsent
  <2>4. CASE Oldest(c, batch[k]) /\ batch' = [batch EXCEPT ![k] = @ \ {c}] /\ UNCHANGED pipe
    <3>1. /\ ByReader' \subseteq ByReader /\ c \in ByReader \ ByReader'
          /\ ByQueue' = ByQueue /\ c \in OnTheWay /\ OnTheWay' \subseteq OnTheWay
      BY <2>1, <2>3, <2>4 DEF Oldest, ByReader, ByQueue, OnTheWay
    <3>2. PendingUnsent'
      <4>1. \A d \in Cmds : d # c => ran'[d] = ran[d]
        BY <2>2 DEF Executes
      <4> QED  BY <2>1, <3>1, <4>1 DEF PendingUnsent
    <3>3. Counted'
      <4> HIDE DEF ExecInv
      <4> QED  BY <2>1, <2>2, <3>1, WayUsed
    <3> QED  BY <2>3, <3>2, <3>3 DEF StillOnce
  <2>5. CASE /\ pipe[k] # <<>> /\ c = Head(pipe[k])
             /\ pipe' = [pipe EXCEPT ![k] = Tail(@)] /\ UNCHANGED batch
    <3>1. pipe[k] \in Seq(Cmds) /\ pipe'[k] = Tail(pipe[k]) /\ InLine(k)
      BY <2>1, <2>5 DEF QueueInv
    <3>2. Range(pipe[k]) = Range(pipe'[k]) \cup {c} /\ c \notin Range(pipe'[k])
      BY <2>5, <3>1, RangeTail, TailOfDistinct DEF InLine
    <3>3. c \notin ToBeQueued
      BY <2>1, <3>1, <3>2, ReadQueue DEF InLine
    <3>4. /\ ByReader' = ByReader /\ c \in ByQueue \ ByQueue' /\ ByQueue' \subseteq ByQueue
          /\ c \in OnTheWay /\ OnTheWay' \subseteq OnTheWay
      BY <2>1, <2>3, <2>5, <3>2, <3>3 DEF ByReader, ByQueue, OnTheWay
    <3>5. PendingUnsent'
      <4>1. \A d \in Cmds : d # c => ran'[d] = ran[d]
        BY <2>2 DEF Executes
      <4> QED  BY <2>1, <3>4, <4>1 DEF PendingUnsent
    <3>6. Counted'
      <4> HIDE DEF ExecInv
      <4> QED  BY <2>1, <2>2, <3>4, WayUsed
    <3> QED  BY <2>3, <3>5, <3>6 DEF StillOnce
  <2> QED  BY <1>4, <2>4, <2>5 DEF DispatchesStreamed
<1>5. CASE Acknowledges
  <2>1. /\ UNCHANGED <<creating, ran, raced, queue, gen, cut, batch, pipe>>
        /\ client' = [client EXCEPT !.cmd = None]
        /\ \A c \in Cmds : status'[c] \in {status[c]} \cup Settled
    BY <1>5 DEF Acknowledges, streams, history
  <2>2. /\ OnTheWay' = OnTheWay /\ ByReader' = ByReader /\ ByQueue' = ByQueue
        /\ PolledUnsent'
    BY <2>1 DEF OnTheWay, ByReader, ByQueue, ToBeQueued, PolledUnsent
  <2>3. PendingUnsent'
    BY <2>1, <2>2 DEF PendingUnsent, Settled
  <2>4. Counted'
    <3> HIDE DEF ExecInv
    <3> QED  BY <2>1, <2>2, NoWayOpens
  <2> QED  BY <2>2, <2>3, <2>4 DEF StillOnce
<1> QED  BY <1>1, <1>2, <1>3, <1>4, <1>5 DEF ClientStep, ClientTurns

(* A mishap opens no way.                                                  *)
LEMMA MishapOnce ==
    ASSUME ExecInv, UNCHANGED <<status, ran, raced>>, PolledUnsent',
           OnTheWay' \subseteq OnTheWay, ByReader' \subseteq ByReader,
           ByQueue' \subseteq ByQueue
    PROVE  StillOnce
<1>1. PendingUnsent'
  BY DEF ExecInv, PendingUnsent
<1>2. Counted'
  BY NoWayOpens
<1> QED  BY <1>1, <1>2 DEF StillOnce

(* Breaks, late requests, crashes and restarts only close ways. *)
LEMMA MishapsOnce ==
    ASSUME ExecInv, Mishaps  PROVE StillOnce
<1> USE ConstantsAssumption DEF ExecInv, IInv, TypeOK
<1>1. ASSUME NEW k \in Conns, RegistersLate(k)  PROVE StillOnce
  <2>1. /\ k # client.conn /\ cut' = cut \cup {k} /\ UNCHANGED <<status, ran, raced, creating, client>>
        /\ queue' = [queue EXCEPT ![k] = <<>>] /\ batch' = [batch EXCEPT ![k] = {}]
        /\ pipe' = [pipe EXCEPT ![k] = <<>>] /\ gen' = [gen EXCEPT ![k] = "opened"]
    BY <1>1 DEF RegistersLate, Registers, database
  <2>2. \A l \in Conns \ {k} : /\ queue'[l] = queue[l] /\ batch'[l] = batch[l]
                               /\ pipe'[l] = pipe[l] /\ gen'[l] = gen[l]
    BY <2>1
  <2>3. OnTheWay' = OnTheWay /\ ByReader' = ByReader /\ PolledUnsent'
    BY <2>1, <2>2 DEF OnTheWay, ByReader, PolledUnsent
  <2>4. ToBeQueued' \subseteq ToBeQueued
    BY <2>1, <2>2 DEF ToBeQueued
  <2>5. ByQueue' \subseteq ByQueue
    BY <2>1, <2>2, <2>4 DEF ByQueue
  <2> HIDE DEF ExecInv
  <2> QED  BY <2>1, <2>3, <2>5, MishapOnce
<1>2. ASSUME NEW k \in Conns, Breaks(k)  PROVE StillOnce
  <2>1. UNCHANGED <<status, ran, raced, creating, client, gen, queue>> /\ cut' = cut \cup {k}
    BY <1>2 DEF Breaks, database
  <2>2. ASSUME NEW l \in Conns
        PROVE  batch'[l] \subseteq batch[l] /\ Range(pipe'[l]) \subseteq Range(pipe[l])
    <3>1. CASE /\ \E n \in 0 .. Len(pipe[k]) : pipe' = [pipe EXCEPT ![k] = SubSeq(@, 1, n)]
               /\ UNCHANGED batch
      <4>1. PICK n \in 0 .. Len(pipe[k]) : pipe' = [pipe EXCEPT ![k] = SubSeq(@, 1, n)]
        BY <3>1
      <4>2. pipe'[l] = pipe[l] \/ (l = k /\ pipe'[l] = SubSeq(pipe[k], 1, n))
        BY <4>1
      <4>3. Range(SubSeq(pipe[k], 1, n)) \subseteq Range(pipe[k])
        BY StartOfDistinct DEF QueueInv, InLine
      <4> QED  BY <3>1, <4>2, <4>3
    <3>2. CASE /\ pipe' = [pipe EXCEPT ![k] = <<>>]
               /\ \E c \in batch[k] :
                     batch' = [batch EXCEPT ![k] = {d \in @ : stamp[d] < stamp[c]}]
      <4>1. pipe'[l] \in {<<>>, pipe[l]} /\ batch'[l] \subseteq batch[l]
        BY <3>2
      <4> QED  BY <4>1, EmptyDistinct
    <3> QED  BY <1>2, <3>1, <3>2 DEF Breaks
  <2>3. ToBeQueued' \subseteq ToBeQueued
    BY <2>1 DEF ToBeQueued
  <2>4. /\ OnTheWay' \subseteq OnTheWay /\ ByReader' \subseteq ByReader
        /\ ByQueue' \subseteq ByQueue /\ PolledUnsent'
    BY <2>1, <2>2, <2>3 DEF OnTheWay, ByReader, ByQueue, PolledUnsent
  <2> HIDE DEF ExecInv
  <2> QED  BY <2>1, <2>4, MishapOnce
<1>3. CASE PollFails
  <2>1. client' = Out /\ UNCHANGED <<status, ran, raced, creating, streams>>
    BY <1>3 DEF PollFails, history
  <2>2. /\ OnTheWay' = {} /\ ByReader' = {} /\ ByQueue' \subseteq ByQueue /\ PolledUnsent'
    BY <2>1 DEF streams, Out, OnTheWay, ByReader, ByQueue, ToBeQueued, PolledUnsent
  <2> HIDE DEF ExecInv
  <2> QED  BY <2>1, <2>2, MishapOnce
<1>4. CASE AckLost
  <2>1. client' = [client EXCEPT !.cmd = None] /\ UNCHANGED <<status, ran, raced, creating, streams>>
    BY <1>4 DEF AckLost, history, database
  <2>2. /\ OnTheWay' = OnTheWay /\ ByReader' = ByReader /\ ByQueue' = ByQueue /\ PolledUnsent'
    BY <2>1 DEF streams, OnTheWay, ByReader, ByQueue, ToBeQueued, PolledUnsent
  <2> HIDE DEF ExecInv
  <2> QED  BY <2>1, <2>2, MishapOnce
<1>5. CASE ClientCrashes
  <2>1. /\ client' = Out /\ cut' = cut \cup ({client.conn} \ {None})
        /\ UNCHANGED <<status, ran, raced, creating, gen, queue>>
    BY <1>5 DEF ClientCrashes
  <2>2. ToBeQueued' \subseteq ToBeQueued
    BY <2>1 DEF ToBeQueued
  <2>3. /\ OnTheWay' = {} /\ ByReader' = {} /\ ByQueue' \subseteq ByQueue /\ PolledUnsent'
    BY <2>1, <2>2 DEF Out, OnTheWay, ByReader, ByQueue, PolledUnsent
  <2> HIDE DEF ExecInv
  <2> QED  BY <2>1, <2>3, MishapOnce
<1>6. CASE ServerRestarts
  <2>1. /\ creating' = {} /\ cut' = Conns /\ UNCHANGED <<status, ran, raced, batch, pipe>>
        /\ client' = IF client.at \in {"asked", "answering"} THEN Out ELSE client
    BY <1>6 DEF ServerRestarts, history
  <2>2. ToBeQueued' = {}
    BY <2>1 DEF ToBeQueued
  <2>3. /\ OnTheWay' \subseteq OnTheWay /\ ByReader' \subseteq ByReader
        /\ ByQueue' \subseteq ByQueue /\ PolledUnsent'
    BY <2>1, <2>2 DEF Out, OnTheWay, ByReader, ByQueue, PolledUnsent
  <2> HIDE DEF ExecInv
  <2> QED  BY <2>1, <2>3, MishapOnce
<1> QED  BY <1>1, <1>2, <1>3, <1>4, <1>5, <1>6 DEF Mishaps

(* Every step keeps the invariant. *)
LEMMA ExecNext == ExecInv /\ [Next]_vars => ExecInv'
<1> SUFFICES ASSUME ExecInv, [Next]_vars  PROVE ExecInv'
  OBVIOUS
<1>1. StillOnce
  <2>1. ASSUME NEW k \in Conns, Dies(k)  PROVE StillOnce
    <3>1. UNCHANGED <<status, ran, raced, client, creating, batch, pipe, cut>>
      BY <2>1 DEF Dies, database, history
    <3>2. gen' = [gen EXCEPT ![k] = "none"] /\ gen \in [Conns -> {"none", "opened", "live"}]
      BY <2>1 DEF Dies, ExecInv, IInv, TypeOK
    <3>3. ASSUME NEW l \in Conns
          PROVE  Range(queue'[l]) \subseteq Range(queue[l]) /\ (gen'[l] # "none" => gen[l] # "none")
      <4>1. queue'[l] \in {<<>>, queue[l]}
        BY <2>1 DEF Dies, ExecInv, IInv, TypeOK
      <4> QED  BY <3>2, <4>1, EmptyDistinct
    <3>4. ToBeQueued' \subseteq ToBeQueued
      BY <3>1, <3>3 DEF ToBeQueued
    <3>5. /\ OnTheWay' = OnTheWay /\ ByReader' = ByReader /\ ByQueue' \subseteq ByQueue
          /\ PolledUnsent'
      BY <3>1, <3>4 DEF OnTheWay, ByReader, ByQueue, PolledUnsent, ExecInv
    <3> QED  BY <3>1, <3>5, MishapOnce
  <2>2. CASE UNCHANGED vars
    <3>1. UNCHANGED <<status, ran, raced, client, creating, batch, pipe, cut, gen, queue>>
      BY <2>2 DEF vars, database, streams, history
    <3>2. /\ OnTheWay' = OnTheWay /\ ByReader' = ByReader /\ ByQueue' = ByQueue
          /\ PolledUnsent'
      BY <3>1 DEF OnTheWay, ByReader, ByQueue, ToBeQueued, PolledUnsent, ExecInv
    <3> QED  BY <3>1, <3>2, MishapOnce
  <2> QED  BY <2>1, <2>2, CreatesOnce, QueriesOnce, TakesOnce, PollsOnce, ClientOnce,
              MishapsOnce DEF Next, StreamStep
<1> QED  BY <1>1, InvNext, QueueNext DEF ExecInv, StillOnce, IInv

(* A command is executed once at most, over streams, polls, crashes and    *)
(* restarts of both sides, twice if a reader of the pending rows and the   *)
(* queue crossed (commands.py:42-238, commands_client.py:75-142).          *)
THEOREM ExecutesOnce == Spec => []ExecutedOnce
<1>1. ExecInv => ExecutedOnce
  <2> SUFFICES ASSUME ExecInv, NEW c \in Cmds  PROVE ran[c] <= IF c \in raced THEN 2 ELSE 1
    BY DEF ExecutedOnce
  <2>1. ran[c] \in Nat /\ ran[c] + One(c, ByReader) + One(c, ByQueue) <= 1 + One(c, raced)
    BY DEF ExecInv, IInv, TypeOK, Counted
  <2> QED  BY <2>1 DEF One
<1> QED  BY <1>1, ExecInit, ExecNext, PTL DEF Spec
=============================================================================
