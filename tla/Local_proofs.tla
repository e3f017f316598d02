---- MODULE Local_proofs ----
(***************************************************************************)
(* Theorems about parts of the local application: the way of its snapshots *)
(* to the server, the market that an order is sent to, the attempts of a   *)
(* call to KIS, the price stream, the execution notices, the price files   *)
(* that it takes from the server, its entry pass, and the profit that it   *)
(* reads off its log of orders.                                            *)
(***************************************************************************)
EXTENDS SnapshotSync, Routing, Broker, Streams, OrderStream, DatasetSync,
        Entries, Attribution, FiniteSetTheorems, SequenceTheorems,
        WellFoundedInduction, TLAPS

---------------------------------------------------------------------------
(* Finite sets and folds: the induction that the library's theorems do not *)
(* give without an operator as a parameter.                                *)

(* A member of a set of sets of which no other member is a part.           *)
IsSmallest(T, Sets) == T \in Sets /\ \A U \in Sets : U \subseteq T => U = T

(* A set of subsets of a finite set has a smallest one.                    *)
LEMMA SmallestSubset ==
  ASSUME NEW S, IsFiniteSet(S), NEW Bad \in SUBSET SUBSET S, Bad # {}
  PROVE  \E T : IsSmallest(T, Bad)
<1>1. Bad \subseteq FiniteSubsetsOf(S)
  BY FS_Subset DEF FiniteSubsetsOf
<1>2. IsWellFoundedOn(StrictSubsetOrdering(S), FiniteSubsetsOf(S))
  BY FS_StrictSubsetOrderingWellFounded
<1>3. PICK T \in Bad : \A U \in Bad : <<U, T>> \notin StrictSubsetOrdering(S)
  BY <1>1, <1>2, WFMin
<1>. QED
  BY <1>3 DEF StrictSubsetOrdering, IsSmallest

(* The largest of a finite set of integers is there.                       *)
LEMMA MaxIsThere ==
  ASSUME NEW S, IsFiniteSet(S), S \subseteq Int, S # {}
  PROVE  Max(S) \in S /\ \A x \in S : Max(S) >= x
<1> DEFINE Above(n) == {x \in S : x >= n}
<1> DEFINE All == {Above(m) : m \in S}
<1>1. All \subseteq SUBSET S /\ All # {}
  OBVIOUS
<1>2. PICK T : IsSmallest(T, All)
  <2> HIDE DEF All
  <2>1. All \in SUBSET SUBSET S /\ All # {}
    BY <1>1
  <2>. QED
    BY <2>1, SmallestSubset
<1>3. PICK n \in S : T = Above(n)
  BY <1>2 DEF IsSmallest
<1>4. ASSUME NEW m \in S PROVE n >= m
  <2>1. m \in Int /\ n \in Int
    OBVIOUS
  <2> SUFFICES ASSUME m > n PROVE FALSE
    BY <2>1
  <2>2. Above(m) \in All
    OBVIOUS
  <2>3. Above(m) \subseteq Above(n)
    <3> SUFFICES ASSUME NEW x \in S, x >= m PROVE x >= n
      OBVIOUS
    <3>1. x \in Int
      OBVIOUS
    <3>. QED
      BY <2>1, <3>1
  <2>4. Above(m) = Above(n)
    BY <2>2, <2>3, <1>2, <1>3 DEF IsSmallest
  <2>5. n \in Above(m)
    BY <2>4, <2>1
  <2>. QED
    BY <2>5, <2>1
<1>. QED
  BY <1>4 DEF Max

---------------------------------------------------------------------------
(* Folds over a sequence.                                                  *)

(* A set of numbers has a least one.                                       *)
LEMMA LeastNumber ==
  ASSUME NEW S, S \subseteq Nat, S # {}
  PROVE  \E n \in S : \A m \in S : n <= m
<1>1. PICK n \in S : \A m \in S : <<m, n>> \notin OpToRel(<, Nat)
  BY NatLessThanWellFounded, WFMin
<1>2. \A m \in S : n <= m
  <2> SUFFICES ASSUME NEW m \in S, m < n PROVE FALSE
    OBVIOUS
  <2>1. <<m, n>> \in Nat \X Nat /\ <<m, n>>[1] < <<m, n>>[2]
    OBVIOUS
  <2>. QED
    BY <1>1, <2>1 DEF OpToRel
<1>. QED
  BY <1>2

(* Of the sequences that lack something a shortest one is empty, or lacks  *)
(* it for its last element only.                                           *)
LEMMA ShortestSeq ==
  ASSUME NEW B, NEW Bad, Bad \subseteq Seq(B), Bad # {}
  PROVE  \E s \in Bad : \/ s = <<>>
                        \/ \E t \in Seq(B), x \in B : s = Append(t, x) /\ t \notin Bad
<1> DEFINE Lengths == {Len(s) : s \in Bad}
<1>1. Lengths \subseteq Nat /\ Lengths # {}
  <2>1. \A s \in Bad : Len(s) \in Nat
    BY LenProperties
  <2>. QED
    BY <2>1
<1>2. PICK n \in Lengths : \A m \in Lengths : n <= m
  <2> HIDE DEF Lengths
  <2>. QED
    BY <1>1, LeastNumber
<1>3. PICK s \in Bad : Len(s) = n
  OBVIOUS
<1>4. CASE s = <<>>
  BY <1>4
<1>5. CASE s # <<>>
  <2>1. PICK t \in Seq(B), x \in B : s = Append(t, x)
    BY <1>5, SequenceEmptyOrAppend
  <2>2. t \notin Bad
    <3> SUFFICES ASSUME t \in Bad PROVE FALSE
      OBVIOUS
    <3>1. Len(t) \in Lengths /\ Len(t) \in Nat /\ Len(s) = Len(t) + 1
      BY <2>1, AppendProperties, LenProperties
    <3> HIDE DEF Lengths
    <3>. QED
      BY <1>2, <1>3, <3>1
  <2>. QED
    BY <2>1, <2>2
<1>. QED
  BY <1>4, <1>5

(* The recursion by which a fold of a sequence is defined, with the step   *)
(* as a function of what was folded so far and the next element.           *)
IsFold(g, step, first, s) ==
  g = [T \in SUBSET DOMAIN s |->
         IF T = {} THEN first ELSE step[<<g[T \ {Max(T)}], s[Max(T)]>>]]

(* The largest place of some places of a sequence is one of them.          *)
LEMMA LastPlace ==
  ASSUME NEW B, NEW s \in Seq(B), NEW T \in SUBSET DOMAIN s, T # {}
  PROVE  /\ Max(T) \in T /\ T \ {Max(T)} \in SUBSET DOMAIN s
         /\ T \ {Max(T)} # T /\ s[Max(T)] \in B
         /\ \A i \in T : Max(T) >= i
<1>1. IsFiniteSet(DOMAIN s) /\ DOMAIN s \subseteq Int
  <2>1. DOMAIN s = 1..Len(s) /\ Len(s) \in Nat
    BY LenProperties
  <2>. QED
    BY <2>1, FS_Interval
<1>2. IsFiniteSet(T) /\ T \subseteq Int
  BY <1>1, FS_Subset
<1>3. Max(T) \in T /\ \A i \in T : Max(T) >= i
  BY <1>2, MaxIsThere
<1>4. s[Max(T)] \in B
  BY <1>3, LenProperties, ElementOfSeq
<1>. QED
  BY <1>3, <1>4

(* No two functions obey the recursion.                                    *)
LEMMA FoldsAreUnique ==
  ASSUME NEW B, NEW s \in Seq(B), NEW first, NEW step,
         NEW g, NEW h, IsFold(g, step, first, s), IsFold(h, step, first, s)
  PROVE  g = h
<1> DEFINE Bad == {T \in SUBSET DOMAIN s : g[T] # h[T]}
<1>1. DOMAIN g = SUBSET DOMAIN s /\ DOMAIN h = SUBSET DOMAIN s
  BY DEF IsFold
<1>2. CASE Bad # {}
  <2>1. Bad \in SUBSET SUBSET DOMAIN s /\ IsFiniteSet(DOMAIN s)
    <3>1. DOMAIN s = 1..Len(s) /\ Len(s) \in Nat
      BY LenProperties
    <3>. QED
      BY <3>1, FS_Interval
  <2>2. PICK T : IsSmallest(T, Bad)
    <3> HIDE DEF Bad
    <3>. QED
      BY <1>2, <2>1, SmallestSubset
  <2>3. T \in SUBSET DOMAIN s /\ g[T] # h[T]
    BY <2>2 DEF IsSmallest
  <2>4. CASE T = {}
    BY <2>3, <2>4 DEF IsFold
  <2>5. CASE T # {}
    <3> DEFINE U == T \ {Max(T)}
    <3>1. U \subseteq T /\ U # T /\ U \in SUBSET DOMAIN s
      BY <2>3, <2>5, LastPlace
    <3>2. g[U] = h[U]
      BY <2>2, <3>1 DEF IsSmallest
    <3>3. /\ g[T] = step[<<g[U], s[Max(T)]>>]
          /\ h[T] = step[<<h[U], s[Max(T)]>>]
      BY <2>3, <2>5 DEF IsFold
    <3>. QED
      BY <2>3, <3>2, <3>3
  <2>. QED
    BY <2>4, <2>5
<1>3. CASE Bad = {}
  <2>1. \A T \in SUBSET DOMAIN s : g[T] = h[T]
    BY <1>3
  <2>2. /\ g = [T \in SUBSET DOMAIN s |-> g[T]]
        /\ h = [T \in SUBSET DOMAIN s |-> h[T]]
    BY DEF IsFold
  <2>. QED
    BY <2>1, <2>2
<1>. QED
  BY <1>2, <1>3

(* A fold of a sequence with one element more is made from the fold of the *)
(* sequence.                                                               *)
Grown(g, step, s, x) ==
  [T \in SUBSET DOMAIN Append(s, x) |->
     IF Len(Append(s, x)) \notin T THEN g[T]
     ELSE step[<<g[T \ {Len(Append(s, x))}], x>>]]

(* What is made so obeys the recursion.                                    *)
LEMMA FoldGrows ==
  ASSUME NEW B, NEW s \in Seq(B), NEW x \in B, NEW first, NEW step,
         NEW g, IsFold(g, step, first, s)
  PROVE  /\ IsFold(Grown(g, step, s, x), step, first, Append(s, x))
         /\ Grown(g, step, s, x)[DOMAIN Append(s, x)] = step[<<g[DOMAIN s], x>>]
<1> DEFINE t == Append(s, x)
           n == Len(t)
           h == [T \in SUBSET DOMAIN t |->
                   IF n \notin T THEN g[T] ELSE step[<<g[T \ {n}], x>>]]
<1>1. /\ t \in Seq(B) /\ n = Len(s) + 1 /\ Len(s) \in Nat
      /\ DOMAIN s = 1..Len(s) /\ DOMAIN t = 1..n
      /\ t[n] = x /\ \A i \in DOMAIN s : t[i] = s[i]
  BY AppendProperties, LenProperties
<1>2. DOMAIN t \ {n} = DOMAIN s /\ n \in DOMAIN t
  BY <1>1
<1>3. ASSUME NEW T \in SUBSET DOMAIN t
      PROVE  h[T] = IF T = {} THEN first ELSE step[<<h[T \ {Max(T)}], t[Max(T)]>>]
  <2>1. CASE n \notin T
    <3>1. T \in SUBSET DOMAIN s /\ h[T] = g[T]
      BY <1>2, <2>1
    <3>2. CASE T = {}
      BY <3>1, <3>2 DEF IsFold
    <3>3. CASE T # {}
      <4> DEFINE U == T \ {Max(T)}
      <4>1. U \in SUBSET DOMAIN t /\ n \notin U /\ Max(T) \in DOMAIN s
        BY <2>1, <3>1, <3>3, LastPlace
      <4>2. h[U] = g[U] /\ t[Max(T)] = s[Max(T)]
        <5> HIDE DEF U
        <5>. QED
          BY <1>1, <4>1
      <4>3. g[T] = step[<<g[U], s[Max(T)]>>]
        BY <3>1, <3>3 DEF IsFold
      <4>. QED
        BY <3>1, <3>3, <4>2, <4>3
    <3>. QED
      BY <3>2, <3>3
  <2>2. CASE n \in T
    <3>1. Max(T) = n
      <4>1. Max(T) \in T /\ Max(T) >= n
        BY <1>1, <2>2, LastPlace
      <4>2. Max(T) \in 1..n
        BY <1>1, <4>1
      <4>. QED
        BY <1>1, <4>1, <4>2
    <3>2. h[T \ {n}] = g[T \ {n}]
      OBVIOUS
    <3>3. h[T] = step[<<g[T \ {n}], x>>]
      BY <2>2
    <3> HIDE DEF h, n, t
    <3>. QED
      BY <1>1, <2>2, <3>1, <3>2, <3>3
  <2>. QED
    BY <2>1, <2>2
<1>4. IsFold(h, step, first, t)
  <2>1. h = [T \in SUBSET DOMAIN t |-> h[T]]
    OBVIOUS
  <2> HIDE DEF h, t
  <2>. QED
    BY <1>3, <2>1 DEF IsFold
<1>5. h[DOMAIN t] = step[<<g[DOMAIN s], x>>]
  <2>1. h[DOMAIN t] = step[<<g[DOMAIN t \ {n}], x>>]
    BY <1>2
  <2>. QED
    BY <1>2, <2>1
<1>. QED
  BY <1>4, <1>5 DEF Grown

(* What a fold is of: there is one, and all that it makes is of a set that *)
(* the step does not leave.                                                *)
LEMMA FoldExists ==
  ASSUME NEW B, NEW A, NEW first \in A, NEW step, step \in [A \X B -> A],
         NEW s \in Seq(B)
  PROVE  \E g \in [SUBSET DOMAIN s -> A] : IsFold(g, step, first, s)
<1> DEFINE Has(u) == \E g \in [SUBSET DOMAIN u -> A] : IsFold(g, step, first, u)
           Bad == {u \in Seq(B) : ~Has(u)}
<1>1. Has(<<>>)
  <2> DEFINE g == [T \in SUBSET {} |-> first]
  <2>1. DOMAIN <<>> = {} /\ SUBSET {} = {{}}
    OBVIOUS
  <2>2. g \in [SUBSET DOMAIN <<>> -> A]
    BY <2>1
  <2>3. IsFold(g, step, first, <<>>)
    BY <2>1 DEF IsFold
  <2>. QED
    BY <2>2, <2>3
<1>2. ASSUME NEW u \in Seq(B), NEW x \in B, Has(u) PROVE Has(Append(u, x))
  <2>1. PICK g \in [SUBSET DOMAIN u -> A] : IsFold(g, step, first, u)
    BY <1>2
  <2> DEFINE t == Append(u, x)
             n == Len(t)
             h == Grown(g, step, u, x)
  <2>2. IsFold(h, step, first, t)
    BY <2>1, FoldGrows
  <2>3. DOMAIN t \ {n} = DOMAIN u
    <3>1. /\ n = Len(u) + 1 /\ Len(u) \in Nat
          /\ DOMAIN u = 1..Len(u) /\ DOMAIN t = 1..n
      BY AppendProperties, LenProperties
    <3>. QED
      BY <3>1
  <2>4. \A T \in SUBSET DOMAIN t : h[T] \in A
    <3> SUFFICES ASSUME NEW T \in SUBSET DOMAIN t PROVE h[T] \in A
      OBVIOUS
    <3>1. T \ {n} \in SUBSET DOMAIN u
      BY <2>3
    <3>2. g[T \ {n}] \in A /\ step[<<g[T \ {n}], x>>] \in A
      BY <3>1
    <3>. QED
      BY <3>1, <3>2 DEF Grown
  <2>5. h \in [SUBSET DOMAIN t -> A]
    <3>1. h = [T \in SUBSET DOMAIN t |-> h[T]]
      BY DEF Grown
    <3> HIDE DEF h
    <3>. QED
      BY <2>4, <3>1
  <2>. QED
    <3> HIDE DEF h
    <3>. QED
      BY <2>2, <2>5
<1>3. Bad = {}
  <2> SUFFICES ASSUME Bad # {} PROVE FALSE
    OBVIOUS
  <2>1. Bad \subseteq Seq(B)
    OBVIOUS
  <2>2. PICK u \in Bad : \/ u = <<>>
                         \/ \E t \in Seq(B), x \in B : u = Append(t, x) /\ t \notin Bad
    <3> HIDE DEF Bad
    <3>. QED
      BY <2>1, ShortestSeq
  <2>3. CASE u = <<>>
    <3>1. ~Has(u)
      OBVIOUS
    <3> HIDE DEF Has
    <3>. QED
      BY <1>1, <2>3, <3>1
  <2>4. ASSUME NEW t \in Seq(B), NEW x \in B, u = Append(t, x), t \notin Bad PROVE FALSE
    <3>1. ~Has(u) /\ Has(t)
      BY <2>4
    <3> HIDE DEF Has
    <3>. QED
      BY <1>2, <2>4, <3>1
  <2>. QED
    BY <2>2, <2>3, <2>4
<1>. QED
  BY <1>3

(* The fold of a sequence by a step.                                       *)
FoldOf(step, first, s) == FoldLeft(LAMBDA a, x : step[<<a, x>>], first, s)

(* It is that of any function that obeys the recursion.                    *)
LEMMA FoldOfIs ==
  ASSUME NEW B, NEW s \in Seq(B), NEW first, NEW step,
         NEW g, IsFold(g, step, first, s)
  PROVE  FoldOf(step, first, s) = g[DOMAIN s]
<1> DEFINE h == CHOOSE k : IsFold(k, step, first, s)
<1>1. FoldOf(step, first, s) = h[DOMAIN s]
  BY DEF FoldOf, FoldLeft, MapThenFoldSet, IsFold
<1>2. IsFold(h, step, first, s)
  OBVIOUS
<1> HIDE DEF h
<1>3. g = h
  BY <1>2, FoldsAreUnique
<1>. QED
  BY <1>1, <1>3

(* It is of the set.                                                       *)
LEMMA FoldOfIn ==
  ASSUME NEW B, NEW A, NEW first \in A, NEW step, step \in [A \X B -> A],
         NEW s \in Seq(B)
  PROVE  FoldOf(step, first, s) \in A
<1>1. PICK k \in [SUBSET DOMAIN s -> A] : IsFold(k, step, first, s)
  BY FoldExists
<1>2. FoldOf(step, first, s) = k[DOMAIN s]
  BY <1>1, FoldOfIs
<1>. QED
  BY <1>2

(* The fold of no element.                                                 *)
LEMMA FoldOfNone ==
  ASSUME NEW B, NEW A, NEW first \in A, NEW step, step \in [A \X B -> A]
  PROVE  FoldOf(step, first, <<>>) = first
<1>1. PICK e \in Seq(B) : e = <<>> /\ DOMAIN e = {}
  <2>1. <<>> \in Seq(B)
    BY EmptySeq
  <2>2. DOMAIN <<>> = {}
    OBVIOUS
  <2>. QED
    BY <2>1, <2>2
<1>2. PICK g \in [SUBSET DOMAIN e -> A] : IsFold(g, step, first, e)
  BY FoldExists
<1>3. g[{}] = first
  BY <1>1, <1>2 DEF IsFold
<1>4. FoldOf(step, first, e) = g[DOMAIN e]
  BY <1>2, FoldOfIs
<1>. QED
  BY <1>1, <1>3, <1>4

(* What may be folded: from members of A and of B the step makes one of A. *)
IsStep(step, A, B) == step \in [A \X B -> A]

(* The fold of a sequence with one element more.                           *)
LEMMA FoldOfMore ==
  ASSUME NEW B, NEW A, NEW first \in A, NEW step, IsStep(step, A, B),
         NEW s \in Seq(B), NEW x \in B
  PROVE  FoldOf(step, first, Append(s, x)) = step[<<FoldOf(step, first, s), x>>]
<1>1. PICK g \in [SUBSET DOMAIN s -> A] : IsFold(g, step, first, s)
  BY FoldExists DEF IsStep
<1> DEFINE t == Append(s, x)
<1>2. PICK h : IsFold(h, step, first, t) /\ h[DOMAIN t] = step[<<g[DOMAIN s], x>>]
  <2>1. /\ IsFold(Grown(g, step, s, x), step, first, t)
        /\ Grown(g, step, s, x)[DOMAIN t] = step[<<g[DOMAIN s], x>>]
    BY <1>1, FoldGrows
  <2>. QED
    BY <2>1
<1>3. t \in Seq(B)
  BY AppendProperties
<1> HIDE DEF t
<1>4. FoldOf(step, first, t) = h[DOMAIN t]
  BY <1>2, <1>3, FoldOfIs
<1>5. FoldOf(step, first, s) = g[DOMAIN s]
  BY <1>1, FoldOfIs
<1>. QED
  BY <1>2, <1>4, <1>5 DEF t

(* The recursion, as far as it is known that what was folded is in A.       *)
FoldsIn(h, A, step, first, s) ==
  /\ h[{}] = first
  /\ \A T \in SUBSET DOMAIN s : T # {} /\ h[T \ {Max(T)}] \in A =>
       h[T] = step[<<h[T \ {Max(T)}], s[Max(T)]>>]

(* A function that is given by it is the fold.                             *)
LEMMA FoldGiven ==
  ASSUME NEW B, NEW A, NEW first \in A, NEW step, IsStep(step, A, B),
         NEW s \in Seq(B), NEW h, FoldsIn(h, A, step, first, s)
  PROVE  h[DOMAIN s] = FoldOf(step, first, s)
<1>1. PICK g \in [SUBSET DOMAIN s -> A] : IsFold(g, step, first, s)
  BY FoldExists DEF IsStep
<1>2. FoldOf(step, first, s) = g[DOMAIN s]
  BY <1>1, FoldOfIs
<1> DEFINE Bad == {T \in SUBSET DOMAIN s : h[T] # g[T]}
<1>3. CASE Bad # {}
  <2>1. PICK T : IsSmallest(T, Bad)
    <3>1. Bad \in SUBSET SUBSET DOMAIN s
      OBVIOUS
    <3>2. IsFiniteSet(DOMAIN s)
      <4>1. DOMAIN s = 1..Len(s) /\ Len(s) \in Nat
        BY LenProperties
      <4>. QED
        BY <4>1, FS_Interval
    <3> HIDE DEF Bad
    <3>. QED
      BY <1>3, <3>1, <3>2, SmallestSubset
  <2>2. T \in SUBSET DOMAIN s /\ h[T] # g[T]
    BY <2>1 DEF IsSmallest
  <2>3. g[{}] = first /\ h[{}] = first
    BY <1>1 DEF IsFold, FoldsIn
  <2>4. T # {}
    BY <2>2, <2>3
  <2> DEFINE U == T \ {Max(T)}
  <2>5. U \in SUBSET DOMAIN s /\ U # T /\ U \subseteq T
    BY <2>2, <2>4, LastPlace
  <2>6. h[U] = g[U]
    <3>1. U \notin Bad
      <4> HIDE DEF U, Bad
      <4>. QED
        BY <2>1, <2>5 DEF IsSmallest
    <3>. QED
      BY <2>5, <3>1
  <2>7. g[T] = step[<<g[U], s[Max(T)]>>]
    BY <1>1, <2>2, <2>4 DEF IsFold
  <2>8. g[U] \in A
    <3> HIDE DEF U
    <3>. QED
      BY <1>1, <2>5
  <2>9. h[T] = step[<<h[U], s[Max(T)]>>]
    BY <2>2, <2>4, <2>6, <2>8 DEF FoldsIn
  <2>. QED
    BY <2>2, <2>6, <2>7, <2>9
<1>4. CASE Bad = {}
  <2>1. DOMAIN s \in SUBSET DOMAIN s
    OBVIOUS
  <2>. QED
    BY <1>2, <1>4, <2>1
<1>. QED
  BY <1>3, <1>4

---------------------------------------------------------------------------
(* The snapshots.                                                          *)

(* A thread that is about to remove the file has delivered what it read.   *)
SentFirst ==
  /\ \A r \in Pushers : run[r].pc = "unlinking" => run[r].hold \in stored
  /\ retry.pc = "unlinking" => retry.hold \in stored

(* Whatever a thread holds was taken.                                      *)
HeldTaken ==
  /\ \A r \in Pushers :
       /\ run[r].hold <= taken
       /\ run[r].pc \in {"flushing", "unlinking", "pushing", "saving"} => run[r].hold # 0
       /\ run[r].pc \in {"flushing", "unlinking", "saving"} => r \in Cycles
  /\ retry.hold <= taken
  /\ retry.pc \in {"sending", "unlinking"} => retry.hold # 0

SyncInv == SyncTypeOK /\ SentFirst /\ HeldTaken /\ NothingLostSilently

States == [pc : {"idle", "flushing", "unlinking", "working", "pushing", "saving"},
           hold : 0..MaxTaken]

LEMMA SyncStarts == SyncInit => SyncInv
BY SyncAssumption
   DEF SyncInit, SyncInv, SyncTypeOK, SentFirst, HeldTaken, NothingLostSilently,
       Idle, RetryOff, Version

(* What a snapshot needs to stay accounted for in a step: it is stored, or *)
(* in the file, or in a hand, or its fate is written.                      *)
LEMMA StaysAccounted ==
  ASSUME SyncInv, stored \subseteq stored', taken' = taken,
         \A v \in Version : fate[v] # "none" => fate'[v] # "none",
         \A v \in 1..taken : v = pending =>
            v \in stored' \/ v = pending' \/ fate'[v] # "none",
         \A v \in 1..taken, r \in Pushers :
            run[r].pc \in {"pushing", "saving"} /\ run[r].hold = v =>
            \/ v \in stored' \/ v = pending' \/ fate'[v] # "none"
            \/ run'[r].pc \in {"pushing", "saving"} /\ run'[r].hold = v
  PROVE  NothingLostSilently'
<1> SUFFICES ASSUME NEW v \in 1..taken, fate'[v] = "none",
                    v \notin stored', v # pending'
             PROVE  v \in Hands'
  BY DEF NothingLostSilently
<1>1. v \in Version
  BY SyncAssumption DEF SyncInv, SyncTypeOK, Version
<1>2. fate[v] = "none" /\ v \notin stored
  BY <1>1
<1>3. v \in Hands
  BY <1>2 DEF SyncInv, NothingLostSilently
<1>4. PICK r \in Pushers : run[r].pc \in {"pushing", "saving"} /\ run[r].hold = v
  BY <1>3 DEF Hands
<1>5. run'[r].pc \in {"pushing", "saving"} /\ run'[r].hold = v
  BY <1>4
<1> QED  BY <1>5 DEF Hands

(* The fates after a loss.                                                 *)
LEMMA LosesEffect ==
  ASSUME SyncTypeOK, NEW vs, NEW why \in {"raced", "replaced", "notice", "crashed"},
         Loses(vs, why)
  PROVE  /\ fate' \in [Version -> {"none", "raced", "replaced", "notice", "crashed"}]
         /\ \A v \in Version : fate[v] # "none" => fate'[v] # "none"
         /\ \A v \in Version : v \in vs => v \in stored' \/ fate'[v] # "none"
BY DEF SyncTypeOK, Loses

LEMMA SyncStep == SyncInv /\ [SyncNext]_syncVars => SyncInv'
<1> SUFFICES ASSUME SyncInv, [SyncNext]_syncVars  PROVE SyncInv'
  OBVIOUS
<1> USE SyncAssumption
<1>0. /\ taken \in 0..MaxTaken /\ pending \in 0..taken
      /\ run \in [Pushers -> States] /\ stored \subseteq 1..taken
      /\ retry \in [pc : {"off", "waiting", "sending", "unlinking"}, hold : 0..MaxTaken]
      /\ SyncTypeOK
  BY DEF SyncInv, SyncTypeOK, States
<1>1. ASSUME NEW r \in Cycles, RunStarts(r)  PROVE SyncInv'
  <2>1. run' \in [Pushers -> States]
    BY <1>0, <1>1 DEF RunStarts, States, Pushers
  <2>2. NothingLostSilently'
    BY <1>0, <1>1, StaysAccounted DEF RunStarts, Pushers, States
  <2> QED  BY <1>0, <1>1, <2>1, <2>2
           DEF RunStarts, SyncInv, SyncTypeOK, SentFirst, HeldTaken, States, Pushers
<1>2. ASSUME NEW r \in Cycles, FlushSends(r)  PROVE SyncInv'
  <2>1. run' \in [Pushers -> States] /\ stored \subseteq stored' /\ stored' \subseteq 1..taken
    BY <1>0, <1>2 DEF FlushSends, Sends, States, SyncInv, HeldTaken, Pushers
  <2>2. NothingLostSilently'
    BY <1>0, <1>2, <2>1, StaysAccounted DEF FlushSends, Pushers, States
  <2> QED  BY <1>0, <1>2, <2>1, <2>2
           DEF FlushSends, Sends, SyncInv, SyncTypeOK, SentFirst, HeldTaken, States, Pushers
<1>3. ASSUME NEW r \in Cycles, FlushUnlinks(r)  PROVE SyncInv'
  <2>1. run' \in [Pushers -> States]
    BY <1>0, <1>3 DEF FlushUnlinks, States, Pushers
  <2>2. Loses({pending} \ {0, run[r].hold}, "raced") /\ pending' = 0
    BY <1>3 DEF FlushUnlinks, Unlinks
  <2>3. run[r].hold \in stored /\ stored' = stored
    BY <1>3 DEF FlushUnlinks, SyncInv, SentFirst, Pushers
  <2>4. NothingLostSilently'
    <3>1. \A v \in 1..taken : v = pending => v \in stored' \/ fate'[v] # "none"
      BY <1>0, <2>2, <2>3, LosesEffect DEF Version
    <3>2. \A v \in Version : fate[v] # "none" => fate'[v] # "none"
      BY <1>0, <2>2, LosesEffect
    <3>3. \A q \in Pushers : run[q].pc \in {"pushing", "saving"} => run'[q] = run[q]
      BY <1>0, <1>3 DEF FlushUnlinks, Pushers
    <3> QED  BY <1>0, <1>3, <2>3, <3>1, <3>2, <3>3, StaysAccounted DEF FlushUnlinks
  <2>5. fate' \in [Version -> {"none", "raced", "replaced", "notice", "crashed"}]
    BY <1>0, <2>2, LosesEffect
  <2> QED  BY <1>0, <1>3, <2>1, <2>2, <2>3, <2>4, <2>5
           DEF FlushUnlinks, SyncInv, SyncTypeOK, SentFirst, HeldTaken, States, Pushers
<1>4. ASSUME NEW r \in Cycles, RunEndsEarly(r)  PROVE SyncInv'
  <2>1. run' \in [Pushers -> States]
    BY <1>0, <1>4 DEF RunEndsEarly, States, Idle, Pushers
  <2>2. NothingLostSilently'
    BY <1>0, <1>4, StaysAccounted DEF RunEndsEarly, Pushers, States
  <2> QED  BY <1>0, <1>4, <2>1, <2>2
           DEF RunEndsEarly, SyncInv, SyncTypeOK, SentFirst, HeldTaken, States, Pushers, Idle
<1>5. ASSUME NEW p \in Pushers, Takes(p)  PROVE SyncInv'
  <2>1. run' \in [Pushers -> States] /\ taken + 1 \in Version
    BY <1>0, <1>5 DEF Takes, States, Version
  <2>2. NothingLostSilently'
    <3> SUFFICES ASSUME NEW v \in 1..(taken + 1), fate[v] = "none",
                        v \notin stored, v # pending
                 PROVE  v \in Hands'
      BY <1>5 DEF Takes, NothingLostSilently
    <3>1. CASE v = taken + 1
      <4>1. run'[p].pc = "pushing" /\ run'[p].hold = v
        BY <1>0, <1>5, <3>1 DEF Takes
      <4> QED  BY <4>1 DEF Hands
    <3>2. CASE v \in 1..taken
      <4>1. v \in Hands
        BY <3>2 DEF SyncInv, NothingLostSilently
      <4>2. PICK q \in Pushers : run[q].pc \in {"pushing", "saving"} /\ run[q].hold = v
        BY <4>1 DEF Hands
      <4>3. q # p
        BY <1>5, <4>2 DEF Takes
      <4>4. run'[q] = run[q]
        BY <1>0, <1>5, <4>3 DEF Takes
      <4> QED  BY <4>2, <4>4 DEF Hands
    <3> QED  BY <1>0, <3>1, <3>2
  <2> QED  BY <1>0, <1>5, <2>1, <2>2
           DEF Takes, SyncInv, SyncTypeOK, SentFirst, HeldTaken, States
<1>6. ASSUME NEW p \in Pushers, Pushes(p)  PROVE SyncInv'
  <2>1. run' \in [Pushers -> States] /\ stored \subseteq stored' /\ stored' \subseteq 1..taken
    BY <1>0, <1>6 DEF Pushes, Sends, States, Idle, SyncInv, HeldTaken
  <2>2. /\ fate' \in [Version -> {"none", "raced", "replaced", "notice", "crashed"}]
        /\ \A v \in Version : fate[v] # "none" => fate'[v] # "none"
    <3>1. CASE p \in Notices
      <4>1. Loses({run[p].hold}, "notice")
        BY <1>6, <3>1 DEF Pushes
      <4> QED  BY <1>0, <4>1, LosesEffect
    <3>2. CASE p \notin Notices
      BY <1>0, <1>6, <3>2 DEF Pushes, SyncTypeOK
    <3> QED  BY <3>1, <3>2
  <2>3. NothingLostSilently'
    <3>1. \A q \in Pushers \ {p} : run'[q] = run[q]
      BY <1>0, <1>6 DEF Pushes
    <3>2. \/ run[p].hold \in stored' \/ fate'[run[p].hold] # "none"
          \/ run'[p].pc = "saving" /\ run'[p].hold = run[p].hold
      <4>1. CASE p \in Notices
        <5>1. Loses({run[p].hold}, "notice") /\ run[p].hold \in Version
          BY <1>0, <1>6, <4>1 DEF Pushes, SyncInv, HeldTaken, Version, States
        <5> QED  BY <1>0, <5>1, LosesEffect
      <4>2. CASE p \notin Notices
        BY <1>0, <1>6, <4>2 DEF Pushes, Sends, States
      <4> QED  BY <4>1, <4>2
    <3>3. taken' = taken /\ pending' = pending
      BY <1>6 DEF Pushes
    <3> QED  BY <1>0, <2>1, <2>2, <3>1, <3>2, <3>3, StaysAccounted
  <2>4. HeldTaken' /\ SentFirst'
    BY <1>0, <1>6, <2>1 DEF Pushes, SyncInv, SentFirst, HeldTaken, Idle, States, Pushers
  <2> QED  BY <1>0, <1>6, <2>1, <2>2, <2>3, <2>4
           DEF Pushes, SyncInv, SyncTypeOK, States
<1>7. ASSUME NEW r \in Cycles, SavesPayload(r)  PROVE SyncInv'
  <2>1. run' \in [Pushers -> States] /\ pending' = run[r].hold /\ stored' = stored
    BY <1>0, <1>7 DEF SavesPayload, States, Idle, Pushers
  <2>2. Loses({pending} \ {0}, "replaced")
    BY <1>7 DEF SavesPayload
  <2>3. NothingLostSilently'
    <3>1. \A v \in 1..taken : v = pending => v \in stored' \/ fate'[v] # "none"
      BY <1>0, <2>2, LosesEffect DEF Version
    <3>2. \A v \in Version : fate[v] # "none" => fate'[v] # "none"
      BY <1>0, <2>2, LosesEffect
    <3>3. \A q \in Pushers \ {r} : run'[q] = run[q]
      BY <1>0, <1>7 DEF SavesPayload
    <3> QED  BY <1>0, <1>7, <2>1, <3>1, <3>2, <3>3, StaysAccounted DEF SavesPayload
  <2>4. fate' \in [Version -> {"none", "raced", "replaced", "notice", "crashed"}]
    BY <1>0, <2>2, LosesEffect
  <2> QED  BY <1>0, <1>7, <2>1, <2>3, <2>4
           DEF SavesPayload, SyncInv, SyncTypeOK, SentFirst, HeldTaken, States, Pushers, Idle
<1>8. CASE RetryStarts \/ RetryReads \/ RetryKeepsFile
  <2>1. retry' \in [pc : {"off", "waiting", "sending", "unlinking"}, hold : 0..MaxTaken]
    BY <1>0, <1>8 DEF RetryStarts, RetryReads, RetryKeepsFile
  <2>2. UNCHANGED <<taken, pending, run, stored, fate>>
    BY <1>8 DEF RetryStarts, RetryReads, RetryKeepsFile
  <2>3. NothingLostSilently'
    BY <2>2, StaysAccounted
  <2> QED  BY <1>0, <1>8, <2>1, <2>2, <2>3
           DEF RetryStarts, RetryReads, RetryKeepsFile, SyncInv, SyncTypeOK, SentFirst, HeldTaken
<1>9. CASE RetryFails \/ RetrySends
  <2>1. /\ retry' \in [pc : {"off", "waiting", "sending", "unlinking"}, hold : 0..MaxTaken]
        /\ stored \subseteq stored' /\ stored' \subseteq 1..taken
        /\ UNCHANGED <<taken, pending, run, fate>>
    BY <1>0, <1>9 DEF RetryFails, RetrySends, Sends, SyncInv, HeldTaken
  <2>2. NothingLostSilently'
    BY <2>1, StaysAccounted
  <2> QED  BY <1>0, <1>9, <2>1, <2>2
           DEF RetryFails, RetrySends, Sends, SyncInv, SyncTypeOK, SentFirst, HeldTaken
<1>10. CASE RetryUnlinks
  <2>1. Loses({pending} \ {0, retry.hold}, "raced") /\ pending' = 0
    BY <1>10 DEF RetryUnlinks, Unlinks
  <2>2. retry.hold \in stored /\ UNCHANGED <<taken, run, stored>>
    BY <1>10 DEF RetryUnlinks, SyncInv, SentFirst
  <2>3. NothingLostSilently'
    <3>1. \A v \in 1..taken : v = pending => v \in stored' \/ fate'[v] # "none"
      BY <1>0, <2>1, <2>2, LosesEffect DEF Version
    <3>2. \A v \in Version : fate[v] # "none" => fate'[v] # "none"
      BY <1>0, <2>1, LosesEffect
    <3> QED  BY <1>0, <2>2, <3>1, <3>2, StaysAccounted
  <2>4. fate' \in [Version -> {"none", "raced", "replaced", "notice", "crashed"}]
    BY <1>0, <2>1, LosesEffect
  <2> QED  BY <1>0, <1>10, <2>1, <2>2, <2>3, <2>4
           DEF RetryUnlinks, SyncInv, SyncTypeOK, SentFirst, HeldTaken
<1>11. CASE Dies
  <2>1. Loses(Hands, "crashed") /\ UNCHANGED <<taken, pending, stored>>
    BY <1>11 DEF Dies
  <2>2. NothingLostSilently'
    <3>1. \A v \in 1..taken, r \in Pushers :
            run[r].pc \in {"pushing", "saving"} /\ run[r].hold = v =>
            v \in stored' \/ fate'[v] # "none"
      BY <1>0, <2>1, LosesEffect DEF Hands, Version
    <3>2. \A v \in Version : fate[v] # "none" => fate'[v] # "none"
      BY <1>0, <2>1, LosesEffect
    <3> QED  BY <1>0, <2>1, <3>1, <3>2, StaysAccounted
  <2>3. fate' \in [Version -> {"none", "raced", "replaced", "notice", "crashed"}]
    BY <1>0, <2>1, LosesEffect
  <2>4. run' = [p \in Pushers |-> Idle] /\ retry' = RetryOff
    BY <1>11 DEF Dies
  <2> QED  BY <1>0, <2>1, <2>2, <2>3, <2>4
           DEF SyncInv, SyncTypeOK, SentFirst, HeldTaken, Idle, RetryOff
<1>12. CASE UNCHANGED syncVars
  BY <1>12 DEF syncVars, SyncInv, SyncTypeOK, SentFirst, HeldTaken, NothingLostSilently, Hands
<1> QED
  BY <1>1, <1>2, <1>3, <1>4, <1>5, <1>6, <1>7, <1>8, <1>9, <1>10, <1>11, <1>12 DEF SyncNext

(* No snapshot is lost without a reason, whichever of the cycles, the      *)
(* notices and the retry thread read, replace or remove the pending file   *)
(* between the steps of another (sync_client.py, sync_retry.py:40-60).     *)
THEOREM LostWithCause == SyncSpec => []NothingLostSilently
<1>1. SyncInv => NothingLostSilently
  BY DEF SyncInv
<1> QED  BY SyncStarts, SyncStep, <1>1, PTL DEF SyncSpec

(* Type correctness of the sending of snapshots. *)
THEOREM SyncTypeCorrect == SyncSpec => []SyncTypeOK
<1>1. SyncInv => SyncTypeOK
  BY DEF SyncInv
<1> QED  BY SyncStarts, SyncStep, <1>1, PTL DEF SyncSpec

---------------------------------------------------------------------------
(* The market of an order.                                                 *)

RouteTypeOK ==
  /\ mem \subseteq Exchanges
  /\ master \subseteq Exchanges
  /\ loader \in [Loaders -> {"rest", "down"}]
  /\ order \in [Stocks -> [pc : {"none", "considered", "reserved", "sent"},
                           at : Exchanges \cup {"none", "KRX", "US"}]]
  /\ unsure \subseteq Stocks /\ dropped \subseteq Stocks

(* The stock of an order to be reserved was in the index, and is still, or *)
(* a download has dropped its exchange.                                    *)
ReservedKnown ==
  \A s \in Stocks : order[s].pc = "reserved" => Known(s) \/ s \in dropped

RouteInv == RouteTypeOK /\ ReservedKnown /\ RoutedHome

LEMMA RouteStarts == RouteInit => RouteInv
BY DEF RouteInit, RouteInv, RouteTypeOK, ReservedKnown, RoutedHome

LEMMA RouteStep == RouteInv /\ [RouteNext]_routeVars => RouteInv'
<1> SUFFICES ASSUME RouteInv, [RouteNext]_routeVars  PROVE RouteInv'
  OBVIOUS
<1> USE RoutingAssumption DEF RouteInv, RouteTypeOK, ReservedKnown, Known
<1>1. CASE Restarts
  <2>1. /\ mem' \subseteq Exchanges /\ master' \subseteq Exchanges
        /\ loader' \in [Loaders -> {"rest", "down"}] /\ unsure' = unsure
        /\ dropped' = dropped
    BY <1>1 DEF Restarts
  <2>2. \A s \in Stocks : order'[s] = IF order[s].pc = "sent" THEN order[s]
                                      ELSE [pc |-> "none", at |-> "none"]
    BY <1>1 DEF Restarts
  <2>3. order' \in [Stocks -> [pc : {"none", "considered", "reserved", "sent"},
                              at : Exchanges \cup {"none", "KRX", "US"}]]
    BY <1>1, <2>2 DEF Restarts
  <2> QED  BY <2>1, <2>2, <2>3 DEF RoutedHome
<1>2. ASSUME NEW l \in Loaders, Loads(l)  PROVE RouteInv'
  BY <1>2 DEF Loads, RoutedHome
<1>3. ASSUME NEW l \in Loaders, Downloads(l)  PROVE RouteInv'
  <2>1. PICK got \in SUBSET Exchanges :
          IF got = {} THEN UNCHANGED <<mem, master, dropped>>
          ELSE /\ mem' = got
               /\ master' \in {got, master}
               /\ dropped' = dropped \cup {s \in Stocks : /\ order[s].pc = "reserved"
                                                       /\ s.home \in mem \ got}
    BY <1>3 DEF Downloads
  <2>2. UNCHANGED <<order, unsure>> /\ loader' \in [Loaders -> {"rest", "down"}]
    BY <1>3 DEF Downloads
  <2>3. /\ mem' \subseteq Exchanges /\ master' \subseteq Exchanges
        /\ dropped \subseteq dropped' /\ dropped' \subseteq Stocks
    BY <2>1
  <2>4. ReservedKnown'
    BY <2>1, <2>2
  <2>5. RoutedHome'
    BY <2>2, <2>3 DEF RoutedHome
  <2> QED  BY <2>2, <2>3, <2>4, <2>5
<1>4. ASSUME NEW s \in Stocks, Considers(s)  PROVE RouteInv'
  BY <1>4 DEF Considers, RoutedHome
<1>5. ASSUME NEW s \in Stocks, Submits(s)  PROVE RouteInv'
  <2>1. s.home \in Exchanges \cup {"KRX"} /\ (s.form = "code" => s.home = "KRX")
        /\ s.form \in {"code", "ticker", "class"} /\ (s.form # "code" => s.home \in Exchanges)
    BY DEF AllStocks
  <2>2. CASE DetectMarket(s) = "blocked"
    BY <1>5, <2>1, <2>2 DEF Submits, RoutedHome, Known
  <2>3. CASE DetectMarket(s) # "blocked"
    <3>1. order' = [order EXCEPT ![s] = [pc |-> "sent", at |-> DetectMarket(s)]]
      BY <1>5, <2>3 DEF Submits
    <3>2. DetectMarket(s) \in Exchanges \cup {"KRX"}
      BY <2>1, <2>3 DEF DetectMarket, Known
    <3>3. DetectMarket(s) = s.home \/ (s.form = "class" /\ s \in unsure')
      BY <1>5, <2>1, <2>3 DEF DetectMarket, Known, Submits
    <3>4. \A t \in Stocks \ {s} : order'[t] = order[t] /\ (t \in unsure => t \in unsure')
                               /\ (t \in dropped => t \in dropped')
      BY <1>5, <3>1 DEF Submits
    <3>5. order'[s] = [pc |-> "sent", at |-> DetectMarket(s)]
      BY <3>1
    <3>6. RoutedHome'
      BY <3>3, <3>4, <3>5 DEF RoutedHome
    <3> QED  BY <1>5, <3>1, <3>2, <3>6 DEF Submits
  <2> QED  BY <2>2, <2>3
<1>6. ASSUME NEW s \in Stocks, RouteEnds(s)  PROVE RouteInv'
  BY <1>6 DEF RouteEnds, RoutedHome
<1>7. ASSUME NEW s \in Stocks, Reserves(s)  PROVE RouteInv'
  BY <1>7 DEF Reserves, RoutedHome
<1>8. ASSUME NEW s \in Stocks, SubmitsReserved(s)  PROVE RouteInv'
  <2>1. s.home \in Exchanges \cup {"KRX"}
    BY DEF AllStocks
  <2>2. ReservedAt(s) \in Exchanges \cup {"KRX"}
    BY <2>1 DEF ReservedAt
  <2>3. order' = [order EXCEPT ![s] = [pc |-> "sent", at |-> ReservedAt(s)]]
    BY <1>8 DEF SubmitsReserved
  <2>4. order'[s] = [pc |-> "sent", at |-> ReservedAt(s)] /\ \A t \in Stocks \ {s} : order'[t] = order[t]
    BY <2>3
  <2>5. ReservedAt(s) = s.home \/ s \in dropped'
    BY <1>8 DEF SubmitsReserved, ReservedAt
  <2>6. dropped' = dropped /\ unsure' = unsure \ {s} /\ UNCHANGED <<mem, master, loader>>
    BY <1>8 DEF SubmitsReserved
  <2>7. RoutedHome'
    BY <2>4, <2>5, <2>6 DEF RoutedHome
  <2> QED  BY <2>2, <2>3, <2>4, <2>6, <2>7
<1>9. CASE UNCHANGED routeVars
  BY <1>9 DEF routeVars, RoutedHome
<1> QED
  BY <1>1, <1>2, <1>3, <1>4, <1>5, <1>6, <1>7, <1>8, <1>9 DEF RouteNext

(* An order is sent to the market of its stock or not at all, for every    *)
(* part of the US index that was downloaded or lost, except that of a      *)
(* class share that the index lacks (kis_broker.py:369-391), and a         *)
(* reserved one whose exchange an overlapping download drops between its   *)
(* two lookups (trader.py:433-439, kis_broker.py:649-661).                 *)
THEOREM RoutedToMarket == RouteSpec => []RoutedHome
<1>1. RouteInv => RoutedHome
  BY DEF RouteInv
<1> QED  BY RouteStarts, RouteStep, <1>1, PTL DEF RouteSpec

---------------------------------------------------------------------------
(* The attempts of a call.                                                 *)

(* Every thread has a call, whatever its times, and no order was made of   *)
(* it before its last attempt.                                             *)
CallShape ==
  /\ DOMAIN call = Threads
  /\ \A t \in Threads : "pc" \in DOMAIN call[t]

PostInv ==
  /\ CallShape
  /\ created \in [Threads -> {0, 1}]
  /\ \A t \in Threads : call[t].pc # "idle" => created[t] = 0

LEMMA PostStarts == BrokerInit => PostInv
BY DEF BrokerInit, PostInv, CallShape, NoCall

LEMMA PostStep == PostInv /\ [BrokerNext]_brokerVars => PostInv'
<1> SUFFICES ASSUME PostInv, [BrokerNext]_brokerVars  PROVE PostInv'
  OBVIOUS
<1>1. CASE Tick
  <2>1. DOMAIN call' = Threads /\ created' = created
    BY <1>1 DEF Tick
  <2>2. ASSUME NEW t \in Threads
        PROVE  "pc" \in DOMAIN call'[t] /\ call'[t].pc = call[t].pc
    <3> DEFINE w == IF call[t].wait = 0 THEN 0 ELSE call[t].wait - 1
    <3>1. call'[t] = [call[t] EXCEPT !.wait = w]
      BY <1>1 DEF Tick
    <3> HIDE DEF w
    <3> QED  BY <3>1 DEF PostInv, CallShape
  <2> QED  BY <2>1, <2>2 DEF PostInv, CallShape
<1>2. ASSUME NEW t \in Threads, NEW next,
             call' = [call EXCEPT ![t] = next], "pc" \in DOMAIN next,
             created' \in [Threads -> {0, 1}],
             \A u \in Threads \ {t} : created'[u] = created[u],
             next.pc # "idle" => created'[t] = 0
      PROVE  PostInv'
  <2>1. /\ DOMAIN call' = Threads
        /\ call'[t] = next /\ \A u \in Threads \ {t} : call'[u] = call[u]
    BY <1>2 DEF PostInv, CallShape
  <2> QED  BY <1>2, <2>1 DEF PostInv, CallShape
<1>3. ASSUME NEW t \in Threads, Calls(t)  PROVE PostInv'
  <2>1. PICK kind \in {"get", "post"} :
          call' = [call EXCEPT ![t] = [NoCall EXCEPT !.pc = "acquire", !.kind = kind]]
    BY <1>3 DEF Calls
  <2> DEFINE next == [NoCall EXCEPT !.pc = "acquire", !.kind = kind]
  <2>2. "pc" \in DOMAIN next
    BY DEF NoCall
  <2>3. created' = [created EXCEPT ![t] = 0]
    BY <1>3 DEF Calls
  <2>4. call' = [call EXCEPT ![t] = next]
    BY <2>1
  <2> HIDE DEF next
  <2>5. created' \in [Threads -> {0, 1}] /\ created'[t] = 0
        /\ \A u \in Threads \ {t} : created'[u] = created[u]
    BY <2>3 DEF PostInv
  <2> QED  BY <1>2, <2>2, <2>4, <2>5
<1>4. ASSUME NEW t \in Threads, NEW pc, pc # "idle" => call[t].pc # "idle",
             call' = [call EXCEPT ![t].pc = pc], created' = created
      PROVE  PostInv'
  <2> DEFINE next == [call[t] EXCEPT !.pc = pc]
  <2>1. "pc" \in DOMAIN next /\ next.pc = pc
    BY DEF PostInv, CallShape
  <2>2. call' = [call EXCEPT ![t] = next]
    BY <1>4
  <2> HIDE DEF next
  <2> QED  BY <1>2, <1>4, <2>1, <2>2 DEF PostInv
<1>5. ASSUME NEW t \in Threads, Acquires(t)  PROVE PostInv'
  <2>1. CASE Goes(t, "token")
    BY <1>4, <1>5, <2>1 DEF Acquires, Goes
  <2>2. CASE Sleeps(t)
    <3> DEFINE w == Window - Head(Within(calls))
               next == [call[t] EXCEPT !.pc = "sleep", !.wait = w]
    <3>1. call' = [call EXCEPT ![t] = next]
      BY <2>2 DEF Sleeps
    <3> HIDE DEF w
    <3>2. "pc" \in DOMAIN next
      BY DEF PostInv, CallShape
    <3>3. created' = created /\ created[t] = 0
      BY <1>5 DEF Acquires, PostInv
    <3> HIDE DEF next
    <3> QED  BY <1>2, <3>1, <3>2, <3>3 DEF PostInv
  <2> QED  BY <1>5, <2>1, <2>2 DEF Acquires
<1>6. ASSUME NEW t \in Threads, Wakes(t)  PROVE PostInv'
  BY <1>4, <1>6 DEF Wakes, Goes
<1>7. ASSUME NEW t \in Threads, Returns(t), created' = created  PROVE PostInv'
  <2>1. call' = [call EXCEPT ![t] = NoCall] /\ "pc" \in DOMAIN NoCall /\ NoCall.pc = "idle"
    BY <1>7 DEF Returns, NoCall
  <2> HIDE DEF NoCall
  <2> QED  BY <1>2, <1>7, <2>1 DEF PostInv
<1>8. ASSUME NEW t \in Threads, TakesToken(t)  PROVE PostInv'
  <2>1. CASE Goes(t, "send")
    BY <1>4, <1>8, <2>1 DEF TakesToken, Goes
  <2> QED  BY <1>7, <1>8, <2>1 DEF TakesToken
<1>9. ASSUME NEW t \in Threads, SendsRequest(t)  PROVE PostInv'
  <2>1. PICK out \in Outcomes :
          /\ \E n \in Creates(t, out) : created' = [created EXCEPT ![t] = @ + n]
          /\ IF TriesAgain(t, out)
             THEN call' = [call EXCEPT ![t].pc = "acquire", ![t].tried = @ + 1]
             ELSE Returns(t)
    BY <1>9 DEF SendsRequest
  <2>2. PICK n \in Creates(t, out) : created' = [created EXCEPT ![t] = created[t] + n]
    BY <2>1
  <2>3. created[t] = 0 /\ n \in {0, 1}
    BY <1>9 DEF SendsRequest, PostInv, Creates
  <2>4. /\ created' \in [Threads -> {0, 1}] /\ created'[t] = n
        /\ \A u \in Threads \ {t} : created'[u] = created[u]
    BY <2>2, <2>3 DEF PostInv
  <2>5. CASE TriesAgain(t, out)
    <3> DEFINE k == call[t].tried + 1
               next == [call[t] EXCEPT !.pc = "acquire", !.tried = k]
    <3>1. n = 0
      BY <2>5 DEF TriesAgain, Creates
    <3>2. call' = [call EXCEPT ![t] = next]
      BY <2>1, <2>5
    <3> HIDE DEF k
    <3>3. "pc" \in DOMAIN next
      BY DEF PostInv, CallShape
    <3> HIDE DEF next
    <3> QED  BY <1>2, <2>4, <3>1, <3>2, <3>3
  <2>6. CASE ~TriesAgain(t, out)
    <3>1. call' = [call EXCEPT ![t] = NoCall] /\ "pc" \in DOMAIN NoCall /\ NoCall.pc = "idle"
      BY <2>1, <2>6 DEF Returns, NoCall
    <3> HIDE DEF NoCall
    <3> QED  BY <1>2, <2>4, <3>1
  <2> QED  BY <2>5, <2>6
<1>10. CASE TokenAges \/ UNCHANGED brokerVars
  BY <1>10 DEF TokenAges, brokerVars, PostInv, CallShape
<1> QED
  BY <1>1, <1>3, <1>5, <1>6, <1>8, <1>9, <1>10 DEF BrokerNext

(* A call that posts an order makes one order at most: it is sent again    *)
(* only after the answer by which KIS limits the rate and has refused it   *)
(* (kis_broker.py:253-281).                                                *)
THEOREM PostsOnce == BrokerSpec => []PostedOnce
<1>1. PostInv => PostedOnce
  BY DEF PostInv, PostedOnce
<1> QED  BY PostStarts, PostStep, <1>1, PTL DEF BrokerSpec

---------------------------------------------------------------------------
(* The price stream.                                                       *)

(* A thread of a stream that is past its test of the flag.                 *)
Passed == {"tested", "made", "runs", "open"}

(* The places where a thread may be.                                       *)
ThreadPlaces == {"none", "test", "waits"} \cup Passed

(* Where a thread of the stream may be, and the types of the variables.    *)
StreamsTypeOK ==
  /\ loop \in {"off", "starting", "on", "stopping"}
  /\ connection \in ThreadPlaces /\ stray \in ThreadPlaces
  /\ strayMessage \in {"none", "held", "late"}
  /\ stopped \in BOOLEAN /\ late \in BOOLEAN
  /\ slipped \in BOOLEAN /\ straySlipped \in BOOLEAN

(* Only a thread that slipped past a stop is past the test afterwards,     *)
(* whether the loop still waits for its end or has forgotten it; while a   *)
(* loop is on, its flag is not set.                                        *)
PassedSlipped ==
  /\ loop \in {"starting", "on"} => ~stopped
  /\ loop = "stopping" => stopped /\ (connection \in Passed => slipped)
  /\ loop = "off" => connection = "none"
  /\ stray \in Passed => straySlipped

(* A late message is in a hand only after the stop. *)
LateAfterStop == late => loop = "stopping"

(* The inductive invariant of the streams.                                 *)
StreamsInv == StreamsTypeOK /\ PassedSlipped /\ LateAfterStop /\ StopEndsStream

(* The invariant holds before the loop is first started.                   *)
LEMMA StreamStarts == StreamsInit => StreamsInv
BY DEF StreamsInit, StreamsInv, StreamsTypeOK, PassedSlipped, LateAfterStop,
       StopEndsStream, ThreadPlaces, Passed

(* The steps of the loop and of its thread, and those of a thread that     *)
(* outlives it.                                                            *)
LEMMA StreamSteps == StreamsInv /\ [StreamsNext]_streamVars => StreamsInv'
<1> SUFFICES ASSUME StreamsInv, [StreamsNext]_streamVars PROVE StreamsInv'
  OBVIOUS
<1> USE DEF StreamsInv, StreamsTypeOK, PassedSlipped, LateAfterStop,
            StopEndsStream, ThreadPlaces, Passed, inHand
<1>1. CASE LoopStarts \/ LoopStarted \/ LoopStops \/ LoopStopped
  <2>1. CASE LoopStarts
    BY <2>1 DEF LoopStarts
  <2>2. CASE LoopStarted
    BY <2>2 DEF LoopStarted
  <2>3. CASE LoopStops
    <3>1. loop = "on" /\ late' = FALSE /\ loop' = "stopping" /\ stopped' = TRUE
      BY <2>3 DEF LoopStops
    <3>2. /\ UNCHANGED <<stray, strayMessage, straySlipped>>
          /\ slipped' = (connection \in {"tested", "made"})
          /\ connection' = IF connection \in {"runs", "open"} THEN "waits"
                           ELSE connection
      BY <2>3 DEF LoopStops
    <3>3. CASE connection \in {"tested", "made"}
      <4>1. slipped' = TRUE /\ connection' = connection
        BY <3>2, <3>3
      <4>. QED
        BY <3>1, <3>2, <4>1
    <3>4. CASE connection \notin {"tested", "made"}
      <4>1. slipped' \in BOOLEAN
        BY <3>2
      <4>2. connection' \in {"none", "test", "waits"}
        BY <3>2, <3>4
      <4>. QED
        BY <3>1, <3>2, <4>1, <4>2
    <3>. QED
      BY <3>3, <3>4
  <2>4. CASE LoopStopped
    BY <2>4 DEF LoopStopped
  <2>. QED
    BY <1>1, <2>1, <2>2, <2>3, <2>4
<1>2. CASE ConnTests \/ ConnRuns \/ ConnOpens \/ ConnRestores \/ ConnBreaks
             \/ ConnRetries
  <2>1. CASE ConnTests \/ ConnRuns
    BY <2>1 DEF ConnTests, ConnRuns
  <2>2. CASE ConnOpens \/ ConnRestores
    BY <2>2 DEF ConnOpens, ConnRestores
  <2>3. CASE ConnBreaks \/ ConnRetries
    BY <2>3 DEF ConnBreaks, ConnRetries
  <2>. QED
    BY <1>2, <2>1, <2>2, <2>3
<1>3. CASE StrayMoves \/ StrayBreaks \/ StrayArrives \/ StrayTicks
  <2>1. CASE StrayMoves
    BY <2>1 DEF StrayMoves, StrayGoes
  <2>2. CASE StrayBreaks
    BY <2>2 DEF StrayBreaks, StrayGoes
  <2>3. CASE StrayArrives
    BY <2>3 DEF StrayArrives, StrayGoes
  <2>4. CASE StrayTicks
    BY <2>4 DEF StrayTicks, StrayGoes
  <2>. QED
    BY <1>3, <2>1, <2>2, <2>3, <2>4
<1>4. CASE HoldingsChange \/ Syncs \/ PollChecks \/ PollAnswers \/ PollEndsRound
  BY <1>4 DEF HoldingsChange, Syncs, PollChecks, PollAnswers, PollEndsRound
<1>5. CASE Ticks \/ \E s \in Symbols : Arrives(s) \/ PollAsks(s)
  <2>1. CASE Ticks
    BY <2>1 DEF Ticks
  <2>2. CASE \E s \in Symbols : Arrives(s)
    BY <2>2 DEF Arrives
  <2>3. CASE \E s \in Symbols : PollAsks(s)
    BY <2>3 DEF PollAsks
  <2>. QED
    BY <1>5, <2>1, <2>2, <2>3
<1>6. CASE UNCHANGED streamVars
  BY <1>6 DEF streamVars
<1>. QED
  BY <1>1, <1>2, <1>3, <1>4, <1>5, <1>6 DEF StreamsNext

(* A message that comes after the stop of the loop is evaluated only by a  *)
(* thread of which the stop fell between the test of the flag and the run  *)
(* of a new connection.                                                    *)
THEOREM StreamEndsWithLoop == StreamsSpec => []StopEndsStream
<1>1. StreamsInv => StopEndsStream
  BY DEF StreamsInv
<1>. QED
  BY <1>1, StreamStarts, StreamSteps, PTL DEF StreamsSpec

---------------------------------------------------------------------------
(* The execution notices.                                                  *)

(* The messages on the wire: the answer to the subscription, and notices.  *)
AnswerMsgs == [kind : {"ack", "refused"}, key : Nat]

(* The notices of the trades.                                              *)
NoticeMsgs == [kind : {"notice"}, key : Nat, trade : Nat]

(* The types of the variables.                                             *)
OrderStreamTypeOK ==
  /\ connNo \in Nat /\ traded \in Nat
  /\ approval \in BOOLEAN /\ accepted \in BOOLEAN
  /\ wire \in Seq(AnswerMsgs \cup NoticeMsgs)
  /\ handed \in Seq([trade : Nat, priced : BOOLEAN])

(* What is on the wire is of this connection: the answer to the            *)
(* subscription first, and notices in order, later than those handed on.   *)
WireInOrder ==
  \A i \in DOMAIN wire :
    /\ wire[i].key = connNo
    /\ wire[i].kind # "notice" => i = 1
    /\ wire[i].kind = "notice" =>
         /\ accepted
         /\ wire[i].trade \in 1..traded
         /\ \A j \in DOMAIN wire :
              i < j /\ wire[j].kind = "notice" => wire[i].trade < wire[j].trade
         /\ \A j \in DOMAIN handed : handed[j].trade < wire[i].trade

(* The client has the key of a subscription that KIS accepted, or will     *)
(* read it next.                                                           *)
KeyFirst ==
  /\ accepted => \/ wire # <<>> /\ wire[1].kind = "ack"
                 \/ aesKey = connNo
  /\ wire # <<>> /\ wire[1].kind = "refused" => ~accepted

(* The inductive invariant of the notices.                                 *)
OrderStreamInv == OrderStreamTypeOK /\ WireInOrder /\ KeyFirst /\ HeardAsTraded

(* The invariant holds before the first connection.                        *)
LEMMA OrderStreamStarts == OrderStreamInit => OrderStreamInv
<1> SUFFICES ASSUME OrderStreamInit PROVE OrderStreamInv
  OBVIOUS
<1> USE DEF OrderStreamInit
<1>1. OrderStreamTypeOK
  BY EmptySeq DEF OrderStreamTypeOK
<1>2. DOMAIN wire = {} /\ DOMAIN handed = {}
  OBVIOUS
<1>3. WireInOrder /\ KeyFirst /\ HeardAsTraded
  BY <1>2 DEF WireInOrder, KeyFirst, HeardAsTraded
<1>. QED
  BY <1>1, <1>3 DEF OrderStreamInv

(* A connection that ends takes with it what is on its way.                *)
LEMMA WireLost ==
  ASSUME OrderStreamInv, wire' = <<>>, accepted' = FALSE,
         approval' \in BOOLEAN, UNCHANGED <<connNo, traded, handed>>
  PROVE  OrderStreamInv'
<1>1. OrderStreamTypeOK'
  BY EmptySeq DEF OrderStreamInv, OrderStreamTypeOK
<1>2. DOMAIN wire' = {}
  OBVIOUS
<1>3. WireInOrder' /\ KeyFirst' /\ HeardAsTraded'
  BY <1>2 DEF OrderStreamInv, WireInOrder, KeyFirst, HeardAsTraded
<1>. QED
  BY <1>1, <1>3 DEF OrderStreamInv

(* A new connection starts with an empty wire.                             *)
LEMMA OpensKeepsOrder == OrderStreamInv /\ Opens => OrderStreamInv'
<1> SUFFICES ASSUME OrderStreamInv, Opens PROVE OrderStreamInv'
  OBVIOUS
<1> USE DEF OrderStreamInv, OrderStreamTypeOK
<1> DEFINE m == [kind |-> IF accepted' THEN "ack" ELSE "refused",
                 key |-> connNo + 1]
<1>1. accepted' \in BOOLEAN /\ m \in AnswerMsgs /\ wire' = <<m>>
  <2>1. accepted' \in BOOLEAN
    BY DEF Opens
  <2>2. m \in AnswerMsgs
    BY DEF AnswerMsgs
  <2>. QED
    BY <2>1, <2>2 DEF Opens
<1>2. OrderStreamTypeOK'
  BY <1>1 DEF Opens
<1>3. DOMAIN wire' = {1} /\ wire'[1] = m
  BY <1>1
<1>4. WireInOrder' /\ KeyFirst'
  BY <1>1, <1>3 DEF Opens, WireInOrder, KeyFirst
<1>5. HeardAsTraded'
  BY DEF Opens, HeardAsTraded
<1>. QED
  BY <1>2, <1>4, <1>5

(* A trade comes behind all that is on the wire.                           *)
LEMMA TradeKeepsOrder == OrderStreamInv /\ Trade => OrderStreamInv'
<1> SUFFICES ASSUME OrderStreamInv, Trade PROVE OrderStreamInv'
  OBVIOUS
<1> USE DEF OrderStreamInv, OrderStreamTypeOK
<1> DEFINE m == [kind |-> "notice", key |-> connNo, trade |-> traded + 1]
<1>1. m \in NoticeMsgs
  BY DEF NoticeMsgs
<1>2. HeardAsTraded'
  BY DEF Trade, HeardAsTraded
<1>3. CASE ~accepted
  <2>1. UNCHANGED <<connNo, aesKey, accepted, approval, wire, handed>>
        /\ traded' = traded + 1
    BY <1>3 DEF Trade
  <2>2. WireInOrder'
    BY <2>1 DEF WireInOrder
  <2>. QED
    BY <1>2, <2>1, <2>2 DEF KeyFirst
<1>4. CASE accepted
  <2>1. /\ wire' = Append(wire, m)
        /\ UNCHANGED <<connNo, aesKey, accepted, approval, handed>>
        /\ traded' = traded + 1
    BY <1>4 DEF Trade
  <2>2. /\ wire' \in Seq(AnswerMsgs \cup NoticeMsgs)
        /\ DOMAIN wire' = 1..Len(wire) + 1 /\ DOMAIN wire = 1..Len(wire)
        /\ \A i \in 1..Len(wire) : wire'[i] = wire[i]
        /\ wire'[Len(wire) + 1] = m /\ Len(wire) \in Nat
    BY <1>1, <2>1
  <2>4. KeyFirst'
    BY <1>4, <2>1, <2>2 DEF KeyFirst
  <2>5. WireInOrder'
    <3> SUFFICES ASSUME NEW i \in 1..Len(wire) + 1
                 PROVE  /\ wire'[i].key = connNo
                        /\ wire'[i].kind # "notice" => i = 1
                        /\ wire'[i].kind = "notice" =>
                             /\ accepted
                             /\ wire'[i].trade \in 1..traded + 1
                             /\ \A j \in 1..Len(wire) + 1 :
                                  i < j /\ wire'[j].kind = "notice" =>
                                    wire'[i].trade < wire'[j].trade
                             /\ \A j \in DOMAIN handed :
                                  handed[j].trade < wire'[i].trade
      BY <2>1, <2>2 DEF WireInOrder
    <3>1. CASE i = Len(wire) + 1
      BY <1>4, <2>2, <3>1 DEF HeardAsTraded
    <3>2. CASE i \in 1..Len(wire)
      <4>1. wire'[i] = wire[i] /\ i \in DOMAIN wire
        BY <2>2, <3>2
      <4>2. ASSUME NEW j \in 1..Len(wire) + 1, i < j, wire'[j].kind = "notice",
                   wire[i].kind = "notice"
            PROVE  wire[i].trade < wire'[j].trade
        <5>1. wire[i].trade \in 1..traded
          BY <4>1, <4>2 DEF WireInOrder
        <5>2. CASE j = Len(wire) + 1
          BY <5>1, <5>2, <2>2
        <5>3. CASE j \in 1..Len(wire)
          BY <4>1, <4>2, <5>3, <2>2 DEF WireInOrder
        <5>. QED
          BY <5>2, <5>3, <2>2
      <4>3. wire[i].trade \in 1..traded => wire[i].trade \in 1..traded + 1
        OBVIOUS
      <4>. QED
        BY <1>4, <4>1, <4>2, <4>3 DEF WireInOrder
    <3>. QED
      BY <3>1, <3>2

  <2>. QED
    BY <1>2, <2>1, <2>2, <2>4, <2>5
<1>. QED
  BY <1>3, <1>4
(* Reading the wire on: the answer, which gives the key, or a notice.      *)
LEMMA WireRead ==
  ASSUME OrderStreamInv, wire # <<>>
  PROVE  /\ Len(wire) \in Nat \ {0} /\ DOMAIN wire = 1..Len(wire)
         /\ wire[1] \in AnswerMsgs \cup NoticeMsgs
         /\ Tail(wire) \in Seq(AnswerMsgs \cup NoticeMsgs)
         /\ DOMAIN Tail(wire) = 1..Len(wire) - 1
         /\ \A i \in 1..Len(wire) - 1 : /\ Tail(wire)[i] = wire[i + 1]
                                        /\ i + 1 \in DOMAIN wire
BY DEF OrderStreamInv, OrderStreamTypeOK

(* The answer to the subscription is read off the wire, and sets the key.  *)
LEMMA SystemKeepsOrder == OrderStreamInv /\ System => OrderStreamInv'
<1> SUFFICES ASSUME OrderStreamInv, System PROVE OrderStreamInv'
  OBVIOUS
<1> USE DEF OrderStreamInv
<1>1. /\ wire # <<>> /\ wire' = Tail(wire) /\ wire[1].kind \in {"ack", "refused"}
      /\ UNCHANGED <<connNo, approval, accepted, traded, handed>>
      /\ aesKey' = IF wire[1].kind = "ack" THEN wire[1].key ELSE aesKey
  BY DEF System, KeyOf
<1>2. 1 \in DOMAIN wire /\ wire[1].key = connNo
  BY <1>1, WireRead DEF WireInOrder
<1>3. OrderStreamTypeOK'
  BY <1>1, WireRead DEF OrderStreamTypeOK
<1>4. \A i \in DOMAIN wire' : wire'[i] = wire[i + 1] /\ i + 1 \in DOMAIN wire
                              /\ i \in Nat /\ i > 0
  BY <1>1, WireRead
<1>5. \A i \in DOMAIN wire' : wire'[i].kind = "notice"
  BY <1>4 DEF WireInOrder
<1>6. WireInOrder'
  BY <1>1, <1>4, <1>5 DEF WireInOrder
<1>7. KeyFirst'
  <2>1. accepted => aesKey' = connNo
    BY <1>1, <1>2, WireRead DEF KeyFirst, AnswerMsgs, NoticeMsgs
  <2>2. wire' # <<>> => wire'[1].kind = "notice"
    BY <1>1, <1>5, WireRead
  <2>. QED
    BY <1>1, <2>1, <2>2 DEF KeyFirst
<1>8. HeardAsTraded'
  BY <1>1 DEF HeardAsTraded
<1>. QED
  BY <1>3, <1>6, <1>7, <1>8

(* A notice that is read is later than those handed on before.             *)
LEMMA HandsOnInOrder == OrderStreamInv /\ HandsOn => OrderStreamInv'
<1> SUFFICES ASSUME OrderStreamInv, HandsOn PROVE OrderStreamInv'
  OBVIOUS
<1> USE DEF OrderStreamInv
<1>1. /\ wire # <<>> /\ wire' = Tail(wire) /\ wire[1].kind = "notice"
      /\ UNCHANGED <<connNo, approval, accepted, aesKey, traded>>
  BY DEF HandsOn
<1>2. /\ 1 \in DOMAIN wire /\ wire[1].key = connNo /\ accepted
      /\ wire[1].trade \in 1..traded
      /\ \A j \in DOMAIN handed : handed[j].trade < wire[1].trade
  BY <1>1, WireRead DEF WireInOrder
<1>3. aesKey = connNo
  BY <1>1, <1>2 DEF KeyFirst
<1> DEFINE n == [trade |-> wire[1].trade, priced |-> TRUE]
<1>4. \/ handed' = handed
      \/ handed' = Append(handed, n)
  BY <1>2, <1>3 DEF HandsOn, Mine, Decoded
<1>5. n \in [trade : Nat, priced : BOOLEAN]
  BY <1>2 DEF OrderStreamTypeOK
<1>6. OrderStreamTypeOK'
  <2>1. Append(handed, n) \in Seq([trade : Nat, priced : BOOLEAN])
    BY <1>5, AppendProperties DEF OrderStreamTypeOK
  <2>. QED
    BY <1>1, <1>4, <2>1, WireRead DEF OrderStreamTypeOK
<1>7. \A i \in DOMAIN wire' : wire'[i] = wire[i + 1] /\ i + 1 \in DOMAIN wire
                              /\ i \in Nat /\ i > 0
  BY <1>1, WireRead
<1>8. /\ Len(handed) \in Nat /\ DOMAIN handed = 1..Len(handed)
      /\ \A j \in DOMAIN handed' :
           \/ j \in DOMAIN handed /\ handed'[j] = handed[j]
           \/ j = Len(handed) + 1 /\ handed'[j] = n
  <2>1. /\ Len(handed) \in Nat /\ DOMAIN handed = 1..Len(handed)
        /\ DOMAIN Append(handed, n) = 1..Len(handed) + 1
        /\ \A j \in 1..Len(handed) : Append(handed, n)[j] = handed[j]
        /\ Append(handed, n)[Len(handed) + 1] = n
    BY <1>5, AppendProperties, LenProperties DEF OrderStreamTypeOK
  <2>. QED
    BY <1>4, <2>1
<1>9. WireInOrder'
  <2> SUFFICES ASSUME NEW i \in DOMAIN wire'
               PROVE  /\ wire'[i].key = connNo
                      /\ wire'[i].kind # "notice" => i = 1
                      /\ wire'[i].kind = "notice" =>
                           /\ accepted
                           /\ wire'[i].trade \in 1..traded
                           /\ \A j \in DOMAIN wire' :
                                i < j /\ wire'[j].kind = "notice" =>
                                  wire'[i].trade < wire'[j].trade
                           /\ \A j \in DOMAIN handed' :
                                handed'[j].trade < wire'[i].trade
    BY <1>1 DEF WireInOrder
  <2>1. wire'[i] = wire[i + 1] /\ i + 1 \in DOMAIN wire /\ i + 1 > 1
    BY <1>7
  <2>2. wire[i + 1].kind = "notice" /\ wire[1].trade < wire[i + 1].trade
    BY <1>1, <1>2, <2>1, <1>7 DEF WireInOrder
  <2>3. \A j \in DOMAIN wire' : i < j => wire'[j] = wire[j + 1] /\ i + 1 < j + 1
                                         /\ j + 1 \in DOMAIN wire
    BY <1>7
  <2>4. ASSUME NEW j \in DOMAIN handed'
        PROVE  handed'[j].trade < wire'[i].trade
    BY <1>8, <2>1, <2>2 DEF WireInOrder
  <2>. QED
    BY <2>1, <2>2, <2>3, <2>4 DEF WireInOrder
<1>10. KeyFirst'
  BY <1>1, <1>3, <1>9, <1>7 DEF KeyFirst, WireInOrder
<1>11. HeardAsTraded'
  BY <1>1, <1>2, <1>8 DEF HeardAsTraded
<1>. QED
  BY <1>6, <1>9, <1>10, <1>11

(* Every step keeps the invariant.                                         *)
LEMMA OrderStreamSteps ==
  OrderStreamInv /\ [OrderStreamNext]_orderStreamVars => OrderStreamInv'
<1> SUFFICES ASSUME OrderStreamInv, [OrderStreamNext]_orderStreamVars
             PROVE  OrderStreamInv'
  OBVIOUS
<1>1. ASSUME UNCHANGED <<connNo, aesKey, accepted, wire, traded, handed>>,
             approval' \in BOOLEAN
      PROVE  OrderStreamInv'
  BY <1>1 DEF OrderStreamInv, OrderStreamTypeOK, WireInOrder, KeyFirst,
              HeardAsTraded
<1>2. CASE StartStream \/ DialFails \/ Retries \/ ApprovalExpires
             \/ UNCHANGED orderStreamVars
  BY <1>1, <1>2 DEF StartStream, DialFails, Retries, ApprovalExpires,
                    orderStreamVars, OrderStreamInv, OrderStreamTypeOK
<1>3. CASE SocketCloses \/ StopStream
  BY <1>3, WireLost DEF SocketCloses, StopStream, OrderStreamInv,
                        OrderStreamTypeOK
<1>. QED
  BY <1>2, <1>3, OpensKeepsOrder, TradeKeepsOrder, SystemKeepsOrder,
     HandsOnInOrder DEF OrderStreamNext

(* Every notice handed on is an execution of this market as it happened,   *)
(* in the order of the executions and each once, through any number of     *)
(* connections and their keys.                                             *)
THEOREM NoticesHeardAsTraded == OrderStreamSpec => []HeardAsTraded
<1>1. OrderStreamInv => HeardAsTraded
  BY DEF OrderStreamInv
<1>. QED
  BY <1>1, OrderStreamStarts, OrderStreamSteps, PTL DEF OrderStreamSpec

---------------------------------------------------------------------------
(* The price files.                                                        *)

(* The contents that a bundle may have, and the tags of them.              *)
Versions == [Files -> Nat]

(* The tags of the contents, and that of none.                             *)
Tags == Versions \cup {<<>>}

(* The types of the variables.                                             *)
DatasetTypeOK ==
  /\ server \in Versions
  /\ bundle \in Tags /\ meta \in Tags /\ etag \in Tags
  /\ local \in [Files -> Nat \cup {NoTag}]
  /\ back \in BOOLEAN
  /\ pull \in [pc : PullPlaces \cup Files, tag : Tags, got : Tags,
               left : SUBSET Files]
  /\ pull.pc = "asked" => bundle # <<>>
  /\ pull.pc \in {"list", "unpack"} \cup Files => pull.got \in Versions

(* A content is no newer than another, none being the oldest.              *)
NotAbove(v, w) == v # <<>> => w # <<>> /\ \A f \in Files : v[f] <= w[f]

(* As long as no older file was put in place, contents only grow from the  *)
(* noted tag over those of the server to its files.                        *)
Growing ==
  /\ NotAbove(etag, meta)
  /\ NotAbove(meta, bundle)
  /\ NotAbove(bundle, server)

(* A file that has come with the bundle, or was moved away as it came.     *)
Has(f, v) == \/ f \notin torn /\ local[f] >= v[f]
             \/ f \in moved

(* A refresh that is putting the files in place.                           *)
Unpacking == pull.pc \in {"unpack"} \cup Files

(* A refresh by the bundle is on its way to a tag that is newer than the   *)
(* noted one, and has every file that it has finished.                     *)
OnItsWay ==
  /\ pull.pc = "list" => etag = <<>>
  /\ pull.pc = "asked" \/ Unpacking =>
       /\ pull.tag # <<>> /\ pull.tag # etag
       /\ NotAbove(etag, pull.tag) /\ NotAbove(pull.tag, meta)
  /\ Unpacking =>
       /\ NotAbove(pull.tag, pull.got)
       /\ \A f \in Files \ pull.left : Has(f, pull.tag)
  /\ pull.pc \in Files => pull.pc \in pull.left

(* The files are those of the noted tag also while a refresh goes on.      *)
NotedIsThere ==
  etag # <<>> /\ etag = meta => \A f \in Files : Has(f, etag)

(* The inductive invariant of the price files, as long as no older file    *)
(* was put in place.                                                       *)
DatasetInv ==
  DatasetTypeOK /\ (~back => Growing /\ OnItsWay /\ NotedIsThere)

(* A content is not the tag of none.                                       *)
LEMMA TagIsThere == \A v \in Versions : v # <<>>
<1>. SUFFICES ASSUME NEW v \in Versions PROVE v # <<>>
  OBVIOUS
<1>1. DOMAIN v = Files
  BY DEF Versions
<1>. QED
  BY <1>1, DatasetAssumption

(* Two contents of which neither is newer are the same.                    *)
LEMMA SameContent ==
  ASSUME NEW v \in Tags, NEW w \in Tags, v # <<>>, NotAbove(v, w), NotAbove(w, v)
  PROVE  v = w
<1>1. v \in Versions /\ w \in Versions
  BY DEF Tags, NotAbove
<1>2. w # <<>>
  BY DEF NotAbove
<1>3. ASSUME NEW f \in Files PROVE v[f] = w[f]
  <2>1. v[f] \in Nat /\ w[f] \in Nat
    BY <1>1 DEF Versions
  <2>. QED
    BY <1>2, <2>1 DEF NotAbove
<1>. QED
  BY <1>1, <1>3 DEF Versions

(* Being no newer goes on from content to content.                         *)
LEMMA NotAboveTransitive ==
  ASSUME NEW u \in Tags, NEW v \in Tags, NEW w \in Tags,
         NotAbove(u, v), NotAbove(v, w)
  PROVE  NotAbove(u, w)
<1> SUFFICES ASSUME u # <<>> PROVE w # <<>> /\ \A f \in Files : u[f] <= w[f]
  BY DEF NotAbove
<1>1. u \in Versions /\ v \in Versions /\ w \in Versions /\ w # <<>>
  BY DEF Tags, NotAbove
<1>. QED
  BY <1>1 DEF NotAbove, Versions

(* The invariant holds when neither side has a file.                       *)
LEMMA DatasetStarts == DatasetInit => DatasetInv
<1> SUFFICES ASSUME DatasetInit PROVE DatasetInv
  OBVIOUS
<1>1. DatasetTypeOK
  BY DatasetAssumption
     DEF DatasetInit, DatasetTypeOK, AtRest, Versions, Tags, PullPlaces
<1>2. pull.pc = "rest" /\ "rest" \notin Files /\ bundle = <<>> /\ etag = <<>>
      /\ meta = <<>>
  BY DatasetAssumption DEF DatasetInit, AtRest, PullPlaces
<1>3. Growing /\ OnItsWay /\ NotedIsThere
  BY <1>2 DEF Growing, OnItsWay, NotedIsThere, NotAbove, Unpacking
<1>. QED
  BY <1>1, <1>3 DEF DatasetInv

(* Nothing is noted that the server has by then, while a refresh comes.    *)
LEMMA ComesNewer ==
  ASSUME DatasetInv, ~back, pull.pc = "asked" \/ Unpacking
  PROVE  etag # meta
<1>1. /\ pull.tag \in Tags /\ etag \in Tags /\ meta \in Tags
      /\ pull.tag # <<>> /\ pull.tag # etag
      /\ NotAbove(etag, pull.tag) /\ NotAbove(pull.tag, meta)
  BY DEF DatasetInv, DatasetTypeOK, OnItsWay
<1>. QED
  BY <1>1, SameContent

(* A newer file of the server.                                             *)
LEMMA ServerGrows ==
  ASSUME DatasetInv, server' \in Versions, \A f \in Files : server[f] <= server'[f],
         back' = back,
         UNCHANGED <<bundle, meta, local, torn, etag, pull, moved>>
  PROVE  DatasetInv'
<1>1. ~back => NotAbove(bundle, server')
  BY TagIsThere, NotAboveTransitive
     DEF DatasetInv, DatasetTypeOK, Growing, NotAbove, Versions, Tags
<1>. QED
  BY <1>1 DEF DatasetInv, DatasetTypeOK, Growing, OnItsWay, NotedIsThere,
              NotAbove, Has, Unpacking

(* What the server collects and bundles keeps the invariant.               *)
LEMMA ServerSteps ==
  ASSUME DatasetInv,
         \/ BundlePacked \/ BundleTagged \/ ServerDies
         \/ \E f \in Files : Updates(f)
         \/ \E f \in Files, version \in 0..MaxVersion : Uploads(f, version)
  PROVE  DatasetInv'
<1>1. CASE BundlePacked
  <2>1. ~back => NotAbove(meta, server)
    BY NotAboveTransitive DEF DatasetInv, DatasetTypeOK, Growing, Tags
  <2>2. NotAbove(server, server)
    BY DEF DatasetInv, DatasetTypeOK, NotAbove, Versions
  <2>3. bundle' = server
        /\ UNCHANGED <<server, meta, local, torn, etag, pull, back, moved>>
    BY <1>1 DEF BundlePacked
  <2>4. DatasetTypeOK'
    BY <2>3, TagIsThere DEF DatasetInv, DatasetTypeOK, Tags
  <2>. QED
    BY <2>1, <2>2, <2>3, <2>4
       DEF DatasetInv, Growing, OnItsWay, NotedIsThere, NotAbove, Has, Unpacking
<1>2. CASE BundleTagged
  <2>1. UNCHANGED <<server, bundle, local, torn, etag, pull, back, moved>>
        /\ meta' = bundle
    BY <1>2 DEF BundleTagged
  <2>2. DatasetTypeOK'
    BY <2>1 DEF DatasetInv, DatasetTypeOK
  <2> SUFFICES ASSUME ~back PROVE Growing' /\ OnItsWay' /\ NotedIsThere'
    BY <2>1, <2>2 DEF DatasetInv
  <2>3. NotAbove(etag, bundle) /\ NotAbove(bundle, bundle)
    BY NotAboveTransitive
       DEF DatasetInv, DatasetTypeOK, Growing, NotAbove, Versions, Tags
  <2>4. NotAbove(pull.tag, meta) => NotAbove(pull.tag, bundle)
    BY NotAboveTransitive DEF DatasetInv, DatasetTypeOK, Growing
  <2>5. etag # <<>> /\ etag = bundle => etag = meta
    BY SameContent DEF DatasetInv, DatasetTypeOK, Growing
  <2>. QED
    BY <2>1, <2>3, <2>4, <2>5
       DEF DatasetInv, Growing, OnItsWay, NotedIsThere, NotAbove, Has, Unpacking
<1>3. CASE ServerDies
  BY <1>3 DEF ServerDies, DatasetInv, DatasetTypeOK, Growing, OnItsWay,
              NotedIsThere, NotAbove, Has, Unpacking
<1>4. ASSUME NEW f \in Files, Updates(f) PROVE DatasetInv'
  BY <1>4, ServerGrows DEF Updates, DatasetInv, DatasetTypeOK, Versions
<1>5. ASSUME NEW f \in Files, NEW version \in 0..MaxVersion, Uploads(f, version)
      PROVE  DatasetInv'
  <2>1. server' \in Versions
    BY <1>5, DatasetAssumption DEF Uploads, DatasetInv, DatasetTypeOK, Versions
  <2>2. CASE version < server[f]
    BY <1>5, <2>1, <2>2 DEF Uploads, DatasetInv, DatasetTypeOK
  <2>3. CASE ~(version < server[f])
    BY <1>5, <2>1, <2>3, ServerGrows, DatasetAssumption
       DEF Uploads, DatasetInv, DatasetTypeOK, Versions
  <2>. QED
    BY <2>2, <2>3
<1>. QED
  BY <1>1, <1>2, <1>3, <1>4, <1>5

(* So does a refresh up to its first file.                                 *)
LEMMA PullSteps ==
  ASSUME DatasetInv,
         PullAsks \/ PullDownloads \/ PullTags \/ PullListed \/ DatasetPullFails
  PROVE  DatasetInv'
<1> USE DEF DatasetInv, DatasetTypeOK
<1>1. CASE PullAsks
  <2>1. /\ pull.pc = "rest"
        /\ UNCHANGED <<server, bundle, meta, local, torn, etag, back, moved>>
    BY <1>1 DEF PullAsks
  <2>2. CASE bundle = <<>> \/ meta = <<>>
    <3>1. pull' = [pc |-> "list", tag |-> <<>>, got |-> server, left |-> Files]
      BY <1>1, <2>2 DEF PullAsks
    <3>2. DatasetTypeOK'
      BY <2>1, <3>1 DEF Tags, PullPlaces
    <3>3. ~back => etag = <<>>
      BY <2>2 DEF Growing, NotAbove
    <3>4. ~back => OnItsWay'
      BY <2>1, <3>1, <3>3, DatasetAssumption DEF OnItsWay, Unpacking, PullPlaces
    <3>. QED
      BY <2>1, <3>2, <3>4 DEF Growing, NotedIsThere, NotAbove, Has
  <2>3. CASE ~(bundle = <<>> \/ meta = <<>>)
    <3>1. /\ pull' = [AtRest EXCEPT !.pc = "asked", !.tag = meta]
          /\ meta # etag
      BY <1>1, <2>3 DEF PullAsks
    <3>2. /\ pull'.pc = "asked" /\ pull'.tag = meta
          /\ pull' \in [pc : PullPlaces \cup Files, tag : Tags, got : Tags,
                        left : SUBSET Files]
      BY <3>1 DEF AtRest, Tags, PullPlaces
    <3>3. NotAbove(meta, meta)
      BY DEF NotAbove, Tags, Versions
    <3>4. ~back => OnItsWay'
      BY <2>1, <2>3, <3>1, <3>2, <3>3, DatasetAssumption
         DEF OnItsWay, Unpacking, PullPlaces, Growing, NotAbove
    <3>5. DatasetTypeOK'
      BY <2>1, <2>3, <3>2, DatasetAssumption DEF PullPlaces
    <3>. QED
      BY <2>1, <3>4, <3>5 DEF Growing, NotedIsThere, NotAbove, Has
  <2>. QED
    BY <2>2, <2>3
<1>2. CASE PullDownloads
  <2>1. /\ pull.pc = "asked"
        /\ UNCHANGED <<server, bundle, meta, local, torn, etag, back, moved>>
        /\ pull' = [pull EXCEPT !.pc = "unpack", !.got = bundle, !.left = Files]
    BY <1>2 DEF PullDownloads
  <2>2. /\ pull'.pc = "unpack" /\ pull'.got = bundle /\ pull'.left = Files
        /\ pull'.tag = pull.tag
        /\ pull' \in [pc : PullPlaces \cup Files, tag : Tags, got : Tags,
                      left : SUBSET Files]
    BY <2>1 DEF PullPlaces
  <2>3. ~back => NotAbove(pull.tag, bundle)
    BY <2>1, NotAboveTransitive DEF OnItsWay, Growing
  <2>4. ~back => OnItsWay'
    BY <2>1, <2>2, <2>3, DatasetAssumption
       DEF OnItsWay, Unpacking, PullPlaces, NotAbove
  <2>5. DatasetTypeOK'
    BY <2>1, <2>2 DEF Tags
  <2>. QED
    BY <2>1, <2>4, <2>5 DEF Growing, NotedIsThere, NotAbove, Has
<1>3. CASE PullTags
  <2>1. /\ pull.pc = "unpack" /\ pull.left = {}
        /\ UNCHANGED <<server, bundle, meta, local, torn, back, moved>>
        /\ etag' = pull.tag /\ pull' = AtRest
    BY <1>3 DEF PullTags
  <2>2. DatasetTypeOK'
    BY <2>1, DatasetAssumption DEF AtRest, Tags, PullPlaces
  <2>3. pull'.pc = "rest" /\ "rest" \notin Files
    BY <2>1, DatasetAssumption DEF AtRest, PullPlaces
  <2>4. ~back => Growing' /\ OnItsWay'
    BY <2>1, <2>3 DEF Growing, OnItsWay, Unpacking, NotAbove
  <2>5. ~back => NotedIsThere'
    BY <2>1 DEF OnItsWay, Unpacking, NotedIsThere, Has
  <2>. QED
    BY <2>1, <2>2, <2>4, <2>5
<1>4. CASE PullListed \/ DatasetPullFails
  <2>1. /\ UNCHANGED <<server, bundle, meta, local, torn, etag, back, moved>>
        /\ pull' = AtRest
    BY <1>4 DEF PullListed, DatasetPullFails
  <2>2. DatasetTypeOK'
    BY <2>1, DatasetAssumption DEF AtRest, Tags, PullPlaces
  <2>3. pull'.pc = "rest" /\ "rest" \notin Files
    BY <2>1, DatasetAssumption DEF AtRest, PullPlaces
  <2>4. OnItsWay'
    BY <2>1, <2>3 DEF OnItsWay, Unpacking
  <2>. QED
    BY <2>1, <2>2, <2>4 DEF Growing, NotedIsThere, NotAbove, Has
<1>. QED
  BY <1>1, <1>2, <1>3, <1>4

(* A file comes, in its place or whole, or is moved away.                  *)
LEMMA FileSteps ==
  ASSUME DatasetInv, NEW g \in Files,
         PullOpens(g) \/ PullWrites(g) \/ PullFetches(g) \/ LoadsFile(g)
  PROVE  DatasetInv'
<1> USE DEF DatasetInv, DatasetTypeOK
<1>0. g \notin PullPlaces
  BY DatasetAssumption
<1>1. CASE PullOpens(g)
  <2>1. /\ pull.pc = "unpack" /\ g \in pull.left
        /\ UNCHANGED <<server, bundle, meta, local, etag, back, moved>>
        /\ pull' = [pull EXCEPT !.pc = g] /\ torn' = torn \cup {g}
    BY <1>1 DEF PullOpens
  <2>2. /\ pull'.pc = g /\ pull'.got = pull.got /\ pull'.left = pull.left
        /\ pull'.tag = pull.tag
        /\ pull' \in [pc : PullPlaces \cup Files, tag : Tags, got : Tags,
                      left : SUBSET Files]
    BY <2>1
  <2>3. ~back => OnItsWay'
    BY <1>0, <2>1, <2>2 DEF OnItsWay, Unpacking, NotAbove, Has, PullPlaces
  <2>4. ~back => etag # meta
    BY <2>1, ComesNewer DEF Unpacking
  <2>5. DatasetTypeOK'
    BY <1>0, <2>1, <2>2 DEF PullPlaces
  <2>. QED
    BY <2>1, <2>3, <2>4, <2>5 DEF Growing, NotedIsThere, NotAbove
<1>2. CASE PullWrites(g)
  <2>1. /\ pull.pc = g
        /\ UNCHANGED <<server, bundle, meta, etag, back>>
        /\ pull' = [pull EXCEPT !.pc = "unpack", !.left = @ \ {g}]
        /\ torn' = torn \ {g}
    BY <1>2 DEF PullWrites
  <2>2. /\ pull'.pc = "unpack" /\ pull'.got = pull.got
        /\ pull'.left = pull.left \ {g} /\ pull'.tag = pull.tag
        /\ pull' \in [pc : PullPlaces \cup Files, tag : Tags, got : Tags,
                      left : SUBSET Files]
    BY <2>1 DEF PullPlaces
  <2>3. pull.got[g] \in Nat /\ local' \in [Files -> Nat \cup {NoTag}]
    BY <1>2, <2>1 DEF PullWrites, Versions
  <2>4. DatasetTypeOK'
    BY <2>1, <2>2, <2>3, <1>0 DEF PullPlaces
  <2>5. ASSUME NEW f \in Files, NEW v, f # g, Has(f, v) PROVE Has(f, v)'
    BY <1>2, <2>5 DEF PullWrites, Has
  <2>6. ASSUME ~back PROVE Has(g, pull.tag)'
    <3>1. NotAbove(pull.tag, pull.got) /\ pull.tag # <<>>
      BY <2>1, <2>6 DEF OnItsWay, Unpacking
    <3>. QED
      BY <1>2, <2>1, <3>1 DEF PullWrites, Has, NotAbove
  <2>7. ~back => OnItsWay'
    <3> SUFFICES ASSUME ~back PROVE OnItsWay'
      OBVIOUS
    <3>1. Unpacking /\ pull'.pc \notin Files
      BY <2>1, <2>2, DatasetAssumption DEF Unpacking, PullPlaces
    <3>2. \A f \in Files \ pull'.left : Has(f, pull.tag)'
      BY <2>2, <2>5, <2>6, <3>1 DEF OnItsWay
    <3>3. /\ pull.tag # <<>> /\ pull.tag # etag
          /\ NotAbove(etag, pull.tag) /\ NotAbove(pull.tag, meta)
          /\ NotAbove(pull.tag, pull.got)
      BY <3>1 DEF OnItsWay
    <3>. QED
      BY <2>1, <2>2, <3>1, <3>2, <3>3 DEF OnItsWay, NotAbove, Has
  <2>8. ~back => etag # meta
    BY <2>1, ComesNewer DEF Unpacking
  <2>. QED
    BY <2>1, <2>4, <2>7, <2>8 DEF Growing, NotedIsThere, NotAbove
<1>3. CASE PullFetches(g)
  <2>1. /\ pull.pc = "list"
        /\ UNCHANGED <<server, bundle, meta, etag, back>>
        /\ pull' = [pull EXCEPT !.left = @ \ {g}]
    BY <1>3 DEF PullFetches
  <2>2. local' \in [Files -> Nat \cup {NoTag}]
    BY <1>3 DEF PullFetches, Versions
  <2>3. DatasetTypeOK'
    BY <2>1, <2>2
  <2>4. "list" \notin {"asked", "unpack"} \cup Files
    BY DatasetAssumption DEF PullPlaces
  <2>5. ~back => etag = <<>>
    BY <2>1 DEF OnItsWay
  <2>6. OnItsWay' \/ back
    BY <2>1, <2>4, <2>5 DEF OnItsWay, Unpacking
  <2>. QED
    BY <2>1, <2>3, <2>5, <2>6 DEF Growing, NotedIsThere, NotAbove
<1>4. CASE LoadsFile(g)
  <2>1. UNCHANGED <<server, bundle, meta, etag, pull, back, moved>>
        /\ g \in torn /\ torn' = torn \ {g}
        /\ local' = [local EXCEPT ![g] = NoTag]
    BY <1>4 DEF LoadsFile
  <2>2. DatasetTypeOK'
    BY <2>1
  <2>3. ASSUME NEW f \in Files, NEW v, Has(f, v)
        PROVE  Has(f, v)'
    BY <2>1, <2>3 DEF Has
  <2>. QED
    BY <2>1, <2>2, <2>3 DEF Growing, OnItsWay, NotedIsThere, NotAbove, Has, Unpacking
<1>. QED
  BY <1>1, <1>2, <1>3, <1>4

(* Every step keeps the invariant.                                         *)
LEMMA DatasetSteps == DatasetInv /\ [DatasetNext]_dataVars => DatasetInv'
<1> SUFFICES ASSUME DatasetInv, [DatasetNext]_dataVars PROVE DatasetInv'
  OBVIOUS
<1>1. CASE UNCHANGED dataVars
  BY <1>1 DEF dataVars, DatasetInv, DatasetTypeOK, Growing, OnItsWay,
              NotedIsThere, NotAbove, Has, Unpacking
<1>. QED
  BY <1>1, ServerSteps, PullSteps, FileSteps DEF DatasetNext

(* When the tag that the application has noted is that of the server, its  *)
(* files are whole and as new as those of the bundle, whatever refresh     *)
(* stopped where, whatever bundle came in between, and wherever the server *)
(* crashed.                                                                *)
THEOREM TagCoversFiles == DatasetSpec => []TagCovers
<1>1. DatasetInv => TagCovers
  BY DEF DatasetInv, NotedIsThere, Has, TagCovers
<1>. QED
  BY <1>1, DatasetStarts, DatasetSteps, PTL DEF DatasetSpec

---------------------------------------------------------------------------
(* The throttle of the KIS client.                                         *)

(* What the filter of the window does with an age.                         *)
YoungStep ==
  [p \in Seq(Nat) \X Nat |-> IF p[2] < Window THEN Append(p[1], p[2]) ELSE p[1]]

(* The filter is the fold of it.                                           *)
LEMMA WithinIs ==
  ASSUME NEW s \in Seq(Nat)
  PROVE  Within(s) = FoldOf(YoungStep, <<>>, s)
<1> DEFINE Young(k) ==
             k = [T \in SUBSET DOMAIN s |->
                    IF T = {} THEN <<>>
                    ELSE IF s[Max(T)] < Window
                         THEN Append(k[T \ {Max(T)}], s[Max(T)])
                         ELSE k[T \ {Max(T)}]]
           h == CHOOSE k : Young(k)
<1>1. YoungStep \in [Seq(Nat) \X Nat -> Seq(Nat)] /\ <<>> \in Seq(Nat)
  BY AppendProperties, EmptySeq DEF YoungStep
<1>2. PICK g \in [SUBSET DOMAIN s -> Seq(Nat)] : IsFold(g, YoungStep, <<>>, s)
  BY <1>1, FoldExists
<1>3. \A T \in SUBSET DOMAIN s : T # {} =>
        T \ {Max(T)} \in SUBSET DOMAIN s /\ s[Max(T)] \in Nat
  BY LastPlace
<1>4. Young(g)
  <2>1. \A T \in SUBSET DOMAIN s :
          g[T] = IF T = {} THEN <<>>
                 ELSE IF s[Max(T)] < Window
                      THEN Append(g[T \ {Max(T)}], s[Max(T)])
                      ELSE g[T \ {Max(T)}]
    BY <1>2, <1>3 DEF IsFold, YoungStep
  <2>. QED
    BY <2>1
<1>5. Within(s) = h[DOMAIN s]
  BY DEF Within, FoldLeft, MapThenFoldSet
<1>6. Young(h)
  BY <1>4
<1> HIDE DEF h
<1> DEFINE V == Seq(Nat) \cup {h[T] : T \in SUBSET DOMAIN s}
           step == [p \in V \X Nat |-> IF p[2] < Window THEN Append(p[1], p[2]) ELSE p[1]]
<1>7. IsFold(g, step, <<>>, s)
  BY <1>3, <1>4 DEF IsFold
<1>8. IsFold(h, step, <<>>, s)
  BY <1>3, <1>6 DEF IsFold
<1>9. h = g
  <2> HIDE DEF step
  <2>. QED
    BY <1>7, <1>8, FoldsAreUnique
<1>10. FoldOf(YoungStep, <<>>, s) = g[DOMAIN s]
  BY <1>2, FoldOfIs
<1>. QED
  BY <1>5, <1>9, <1>10

(* The filter of no age, and of one age more.                              *)
LEMMA WithinMore ==
  /\ Within(<<>>) = <<>>
  /\ \A s \in Seq(Nat) :
       /\ Within(s) \in Seq(Nat)
       /\ \A a \in Nat : Within(Append(s, a)) =
                           IF a < Window THEN Append(Within(s), a) ELSE Within(s)
<1>1. YoungStep \in [Seq(Nat) \X Nat -> Seq(Nat)] /\ <<>> \in Seq(Nat)
  BY AppendProperties, EmptySeq DEF YoungStep
<1>2. Within(<<>>) = <<>>
  <2>1. FoldOf(YoungStep, <<>>, <<>>) = <<>>
    BY <1>1, FoldOfNone
  <2>. QED
    BY <1>1, <2>1, WithinIs
<1>3. ASSUME NEW s \in Seq(Nat) PROVE Within(s) \in Seq(Nat)
  <2>1. FoldOf(YoungStep, <<>>, s) \in Seq(Nat)
    BY <1>1, FoldOfIn
  <2>. QED
    BY <2>1, WithinIs
<1>4. ASSUME NEW s \in Seq(Nat), NEW a \in Nat
      PROVE  Within(Append(s, a)) =
               IF a < Window THEN Append(Within(s), a) ELSE Within(s)
  <2>1. FoldOf(YoungStep, <<>>, Append(s, a)) = YoungStep[<<FoldOf(YoungStep, <<>>, s), a>>]
    <3> DEFINE N == Nat
               A == Seq(N)
               f == YoungStep
               e == <<>>
    <3>1. IsStep(f, A, N) /\ e \in A /\ s \in Seq(N) /\ a \in N
      BY <1>1 DEF IsStep
    <3> HIDE DEF N, A, f, e
    <3>2. FoldOf(f, e, Append(s, a)) = f[<<FoldOf(f, e, s), a>>]
      BY <3>1, FoldOfMore
    <3>. QED
      BY <3>2 DEF f, e
  <2>2. Append(s, a) \in Seq(Nat)
    BY AppendProperties
  <2>3. Within(Append(s, a)) = YoungStep[<<Within(s), a>>]
    BY <2>1, <2>2, WithinIs
  <2>. QED
    BY <1>3, <2>3 DEF YoungStep
<1>. QED
  BY <1>2, <1>3, <1>4

(* Time passes for every age of a sequence.                                *)
LEMMA OlderMore ==
  /\ Older(<<>>) = <<>>
  /\ \A s \in Seq(Nat) :
       /\ Older(s) \in Seq(Nat) /\ Len(Older(s)) = Len(s)
       /\ \A a \in Nat : Older(Append(s, a)) =
                           Append(Older(s), IF a < Window THEN a + 1 ELSE Window)
<1>1. ASSUME NEW s \in Seq(Nat)
      PROVE  /\ Older(s) \in Seq(Nat) /\ Len(Older(s)) = Len(s)
             /\ \A i \in 1..Len(s) : Older(s)[i] = IF s[i] < Window THEN s[i] + 1 ELSE Window
  <2>1. DOMAIN s = 1..Len(s) /\ Len(s) \in Nat /\ \A i \in 1..Len(s) : s[i] \in Nat
    BY LenProperties, ElementOfSeq
  <2>2. Older(s) = [i \in 1..Len(s) |-> IF s[i] < Window THEN s[i] + 1 ELSE Window]
    BY <2>1 DEF Older
  <2>3. \A i \in 1..Len(s) : (IF s[i] < Window THEN s[i] + 1 ELSE Window) \in Nat
    BY <2>1, BrokerAssumption
  <2>4. Older(s) \in Seq(Nat)
    BY <2>1, <2>2, <2>3, IsASeq
  <2>. QED
    BY <2>1, <2>2, <2>4, LenProperties
<1>2. Older(<<>>) = <<>>
  BY DEF Older
<1>3. ASSUME NEW s \in Seq(Nat), NEW a \in Nat
      PROVE  Older(Append(s, a)) =
               Append(Older(s), IF a < Window THEN a + 1 ELSE Window)
  <2> DEFINE t == Append(s, a)
             b == IF a < Window THEN a + 1 ELSE Window
             r == Append(Older(s), b)
  <2>1. /\ t \in Seq(Nat) /\ Len(t) = Len(s) + 1 /\ Len(s) \in Nat
        /\ t[Len(s) + 1] = a /\ \A i \in 1..Len(s) : t[i] = s[i]
    BY AppendProperties, LenProperties
  <2>2. b \in Nat
    BY BrokerAssumption
  <2>3. /\ r \in Seq(Nat) /\ Len(r) = Len(s) + 1
        /\ r[Len(s) + 1] = b /\ \A i \in 1..Len(s) : r[i] = Older(s)[i]
    <3> HIDE DEF b
    <3>. QED
      BY <1>1, <2>2, AppendProperties
  <2>4. /\ Older(t) \in Seq(Nat) /\ Len(Older(t)) = Len(s) + 1
        /\ \A i \in 1..Len(s) + 1 :
             Older(t)[i] = IF t[i] < Window THEN t[i] + 1 ELSE Window
    <3> HIDE DEF t
    <3>. QED
      BY <1>1, <2>1
  <2>5. \A i \in 1..Len(s) + 1 : Older(t)[i] = r[i]
    <3> SUFFICES ASSUME NEW i \in 1..Len(s) + 1 PROVE Older(t)[i] = r[i]
      OBVIOUS
    <3>0. Older(t)[i] = IF t[i] < Window THEN t[i] + 1 ELSE Window
      BY <2>4
    <3>1. CASE i = Len(s) + 1
      BY <2>1, <2>3, <3>0, <3>1
    <3>2. CASE i \in 1..Len(s)
      <4>1. t[i] = s[i] /\ r[i] = Older(s)[i]
        BY <2>1, <2>3, <3>2
      <4> HIDE DEF t, r
      <4>. QED
        <5>1. Older(s)[i] = IF s[i] < Window THEN s[i] + 1 ELSE Window
          BY <1>1, <3>2
        <5>. QED
          BY <3>0, <4>1, <5>1
    <3>3. i = Len(s) + 1 \/ i \in 1..Len(s)
      BY <2>1
    <3> HIDE DEF t, r
    <3>. QED
      BY <3>1, <3>2, <3>3
  <2> HIDE DEF t, r
  <2>6. Older(t) = r
    BY <2>3, <2>4, <2>5, SeqEqual
  <2>. QED
    BY <2>6 DEF t, r
<1>. QED
  BY <1>1, <1>2, <1>3

(* The filter keeps young ages, all of them and nothing else; what it drops *)
(* it may drop before or after a tick.                                     *)
LEMMA WithinKeeps ==
  ASSUME NEW s \in Seq(Nat)
  PROVE  /\ \A i \in DOMAIN Within(s) : Within(s)[i] < Window
         /\ Within(Within(s)) = Within(s)
         /\ Len(Within(s)) <= Len(s)
         /\ Len(Within(s)) = Len(s) => Within(s) = s
         /\ Within(Older(Within(s))) = Within(Older(s))
<1> DEFINE Keeps(u) ==
             /\ \A i \in DOMAIN Within(u) : Within(u)[i] < Window
             /\ Within(Within(u)) = Within(u)
             /\ Len(Within(u)) <= Len(u)
             /\ Len(Within(u)) = Len(u) => Within(u) = u
             /\ Within(Older(Within(u))) = Within(Older(u))
           Bad == {u \in Seq(Nat) : ~Keeps(u)}
<1>1. Keeps(<<>>)
  BY WithinMore, OlderMore
<1>2. ASSUME NEW t \in Seq(Nat), NEW a \in Nat, Keeps(t) PROVE Keeps(Append(t, a))
  <2> DEFINE more == Append(t, a)
             w == Within(t)
  <2>1. /\ w \in Seq(Nat) /\ Len(more) = Len(t) + 1 /\ Len(w) \in Nat /\ Len(t) \in Nat
        /\ Older(t) \in Seq(Nat) /\ Older(w) \in Seq(Nat)
    BY WithinMore, OlderMore, AppendProperties, LenProperties
  <2>2. CASE a < Window
    <3>1. Within(more) = Append(w, a)
      BY <2>2, WithinMore
    <3>2. /\ Len(Append(w, a)) = Len(w) + 1 /\ DOMAIN Append(w, a) = 1..Len(w) + 1
          /\ DOMAIN w = 1..Len(w)
          /\ Append(w, a)[Len(w) + 1] = a /\ \A i \in 1..Len(w) : Append(w, a)[i] = w[i]
      <4> HIDE DEF w
      <4>. QED
        BY <2>1, AppendProperties, LenProperties
    <3>3. \A i \in 1..Len(w) + 1 : Append(w, a)[i] < Window
      <4> SUFFICES ASSUME NEW i \in 1..Len(w) + 1 PROVE Append(w, a)[i] < Window
        OBVIOUS
      <4>1. CASE i = Len(w) + 1
        BY <2>2, <3>2, <4>1
      <4>2. CASE i \in 1..Len(w)
        BY <1>2, <3>2, <4>2
      <4>. QED
        BY <2>1, <4>1, <4>2
    <3>4. Within(Append(w, a)) = Append(w, a)
      <4>1. Within(Append(w, a)) = Append(Within(w), a)
        BY <2>1, <2>2, WithinMore
      <4>. QED
        BY <1>2, <4>1
    <3>5. Len(Append(w, a)) <= Len(more) /\ (Len(Append(w, a)) = Len(more) => w = t)
      BY <1>2, <2>1, <3>2
    <3>6. Within(Older(Append(w, a))) = Within(Older(more))
      <4>1. /\ Older(Append(w, a)) = Append(Older(w), a + 1)
            /\ Older(more) = Append(Older(t), a + 1)
        BY <2>1, <2>2, OlderMore
      <4>2. /\ Within(Append(Older(w), a + 1)) =
                 IF a + 1 < Window THEN Append(Within(Older(w)), a + 1) ELSE Within(Older(w))
            /\ Within(Append(Older(t), a + 1)) =
                 IF a + 1 < Window THEN Append(Within(Older(t)), a + 1) ELSE Within(Older(t))
        <5>1. a + 1 \in Nat
          OBVIOUS
        <5> DEFINE b == a + 1
                   v == Older(w)
                   r == Older(t)
        <5>2. b \in Nat /\ v \in Seq(Nat) /\ r \in Seq(Nat)
          BY <2>1
        <5> HIDE DEF b, v, r
        <5>. QED
          BY <5>2, WithinMore DEF b, v, r
      <4>3. Within(Older(w)) = Within(Older(t))
        BY <1>2
      <4>. QED
        BY <4>1, <4>2, <4>3
    <3>. QED
      <4> HIDE DEF w
      <4>. QED
        BY <3>1, <3>2, <3>3, <3>4, <3>5, <3>6
  <2>3. CASE ~(a < Window)
    <3>1. Within(more) = w
      BY <2>3, WithinMore
    <3>2. Older(more) = Append(Older(t), Window) /\ Window \in Nat /\ ~(Window < Window)
      BY <2>3, OlderMore, BrokerAssumption
    <3>3. Within(Older(more)) = Within(Older(t))
      BY <2>1, <3>2, WithinMore
    <3>4. Len(w) <= Len(more) /\ Len(w) # Len(more)
      BY <1>2, <2>1
    <3>. QED
      BY <1>2, <3>1, <3>3, <3>4
  <2>. QED
    BY <2>2, <2>3
<1>3. Bad = {}
  <2> SUFFICES ASSUME Bad # {} PROVE FALSE
    OBVIOUS
  <2>1. Bad \subseteq Seq(Nat)
    OBVIOUS
  <2>2. PICK u \in Bad : \/ u = <<>>
                         \/ \E t \in Seq(Nat), x \in Nat : u = Append(t, x) /\ t \notin Bad
    <3> HIDE DEF Bad
    <3>. QED
      BY <2>1, ShortestSeq
  <2>3. ~Keeps(u)
    OBVIOUS
  <2>4. \A t \in Seq(Nat) : t \notin Bad => Keeps(t)
    OBVIOUS
  <2> HIDE DEF Keeps, Bad
  <2>. QED
    BY <1>1, <1>2, <2>2, <2>3, <2>4
<1>. QED
  BY <1>3

(* Where a call may be.                                                    *)
CallPlaces == {"idle", "acquire", "sleep", "token", "send"}

(* What is known of a call.                                                *)
CallRecords == [pc : CallPlaces, kind : {"get", "post"}, tried : Nat, wait : Nat]

(* The types of the throttle's variables.                                  *)
ThrottleTypeOK ==
  /\ calls \in Seq(Nat)
  /\ call \in [Threads -> CallRecords]

(* The list of the throttle, filtered, is what the window really holds.    *)
ListIsWindow == granted = Within(calls)

(* A thread that waits does so with the lock, and when it has waited the   *)
(* first place of a full window is out of it.                              *)
WaitsItsTurn(t) ==
  call[t].pc = "sleep" =>
    /\ lock = t
    /\ Len(granted) = MAX_CALLS => granted[1] + call[t].wait >= Window

(* All who wait do.                                                        *)
SleepersWait == \A t \in Threads : WaitsItsTurn(t)

(* The inductive invariant of the window.                                  *)
WindowInv == ThrottleTypeOK /\ ListIsWindow /\ SleepersWait /\ WindowBounded

(* The invariant holds before the first call.                              *)
LEMMA WindowStarts == BrokerInit => WindowInv
<1> SUFFICES ASSUME BrokerInit PROVE WindowInv
  OBVIOUS
<1>1. NoCall \in CallRecords /\ NoCall.pc = "idle"
  BY DEF NoCall, CallRecords, CallPlaces
<1>2. ThrottleTypeOK
  BY <1>1, EmptySeq DEF BrokerInit, ThrottleTypeOK
<1>3. ListIsWindow
  BY WithinMore DEF BrokerInit, ListIsWindow
<1>4. SleepersWait
  <2> SUFFICES ASSUME NEW t \in Threads PROVE call[t].pc # "sleep"
    BY DEF SleepersWait, WaitsItsTurn
  <2>. QED
    BY <1>1 DEF BrokerInit
<1>5. WindowBounded
  BY BrokerAssumption DEF BrokerInit, WindowBounded
<1>. QED
  BY <1>2, <1>3, <1>4, <1>5 DEF WindowInv

(* What the invariant says of the window.                                  *)
LEMMA WindowFacts ==
  ASSUME WindowInv
  PROVE  /\ calls \in Seq(Nat) /\ granted = Within(calls) /\ granted \in Seq(Nat)
         /\ Len(granted) \in Nat /\ Len(granted) <= MAX_CALLS
         /\ Window \in Nat \ {0} /\ MAX_CALLS \in Nat \ {0}
         /\ DOMAIN granted = 1..Len(granted)
         /\ Within(granted) = granted
         /\ Len(granted) = MAX_CALLS => granted[1] \in Nat /\ granted[1] < Window
         /\ \A t \in Threads : call[t] \in CallRecords /\ call[t].wait \in Nat
<1>1. calls \in Seq(Nat) /\ granted = Within(calls) /\ Len(granted) <= MAX_CALLS
  BY DEF WindowInv, ThrottleTypeOK, ListIsWindow, WindowBounded
<1>2. granted \in Seq(Nat)
  BY <1>1, WithinMore
<1>3. Len(granted) \in Nat /\ DOMAIN granted = 1..Len(granted)
  BY <1>2, LenProperties
<1>4. Window \in Nat \ {0} /\ MAX_CALLS \in Nat \ {0}
  BY BrokerAssumption
<1>5. Within(granted) = granted /\ \A i \in DOMAIN granted : granted[i] < Window
  BY <1>1, WithinKeeps
<1>6. Len(granted) = MAX_CALLS => granted[1] \in Nat /\ granted[1] < Window
  <2> SUFFICES ASSUME Len(granted) = MAX_CALLS
               PROVE  granted[1] \in Nat /\ granted[1] < Window
    OBVIOUS
  <2>1. 1 \in 1..Len(granted)
    BY <1>4
  <2>. QED
    BY <1>2, <1>3, <1>5, <2>1, ElementOfSeq
<1>7. \A t \in Threads : call[t] \in CallRecords /\ call[t].wait \in Nat
  BY DEF WindowInv, ThrottleTypeOK, CallRecords
<1>. QED
  BY <1>1, <1>2, <1>3, <1>4, <1>5, <1>6, <1>7

(* Time passes for the window and for those who wait alike.                *)
LEMMA TickKeepsWindow == WindowInv /\ Tick => WindowInv'
<1> SUFFICES ASSUME WindowInv, Tick PROVE WindowInv'
  OBVIOUS
<1>1. /\ calls \in Seq(Nat) /\ granted = Within(calls) /\ granted \in Seq(Nat)
      /\ Len(granted) \in Nat /\ Len(granted) <= MAX_CALLS
      /\ Window \in Nat \ {0} /\ MAX_CALLS \in Nat \ {0}
      /\ Len(granted) = MAX_CALLS => granted[1] \in Nat /\ granted[1] < Window
      /\ \A t \in Threads : call[t] \in CallRecords /\ call[t].wait \in Nat
  BY WindowFacts
<1>2. calls' = Older(calls) /\ granted' = Within(Older(granted)) /\ lock' = lock
  BY DEF Tick
<1>3. Older(calls) \in Seq(Nat)
  BY <1>1, OlderMore
<1>4. granted' = Within(calls')
  BY <1>1, <1>2, WithinKeeps
<1> DEFINE older == Older(granted)
<1>5. /\ older \in Seq(Nat) /\ Len(older) = Len(granted)
      /\ Within(older) \in Seq(Nat)
      /\ Len(Within(older)) <= Len(older)
      /\ Len(Within(older)) = Len(older) => Within(older) = older
  <2>1. older \in Seq(Nat) /\ Len(older) = Len(granted)
    BY <1>1, OlderMore
  <2> HIDE DEF older
  <2>. QED
    BY <2>1, WithinKeeps, WithinMore
<1>6. Len(granted') \in Nat /\ Len(granted') <= Len(granted)
      /\ (Len(granted') = MAX_CALLS =>
            Len(granted) = MAX_CALLS /\ granted' = Older(granted))
  <2>1. granted' = Within(older) /\ Len(Within(older)) \in Nat
    BY <1>2, <1>5, LenProperties
  <2> HIDE DEF older
  <2>. QED
    BY <1>1, <1>5, <2>1 DEF older
<1>7. Len(granted') = MAX_CALLS => granted'[1] = granted[1] + 1
  <2> SUFFICES ASSUME Len(granted') = MAX_CALLS PROVE granted'[1] = granted[1] + 1
    OBVIOUS
  <2>1. /\ Len(granted) = MAX_CALLS /\ granted' = Older(granted)
        /\ DOMAIN granted = 1..Len(granted)
    BY <1>6, WindowFacts
  <2>2. 1 \in DOMAIN granted
    BY <1>1, <2>1
  <2>. QED
    BY <1>1, <2>1, <2>2 DEF Older
<1> DEFINE waited(w) == IF w = 0 THEN 0 ELSE w - 1
<1>8. ASSUME NEW t \in Threads
      PROVE  /\ call'[t] \in CallRecords
             /\ call'[t].pc = call[t].pc
             /\ call'[t].wait = waited(call[t].wait)
  <2>1. call'[t] = [call[t] EXCEPT !.wait = waited(call[t].wait)]
    BY DEF Tick
  <2>2. waited(call[t].wait) \in Nat
    BY <1>1
  <2>3. call[t] \in CallRecords
    BY <1>1
  <2> HIDE DEF waited
  <2>. QED
    BY <2>1, <2>2, <2>3 DEF CallRecords
<1>9. ThrottleTypeOK'
  <2>1. call' = [t \in Threads |-> call'[t]]
    BY DEF Tick
  <2>. QED
    BY <1>2, <1>3, <1>8, <2>1 DEF ThrottleTypeOK
<1>10. ASSUME NEW t \in Threads, call'[t].pc = "sleep"
       PROVE  /\ lock' = t
              /\ Len(granted') = MAX_CALLS => granted'[1] + call'[t].wait >= Window
  <2>1. call[t].pc = "sleep"
    BY <1>8, <1>10
  <2>2. lock = t /\ (Len(granted) = MAX_CALLS => granted[1] + call[t].wait >= Window)
    BY <2>1 DEF WindowInv, SleepersWait, WaitsItsTurn
  <2>3. ASSUME Len(granted') = MAX_CALLS
        PROVE  granted'[1] + call'[t].wait >= Window
    <3>1. /\ granted'[1] = granted[1] + 1 /\ granted[1] \in Nat /\ granted[1] < Window
          /\ granted[1] + call[t].wait >= Window
      BY <1>1, <1>6, <1>7, <2>2, <2>3
    <3>2. call[t].wait # 0 /\ call'[t].wait = call[t].wait - 1
      BY <1>1, <1>8, <3>1
    <3>. QED
      BY <1>1, <3>1, <3>2
  <2>. QED
    BY <1>2, <2>2, <2>3
<1>11. SleepersWait'
  BY <1>10 DEF SleepersWait, WaitsItsTurn
<1>12. WindowBounded'
  BY <1>1, <1>6 DEF WindowBounded
<1>. QED
  BY <1>4, <1>9, <1>11, <1>12 DEF WindowInv, ListIsWindow

(* A step of a thread that leaves the window alone, or tidies the list, and *)
(* does not send the thread to sleep.                                      *)
LEMMA WindowUntouched ==
  ASSUME WindowInv, NEW t \in Threads, NEW next \in CallRecords,
         next.pc = "sleep" => next = call[t],
         call' = [call EXCEPT ![t] = next],
         calls' \in {calls, Within(calls)}, granted' = granted, lock' = lock
  PROVE  WindowInv'
<1>1. /\ calls \in Seq(Nat) /\ granted = Within(calls) /\ granted \in Seq(Nat)
      /\ Within(granted) = granted /\ Len(granted) <= MAX_CALLS
  BY WindowFacts
<1>2. call \in [Threads -> CallRecords]
  BY DEF WindowInv, ThrottleTypeOK
<1>3. ThrottleTypeOK'
  BY <1>1, <1>2 DEF ThrottleTypeOK
<1>4. ListIsWindow'
  BY <1>1 DEF ListIsWindow
<1>5. ASSUME NEW u \in Threads, call'[u].pc = "sleep" PROVE call'[u] = call[u]
  BY <1>2, <1>5
<1>6. SleepersWait'
  <2>1. SleepersWait
    BY DEF WindowInv
  <2>. QED
    BY <1>5, <2>1 DEF SleepersWait, WaitsItsTurn
<1>7. WindowBounded'
  BY <1>1 DEF WindowBounded
<1>. QED
  BY <1>3, <1>4, <1>6, <1>7 DEF WindowInv

(* A place is taken when there is one, while no thread waits any more.     *)
LEMMA PlaceTaken ==
  ASSUME WindowInv, NEW t \in Threads, NEW next \in CallRecords, next.pc # "sleep",
         call' = [call EXCEPT ![t] = next], lock \in {"free", t},
         calls' = Append(Within(calls), 0), granted' = Append(granted, 0),
         Len(granted) # MAX_CALLS
  PROVE  WindowInv'
<1>1. /\ calls \in Seq(Nat) /\ granted = Within(calls) /\ granted \in Seq(Nat)
      /\ Within(granted) = granted /\ Len(granted) <= MAX_CALLS
      /\ Len(granted) \in Nat /\ Window \in Nat \ {0} /\ MAX_CALLS \in Nat \ {0}
  BY WindowFacts
<1>2. call \in [Threads -> CallRecords]
  BY DEF WindowInv, ThrottleTypeOK
<1>3. /\ Append(granted, 0) \in Seq(Nat)
      /\ Len(Append(granted, 0)) = Len(granted) + 1
      /\ Within(Append(granted, 0)) = Append(granted, 0)
  <2>1. Within(Append(granted, 0)) = Append(Within(granted), 0)
    BY <1>1, WithinMore
  <2>. QED
    BY <1>1, <2>1, AppendProperties
<1>4. ThrottleTypeOK'
  BY <1>1, <1>2, <1>3 DEF ThrottleTypeOK
<1>5. ListIsWindow'
  BY <1>1, <1>3 DEF ListIsWindow
<1>6. ASSUME NEW u \in Threads PROVE call'[u].pc # "sleep"
  <2>1. CASE u = t
    BY <1>2, <2>1
  <2>2. CASE u # t
    <3>1. call'[u] = call[u]
      BY <1>2, <2>2
    <3>2. call[u].pc = "sleep" => lock = u
      BY DEF WindowInv, SleepersWait, WaitsItsTurn
    <3>. QED
      BY <2>2, <3>1, <3>2, BrokerAssumption
  <2>. QED
    BY <2>1, <2>2
<1>7. SleepersWait'
  BY <1>6 DEF SleepersWait, WaitsItsTurn
<1>8. WindowBounded'
  BY <1>1, <1>3 DEF WindowBounded
<1>. QED
  BY <1>4, <1>5, <1>7, <1>8 DEF WindowInv

(* A thread that finds the window full waits for its first place, and none *)
(* else can take one until then.                                           *)
LEMMA AcquiresKeepsWindow ==
  ASSUME WindowInv, NEW t \in Threads, Acquires(t)
  PROVE  WindowInv'
<1>1. /\ calls \in Seq(Nat) /\ granted = Within(calls) /\ granted \in Seq(Nat)
      /\ Within(granted) = granted /\ Len(granted) <= MAX_CALLS
      /\ Len(granted) \in Nat /\ Window \in Nat \ {0} /\ MAX_CALLS \in Nat \ {0}
      /\ Len(granted) = MAX_CALLS => granted[1] \in Nat /\ granted[1] < Window
      /\ call[t] \in CallRecords
  BY WindowFacts
<1>2. call \in [Threads -> CallRecords]
  BY DEF WindowInv, ThrottleTypeOK
<1>3. CASE ~(Len(Within(calls)) >= MAX_CALLS)
  <2> DEFINE next == [call[t] EXCEPT !.pc = "token"]
  <2>1. /\ call' = [call EXCEPT ![t] = next] /\ lock = "free"
        /\ calls' = Append(Within(calls), 0) /\ granted' = Append(granted, 0)
    BY <1>3 DEF Acquires, Goes
  <2>2. next \in CallRecords /\ next.pc # "sleep"
    BY <1>1 DEF CallRecords, CallPlaces
  <2>3. Len(granted) # MAX_CALLS
    BY <1>1, <1>3
  <2> HIDE DEF next
  <2>. QED
    BY <2>1, <2>2, <2>3, PlaceTaken
<1>4. CASE Len(Within(calls)) >= MAX_CALLS
  <2>1. Len(granted) = MAX_CALLS
    BY <1>1, <1>4
  <2> DEFINE wait == Window - granted[1]
             next == [call[t] EXCEPT !.pc = "sleep", !.wait = wait]
  <2>2. wait \in Nat /\ Head(Within(calls)) = granted[1]
    <3>1. granted # <<>>
      BY <1>1, <2>1, LenProperties
    <3>2. Head(granted) = granted[1]
      BY <1>1, <3>1, HeadTailProperties
    <3>. QED
      BY <1>1, <2>1, <3>2
  <2>3. call' = [call EXCEPT ![t] = next]
    BY <1>4, <2>2 DEF Acquires, Sleeps
  <2>4. lock' = t /\ calls' = Within(calls) /\ granted' = granted /\ lock = "free"
    BY <1>4 DEF Acquires
  <2> HIDE DEF wait
  <2>5. next \in CallRecords /\ next.wait = wait
    BY <1>1, <2>2 DEF CallRecords, CallPlaces
  <2> HIDE DEF next
  <2>6. ThrottleTypeOK'
    BY <1>1, <1>2, <2>3, <2>4, <2>5 DEF ThrottleTypeOK
  <2>7. ListIsWindow'
    BY <1>1, <2>4 DEF ListIsWindow
  <2>8. ASSUME NEW u \in Threads, call'[u].pc = "sleep"
        PROVE  lock' = u /\ granted'[1] + call'[u].wait >= Window
    <3>1. u = t
      <4> SUFFICES ASSUME u # t PROVE FALSE
        OBVIOUS
      <4>1. call[u].pc = "sleep"
        BY <1>2, <2>3, <2>8
      <4>2. lock = u
        BY <4>1 DEF WindowInv, SleepersWait, WaitsItsTurn
      <4>. QED
        BY <2>4, <4>2, BrokerAssumption
    <3>2. call'[u].wait = wait
      BY <1>2, <2>3, <2>5, <3>1
    <3>. QED
      BY <1>1, <2>1, <2>4, <3>1, <3>2 DEF wait
  <2>9. SleepersWait'
    BY <2>8 DEF SleepersWait, WaitsItsTurn
  <2>10. WindowBounded'
    BY <1>1, <2>4 DEF WindowBounded
  <2>. QED
    BY <2>6, <2>7, <2>9, <2>10 DEF WindowInv
<1>. QED
  BY <1>3, <1>4

(* Whoever has waited finds a place.                                       *)
LEMMA WakesKeepsWindow ==
  ASSUME WindowInv, NEW t \in Threads, Wakes(t)
  PROVE  WindowInv'
<1>1. /\ Len(granted) = MAX_CALLS => granted[1] \in Nat /\ granted[1] < Window
      /\ call[t] \in CallRecords /\ Window \in Nat
  BY WindowFacts
<1>2. /\ call[t].pc = "sleep" /\ call[t].wait = 0
      /\ calls' = Append(Within(calls), 0) /\ granted' = Append(granted, 0)
  BY DEF Wakes
<1>3. lock = t /\ Len(granted) # MAX_CALLS
  <2>1. lock = t /\ (Len(granted) = MAX_CALLS => granted[1] + call[t].wait >= Window)
    BY <1>2 DEF WindowInv, SleepersWait, WaitsItsTurn
  <2>. QED
    BY <1>1, <1>2, <2>1
<1> DEFINE next == [call[t] EXCEPT !.pc = "token"]
<1>4. call' = [call EXCEPT ![t] = next]
  BY DEF Wakes, Goes
<1>5. next \in CallRecords /\ next.pc # "sleep"
  BY <1>1 DEF CallRecords, CallPlaces
<1> HIDE DEF next
<1>. QED
  BY <1>2, <1>3, <1>4, <1>5, PlaceTaken

(* Every step keeps the invariant.                                         *)
LEMMA WindowSteps == WindowInv /\ [BrokerNext]_brokerVars => WindowInv'
<1> SUFFICES ASSUME WindowInv, [BrokerNext]_brokerVars PROVE WindowInv'
  OBVIOUS
<1>1. ASSUME NEW t \in Threads PROVE call[t] \in CallRecords
  BY WindowFacts
<1>2. ASSUME NEW t \in Threads, Returns(t), UNCHANGED <<calls, granted, lock>>
      PROVE  WindowInv'
  <2>1. NoCall \in CallRecords /\ NoCall.pc # "sleep"
    BY DEF NoCall, CallRecords, CallPlaces
  <2>2. call' = [call EXCEPT ![t] = NoCall]
    BY <1>2 DEF Returns
  <2> HIDE DEF NoCall
  <2>. QED
    BY <1>2, <2>1, <2>2, WindowUntouched
<1>3. ASSUME NEW t \in Threads, Calls(t) PROVE WindowInv'
  <2>1. PICK kind \in {"get", "post"} :
          call' = [call EXCEPT ![t] = [NoCall EXCEPT !.pc = "acquire", !.kind = kind]]
    BY <1>3 DEF Calls
  <2> DEFINE next == [NoCall EXCEPT !.pc = "acquire", !.kind = kind]
  <2>2. next \in CallRecords /\ next.pc # "sleep"
    BY DEF NoCall, CallRecords, CallPlaces
  <2>3. call' = [call EXCEPT ![t] = next] /\ UNCHANGED <<calls, granted, lock>>
    BY <1>3, <2>1 DEF Calls
  <2> HIDE DEF next
  <2>. QED
    BY <2>2, <2>3, WindowUntouched
<1>4. ASSUME NEW t \in Threads, TakesToken(t) PROVE WindowInv'
  <2>1. UNCHANGED <<calls, granted, lock>>
    BY <1>4 DEF TakesToken
  <2>2. CASE Goes(t, "send")
    <3> DEFINE next == [call[t] EXCEPT !.pc = "send"]
    <3>1. next \in CallRecords /\ next.pc # "sleep"
      BY <1>1 DEF CallRecords, CallPlaces
    <3>2. call' = [call EXCEPT ![t] = next]
      BY <2>2 DEF Goes
    <3> HIDE DEF next
    <3>. QED
      BY <2>1, <3>1, <3>2, WindowUntouched
  <2>. QED
    BY <1>2, <1>4, <2>1, <2>2 DEF TakesToken
<1>5. ASSUME NEW t \in Threads, SendsRequest(t) PROVE WindowInv'
  <2>1. UNCHANGED <<calls, granted, lock>>
    BY <1>5 DEF SendsRequest
  <2> DEFINE k == call[t].tried + 1
             next == [call[t] EXCEPT !.pc = "acquire", !.tried = k]
  <2>2. call' = [call EXCEPT ![t] = next] \/ Returns(t)
    BY <1>5 DEF SendsRequest
  <2>3. k \in Nat
    BY <1>1 DEF CallRecords
  <2>4. next \in CallRecords /\ next.pc # "sleep"
    <3> HIDE DEF k
    <3>. QED
      BY <1>1, <2>3 DEF CallRecords, CallPlaces
  <2> HIDE DEF next
  <2>. QED
    BY <1>2, <2>1, <2>2, <2>4, WindowUntouched
<1>6. CASE TokenAges \/ UNCHANGED brokerVars
  BY <1>6 DEF TokenAges, brokerVars, WindowInv, ThrottleTypeOK, ListIsWindow,
              SleepersWait, WaitsItsTurn, WindowBounded
<1>7. CASE Tick
  BY <1>7, TickKeepsWindow
<1>. QED
  BY <1>3, <1>4, <1>5, <1>6, <1>7, AcquiresKeepsWindow, WakesKeepsWindow DEF BrokerNext

(* No window holds more calls than the limit, however the threads          *)
(* interleave and however late one wakes up: the lock is held through the  *)
(* wait, and the wait is long enough (kis_broker.py:42-66).                *)
THEOREM WindowKept == BrokerSpec => []WindowBounded
<1>1. WindowInv => WindowBounded
  BY DEF WindowInv
<1>. QED
  BY <1>1, WindowStarts, WindowSteps, PTL DEF BrokerSpec

---------------------------------------------------------------------------
(* The entry pass.                                                         *)

(* The types of the variables, as far as the argument needs them.          *)
EntriesTypeOK ==
  /\ picks \in [Strategies -> Seq(Listed)]
  /\ \A sid \in Singles : Len(picks[sid]) <= 1
  /\ entries \in [EntryKeys -> [Listed -> Nat]]
  /\ orders \in Seq([key : EntryKeys, symbol : Listed, date : Nat, rest : Nat])
  /\ money \in Nat /\ date \in Nat

(* The pass has candidates of the preview that it began with.              *)
PassOfPreview ==
  /\ DOMAIN visit = {"on", "market", "queue", "at", "rest", "left", "sold", "limit"}
  /\ visit.rest \in Seq(Listed)
  /\ visit.queue \subseteq Strategies
  /\ ~visit.on => visit.rest = <<>> /\ visit.queue = {}
  /\ visit.rest # <<>> =>
       /\ visit.at \in Strategies
       /\ \A i \in DOMAIN visit.rest : \E j \in DOMAIN picks[visit.at] :
            visit.rest[i] = picks[visit.at][j]

(* The symbols of the orders for a key that wait.                          *)
Waiting(k) == {orders[i].symbol : i \in {j \in OpenOrders : orders[j].key = k}}

(* The symbols that wait for a key or are booked on it.                    *)
SymbolsOf(k) == Waiting(k) \cup {t \in Listed : entries[k][t] > 0}

(* What waits for a key and what is booked on it are of one symbol.        *)
OneSymbolSoFar ==
  \A k \in EntryKeys \ swapped : \A s, t \in SymbolsOf(k) : s = t

(* What waits for a strategy of one symbol is of that of the preview.      *)
WaitsForPick ==
  \A sid \in Singles : <<sid>> \notin swapped =>
    \A s \in Waiting(<<sid>>) : \A j \in DOMAIN picks[sid] : picks[sid][j] = s

(* The keys of a strategy of several symbols have theirs.                  *)
KeyOfSymbol ==
  \A sid \in Lists, s \in Listed : SymbolsOf(<<sid, s>>) \subseteq {s}

(* The inductive invariant of the entries.                                 *)
EntriesInv ==
  /\ EntriesTypeOK /\ PassOfPreview
  /\ OneSymbolSoFar /\ WaitsForPick /\ KeyOfSymbol

(* The invariant holds before the first cycle.                             *)
LEMMA EntriesStart == EntriesInit => EntriesInv
<1> SUFFICES ASSUME EntriesInit PROVE EntriesInv
  OBVIOUS
<1> USE DEF EntriesInit
<1>1. EntriesTypeOK
  BY EntriesAssumption, EmptySeq DEF EntriesTypeOK, NoShares
<1>2. PassOfPreview
  BY EmptySeq DEF PassOfPreview, NoVisit
<1>3. \A k \in EntryKeys : SymbolsOf(k) = {}
  BY DEF SymbolsOf, Waiting, OpenOrders, NoShares
<1>4. \A sid \in Lists, s \in Listed : <<sid, s>> \in EntryKeys
  BY DEF EntryKeys, EntryKey, Strategies
<1>5. \A sid \in Singles : Listed # {} => <<sid>> \in EntryKeys
  BY EntriesAssumption DEF EntryKeys, EntryKey, Strategies
<1>6. \A k : Waiting(k) = {}
  BY DEF Waiting, OpenOrders
<1>. QED
  BY <1>1, <1>2, <1>3, <1>4, <1>6
     DEF EntriesInv, OneSymbolSoFar, WaitsForPick, KeyOfSymbol

(* An order of the list.                                                   *)
LEMMA OrderIs ==
  ASSUME EntriesTypeOK, NEW i \in DOMAIN orders
  PROVE  orders[i] \in [key : EntryKeys, symbol : Listed, date : Nat, rest : Nat]
<1>1. i \in 1..Len(orders)
  BY DEF EntriesTypeOK
<1>. QED
  BY <1>1, ElementOfSeq DEF EntriesTypeOK

(* A booking of shares keeps the type of the entries.                      *)
LEMMA BookedIs ==
  ASSUME EntriesTypeOK, NEW k \in EntryKeys, NEW s \in Listed, NEW n \in Nat
  PROVE  [entries EXCEPT ![k][s] = @ + n] \in [EntryKeys -> [Listed -> Nat]]
<1>1. entries[k] \in [Listed -> Nat] /\ entries[k][s] + n \in Nat
  BY DEF EntriesTypeOK
<1>2. [entries[k] EXCEPT ![s] = @ + n] \in [Listed -> Nat]
  BY <1>1
<1>. QED
  BY <1>2 DEF EntriesTypeOK

(* A step that brings no key another symbol, and changes no preview.       *)
LEMMA NothingNew ==
  ASSUME EntriesInv, EntriesTypeOK', PassOfPreview', UNCHANGED <<picks, swapped>>,
         \A k : Waiting(k)' \subseteq Waiting(k),
         \A k \in EntryKeys : SymbolsOf(k)' \subseteq SymbolsOf(k)
  PROVE  EntriesInv'
<1>1. OneSymbolSoFar'
  BY DEF EntriesInv, OneSymbolSoFar
<1>2. WaitsForPick'
  BY DEF EntriesInv, WaitsForPick
<1>3. \A sid \in Lists, s \in Listed : <<sid, s>> \in EntryKeys
  BY DEF EntryKeys, EntryKey, Strategies
<1>4. KeyOfSymbol'
  BY <1>3 DEF EntriesInv, KeyOfSymbol
<1>. QED
  BY <1>1, <1>2, <1>4 DEF EntriesInv

(* A pass goes on with the candidates of a strategy, or is done with them. *)
LEMMA GoesOnIs ==
  ASSUME NEW sid \in Strategies, NEW rest \in Seq(Listed), NEW left,
         PassOfPreview, visit.on, picks' = picks,
         \A i \in DOMAIN rest : \E j \in DOMAIN picks[sid] : rest[i] = picks[sid][j],
         visit' = GoesOn(sid, rest, left)
  PROVE  PassOfPreview'
<1>1. CASE rest = <<>> \/ left = 0
  BY <1>1, EmptySeq DEF PassOfPreview, GoesOn
<1>2. CASE ~(rest = <<>> \/ left = 0)
  BY <1>2 DEF PassOfPreview, GoesOn
<1>. QED
  BY <1>1, <1>2

(* The steps of the pass that only move it on.                             *)
LEMMA PassMoves ==
  ASSUME EntriesInv, PassOfPreview',
         UNCHANGED <<picks, entries, orders, money, date, swapped>>
  PROVE  EntriesInv'
<1>1. EntriesTypeOK'
  BY DEF EntriesInv, EntriesTypeOK
<1>2. \A k : Waiting(k)' = Waiting(k) /\ SymbolsOf(k)' = SymbolsOf(k)
  BY DEF Waiting, SymbolsOf, OpenOrders
<1>. QED
  BY <1>1, <1>2, NothingNew

(* The rest of the candidates are candidates.                              *)
LEMMA RestIs ==
  ASSUME PassOfPreview, visit.rest # <<>>
  PROVE  /\ visit.on
         /\ visit.at \in Strategies
         /\ Head(visit.rest) \in Listed /\ Tail(visit.rest) \in Seq(Listed)
         /\ \E j \in DOMAIN picks[visit.at] : Head(visit.rest) = picks[visit.at][j]
         /\ \A i \in DOMAIN Tail(visit.rest) : \E j \in DOMAIN picks[visit.at] :
              Tail(visit.rest)[i] = picks[visit.at][j]
<1>1. visit.rest \in Seq(Listed) /\ visit.rest # <<>>
  BY DEF PassOfPreview
<1>2. /\ DOMAIN visit.rest = 1..Len(visit.rest) /\ Len(visit.rest) \in Nat \ {0}
      /\ Head(visit.rest) = visit.rest[1] /\ visit.rest[1] \in Listed
      /\ Tail(visit.rest) \in Seq(Listed)
      /\ DOMAIN Tail(visit.rest) = 1..Len(visit.rest) - 1
      /\ \A i \in 1..Len(visit.rest) - 1 : /\ Tail(visit.rest)[i] = visit.rest[i + 1]
                                           /\ i + 1 \in 1..Len(visit.rest)
  BY <1>1
<1>. QED
  BY <1>2 DEF PassOfPreview

(* An order for the candidate of the preview, at times executed at once.   *)
LEMMA SendKeeps ==
  ASSUME EntriesInv, NEW n \in 0..Position, BuysCandidate(n)
  PROVE  EntriesInv'
<1> DEFINE sid == visit.at
           s == Head(visit.rest)
           key == EntryKey(sid, s)
           qty == Least(Position, money)
           new == [key |-> key, symbol |-> s, date |-> date, rest |-> qty - n]
<1>1. /\ visit.on /\ sid \in Strategies /\ s \in Listed
      /\ Tail(visit.rest) \in Seq(Listed)
      /\ \E j \in DOMAIN picks[sid] : s = picks[sid][j]
      /\ \A i \in DOMAIN Tail(visit.rest) : \E j \in DOMAIN picks[sid] :
           Tail(visit.rest)[i] = picks[sid][j]
  BY RestIs DEF BuysCandidate, EntriesInv
<1>2. PassOfPreview'
  BY <1>1, GoesOnIs DEF BuysCandidate, EntriesInv
<1>3. key \in EntryKeys
  BY <1>1 DEF EntryKeys
<1>4. UNCHANGED <<picks, date, swapped>> /\ key \notin HeldKeys
  BY DEF BuysCandidate
<1>5. CASE UNCHANGED <<entries, orders, money>>
  BY <1>2, <1>4, <1>5, PassMoves
<1>6. CASE /\ n \in {0, qty} /\ orders' = Append(orders, new)
           /\ money' = money - qty /\ Booked(key, s, n)
  <2>1. qty \in Nat /\ qty <= money /\ n <= qty /\ n \in Nat /\ money \in Nat
    BY <1>6, EntriesAssumption DEF Least, EntriesInv, EntriesTypeOK
  <2>2. \/ entries' = [entries EXCEPT ![key][s] = @ + n]
        \/ entries' = entries
    BY <1>6 DEF Booked
  <2>3. EntriesTypeOK'
    <3>1. entries' \in [EntryKeys -> [Listed -> Nat]]
      <4>1. [entries EXCEPT ![key][s] = @ + n] \in [EntryKeys -> [Listed -> Nat]]
        BY <1>1, <1>3, <2>1, BookedIs DEF EntriesInv
      <4>. QED
        BY <2>2, <4>1 DEF EntriesInv, EntriesTypeOK
    <3>2. new \in [key : EntryKeys, symbol : Listed, date : Nat, rest : Nat]
      BY <1>1, <1>3, <2>1 DEF EntriesInv, EntriesTypeOK
    <3>3. orders' \in Seq([key : EntryKeys, symbol : Listed, date : Nat, rest : Nat])
      <4> HIDE DEF new
      <4>. QED
        BY <1>6, <3>2 DEF EntriesInv, EntriesTypeOK
    <3>. QED
      BY <1>4, <1>6, <2>1, <3>1, <3>3 DEF EntriesInv, EntriesTypeOK
  <2>4. \A i \in OpenOrders' : (i \in OpenOrders /\ orders'[i] = orders[i]) \/ orders'[i] = new
    <3>1. /\ DOMAIN orders' = 1..Len(orders) + 1 /\ DOMAIN orders = 1..Len(orders)
          /\ \A i \in 1..Len(orders) : orders'[i] = orders[i]
          /\ orders'[Len(orders) + 1] = new /\ Len(orders) \in Nat
      <4> HIDE DEF new
      <4>. QED
        BY <1>6 DEF EntriesInv, EntriesTypeOK
    <3>. QED
      BY <3>1 DEF OpenOrders
  <2>5. \A k : Waiting(k)' \subseteq Waiting(k) \cup (IF k = key THEN {s} ELSE {})
    BY <2>4 DEF Waiting
  <2>6. \A k \in EntryKeys \ {key} : SymbolsOf(k)' \subseteq SymbolsOf(k)
    BY <2>2, <2>5 DEF SymbolsOf, EntriesInv, EntriesTypeOK
  <2>7. \A t \in Listed : entries'[key][t] > 0 => t = s
    <3>1. \A t \in Listed : entries[key][t] = 0
      BY <1>3, <1>4 DEF HeldKeys, NoShares
    <3>2. \A t \in Listed \ {s} : entries'[key][t] = 0
      BY <1>3, <2>2, <3>1 DEF EntriesInv, EntriesTypeOK
    <3>. QED
      BY <3>2
  <2>8. \A k : k = key => SymbolsOf(k)' \subseteq Waiting(k) \cup {s}
    BY <2>5, <2>7 DEF SymbolsOf
  <2>9. key \notin swapped => Waiting(key) \subseteq {s}
    <3>1. CASE sid \in Lists
      BY <1>1, <3>1 DEF EntriesInv, KeyOfSymbol, SymbolsOf, EntryKey
    <3>2. CASE sid \in Singles
      BY <1>1, <3>2, EntriesAssumption DEF EntriesInv, WaitsForPick, EntryKey
    <3>. QED
      BY <1>1, <3>1, <3>2 DEF Strategies
  <2>10. OneSymbolSoFar'
    BY <1>4, <2>6, <2>8, <2>9 DEF EntriesInv, OneSymbolSoFar
  <2>11. KeyOfSymbol'
    <3> SUFFICES ASSUME NEW m \in Lists, NEW t \in Listed
                 PROVE  SymbolsOf(<<m, t>>)' \subseteq {t}
      BY DEF KeyOfSymbol
    <3>1. <<m, t>> \in EntryKeys
      BY DEF EntryKeys, EntryKey, Strategies
    <3>2. SymbolsOf(<<m, t>>) \subseteq {t} /\ Waiting(<<m, t>>) \subseteq {t}
      BY DEF EntriesInv, KeyOfSymbol, SymbolsOf
    <3>3. CASE <<m, t>> = key
      <4>1. t = s
        BY <3>3 DEF EntryKey
      <4>. QED
        BY <2>8, <3>2, <3>3, <4>1
    <3>. QED
      BY <2>6, <3>1, <3>2, <3>3
  <2>12. WaitsForPick'
    <3> SUFFICES ASSUME NEW m \in Singles, <<m>> \notin swapped, NEW t \in Waiting(<<m>>)',
                        NEW j \in DOMAIN picks[m]
                 PROVE  picks[m][j] = t
      BY <1>4 DEF WaitsForPick
    <3>1. CASE t \in Waiting(<<m>>)
      BY <3>1 DEF EntriesInv, WaitsForPick
    <3>2. CASE <<m>> = key /\ t = s
      <4>1. m = sid
        BY <3>2 DEF EntryKey
      <4>2. picks[m] \in Seq(Listed) /\ Len(picks[m]) <= 1
        BY DEF EntriesInv, EntriesTypeOK, Strategies
      <4>3. \A i \in DOMAIN picks[m] : i = j
        BY <4>2
      <4>. QED
        BY <1>1, <3>2, <4>1, <4>3
    <3>. QED
      BY <2>5, <3>1, <3>2
  <2>. QED
    BY <1>2, <2>3, <2>10, <2>11, <2>12 DEF EntriesInv
<1>. QED
  BY <1>5, <1>6 DEF BuysCandidate

(* Another preview: what waits for a strategy of one symbol is of the new  *)
(* one, or the strategy is set aside.                                      *)
LEMMA PickKeeps ==
  ASSUME EntriesInv, NEW sid \in Strategies, NEW new \in Rankings, PicksChange(sid, new)
  PROVE  EntriesInv'
<1>1. /\ UNCHANGED <<visit, entries, orders, money, date>> /\ ~visit.on
      /\ picks' = [picks EXCEPT ![sid] = new]
      /\ swapped \subseteq swapped'
  BY DEF PicksChange
<1>2. new \in Seq(Listed)
  <2>1. Cardinality(Listed) \in Nat
    BY EntriesAssumption, FS_CardinalityType
  <2>2. PICK m \in 0..Cardinality(Listed) : new \in [1..m -> Listed]
    BY <2>1 DEF Rankings, BoundedSeq, SeqOf
  <2>. QED
    BY <2>1, <2>2, SeqDef
<1>3. EntriesTypeOK'
  BY <1>1, <1>2 DEF PicksChange, EntriesInv, EntriesTypeOK, Strategies
<1>4. PassOfPreview'
  BY <1>1 DEF EntriesInv, PassOfPreview
<1>5. \A k : Waiting(k)' = Waiting(k) /\ SymbolsOf(k)' = SymbolsOf(k)
  BY <1>1 DEF Waiting, SymbolsOf, OpenOrders
<1>6. WaitsForPick'
  <2> SUFFICES ASSUME NEW m \in Singles, <<m>> \notin swapped', NEW t \in Waiting(<<m>>),
                      NEW j \in DOMAIN picks'[m]
               PROVE  picks'[m][j] = t
    BY <1>5 DEF WaitsForPick
  <2>1. CASE m # sid
    <3>1. picks'[m] = picks[m]
      BY <1>1, <2>1 DEF EntriesInv, EntriesTypeOK, Strategies
    <3>. QED
      BY <1>1, <3>1 DEF EntriesInv, WaitsForPick
  <2>2. CASE m = sid
    <3>1. picks'[m] = new /\ Len(new) <= 1
      BY <1>1, <2>2 DEF PicksChange, EntriesInv, EntriesTypeOK
    <3>2. j = 1 /\ new # <<>>
      BY <1>2, <3>1
    <3> DEFINE waiting == {orders[i].symbol : i \in {i \in OpenOrders : orders[i].key[1] = sid}}
    <3>3. waiting \ {new[1]} = {}
      BY <1>1, <2>2, <3>2 DEF PicksChange
    <3>4. t \in waiting
      BY <2>2 DEF Waiting
    <3>. QED
      BY <3>1, <3>2, <3>3, <3>4
  <2>. QED
    BY <2>1, <2>2
<1>. QED
  BY <1>1, <1>3, <1>4, <1>5, <1>6 DEF EntriesInv, OneSymbolSoFar, KeyOfSymbol

(* A booking is of a symbol that waits for the key.                        *)
LEMMA BookKeeps ==
  ASSUME EntriesInv, NEW i \in 1..MaxOrders, NEW n \in 1..Position, Books(i, n)
  PROVE  EntriesInv'
<1>1. /\ UNCHANGED <<picks, visit, money, date, swapped>>
      /\ i \in OpenOrders /\ n <= orders[i].rest
      /\ orders' = [orders EXCEPT ![i].rest = @ - n]
      /\ Booked(orders[i].key, orders[i].symbol, n)
  BY DEF Books
<1> DEFINE key == orders[i].key  s == orders[i].symbol
<1>0. orders[i] \in [key : EntryKeys, symbol : Listed, date : Nat, rest : Nat]
  BY <1>1, OrderIs DEF OpenOrders, EntriesInv
<1>2. /\ n \in Nat /\ n # 0
      /\ entries' = [entries EXCEPT ![key][s] = @ + n]
  BY <1>1, EntriesAssumption DEF Booked
<1>3. EntriesTypeOK'
  <2>1. entries' \in [EntryKeys -> [Listed -> Nat]]
    BY <1>0, <1>2, BookedIs DEF EntriesInv
  <2>2. [orders[i] EXCEPT !.rest = @ - n] \in
          [key : EntryKeys, symbol : Listed, date : Nat, rest : Nat]
    BY <1>0, <1>1, <1>2
  <2>3. orders' \in Seq([key : EntryKeys, symbol : Listed, date : Nat, rest : Nat])
    BY <1>1, <2>2 DEF EntriesInv, EntriesTypeOK, OpenOrders
  <2>. QED
    BY <1>1, <2>1, <2>3 DEF EntriesInv, EntriesTypeOK
<1>4. PassOfPreview'
  BY <1>1 DEF EntriesInv, PassOfPreview
<1>5. \A j \in OpenOrders' : /\ j \in OpenOrders /\ orders'[j].key = orders[j].key
                             /\ orders'[j].symbol = orders[j].symbol
  <2>1. DOMAIN orders' = DOMAIN orders
    BY <1>1
  <2>2. ASSUME NEW j \in DOMAIN orders
        PROVE  /\ orders'[j].key = orders[j].key /\ orders'[j].symbol = orders[j].symbol
               /\ orders'[j].rest > 0 => orders[j].rest > 0
    <3>1. CASE j = i
      BY <1>0, <1>1, <1>2, <3>1 DEF OpenOrders
    <3>2. CASE j # i
      BY <1>1, <3>2
    <3>. QED
      BY <3>1, <3>2
  <2>. QED
    BY <2>1, <2>2 DEF OpenOrders
<1>6. \A k : Waiting(k)' \subseteq Waiting(k)
  BY <1>5 DEF Waiting
<1>7. \A k \in EntryKeys : SymbolsOf(k)' \subseteq SymbolsOf(k)
  <2> SUFFICES ASSUME NEW k \in EntryKeys, NEW t \in Listed, entries'[k][t] > 0
               PROVE  t \in SymbolsOf(k)
    BY <1>6 DEF SymbolsOf
  <2>1. CASE k = key /\ t = s
    BY <1>0, <1>1, <2>1 DEF SymbolsOf, Waiting
  <2>2. CASE ~(k = key /\ t = s)
    <3>1. entries'[k][t] = entries[k][t]
      BY <1>0, <1>2, <2>2 DEF EntriesInv, EntriesTypeOK
    <3>. QED
      BY <3>1 DEF SymbolsOf
  <2>. QED
    BY <2>1, <2>2
<1>. QED
  BY <1>1, <1>3, <1>4, <1>6, <1>7, NothingNew

(* An order that is over waits no more.                                    *)
LEMMA ExpiryKeeps ==
  ASSUME EntriesInv, NEW i \in 1..MaxOrders, Expires(i)
  PROVE  EntriesInv'
<1>1. /\ UNCHANGED <<picks, visit, entries, date, swapped>>
      /\ i \in OpenOrders
      /\ orders' = [orders EXCEPT ![i].rest = 0]
      /\ money' = money + orders[i].rest
  BY DEF Expires
<1>2. orders[i] \in [key : EntryKeys, symbol : Listed, date : Nat, rest : Nat]
  BY <1>1, OrderIs DEF OpenOrders, EntriesInv
<1>3. EntriesTypeOK'
  <2>1. [orders[i] EXCEPT !.rest = 0] \in
          [key : EntryKeys, symbol : Listed, date : Nat, rest : Nat]
    BY <1>2
  <2>2. orders' \in Seq([key : EntryKeys, symbol : Listed, date : Nat, rest : Nat])
    BY <1>1, <2>1 DEF EntriesInv, EntriesTypeOK, OpenOrders
  <2>3. orders[i].rest \in Nat
    BY <1>2
  <2>4. money \in Nat /\ money' = money + orders[i].rest
    BY <1>1 DEF EntriesInv, EntriesTypeOK
  <2>. QED
    <3>1. money' \in Nat
      BY <2>3, <2>4
    <3>. QED
      BY <1>1, <2>2, <3>1 DEF EntriesInv, EntriesTypeOK
<1>4. PassOfPreview'
  BY <1>1 DEF EntriesInv, PassOfPreview
<1>5. \A j \in OpenOrders' : j \in OpenOrders /\ orders'[j] = orders[j]
  BY <1>1, <1>2 DEF OpenOrders
<1>6. \A k : Waiting(k)' \subseteq Waiting(k) /\ SymbolsOf(k)' \subseteq SymbolsOf(k)
  BY <1>1, <1>5 DEF Waiting, SymbolsOf
<1>. QED
  BY <1>1, <1>3, <1>4, <1>6, NothingNew

(* A sale leaves nothing on its key.                                       *)
LEMMA SaleKeeps ==
  ASSUME EntriesInv, NEW k \in EntryKeys, SaleDone(k)
  PROVE  EntriesInv'
<1>1. /\ UNCHANGED <<picks, visit, orders, money, date, swapped>>
      /\ entries' = [entries EXCEPT ![k] = NoShares]
  BY DEF SaleDone
<1>2. EntriesTypeOK'
  BY <1>1 DEF EntriesInv, EntriesTypeOK, NoShares
<1>3. PassOfPreview'
  BY <1>1 DEF EntriesInv, PassOfPreview
<1>4. \A m : Waiting(m)' = Waiting(m)
  BY <1>1 DEF Waiting, OpenOrders
<1>5. \A m \in EntryKeys : SymbolsOf(m)' \subseteq SymbolsOf(m)
  BY <1>1, <1>4 DEF SymbolsOf, NoShares, EntriesInv, EntriesTypeOK
<1>. QED
  BY <1>1, <1>2, <1>3, <1>4, <1>5, NothingNew

(* Every step keeps the invariant.                                         *)
LEMMA EntriesSteps == EntriesInv /\ [EntriesNext]_entriesVars => EntriesInv'
<1> SUFFICES ASSUME EntriesInv, [EntriesNext]_entriesVars PROVE EntriesInv'
  OBVIOUS
<1>1. CASE NextStrategy
  <2>1. /\ UNCHANGED <<picks, entries, orders, money, date, swapped>>
        /\ visit.queue # {}
    BY <1>1 DEF NextStrategy
  <2> DEFINE sid == CHOOSE x \in visit.queue : TRUE
  <2>2. sid \in Strategies /\ visit.on /\ picks[sid] \in Seq(Listed)
    BY <2>1 DEF EntriesInv, PassOfPreview, EntriesTypeOK
  <2>3. visit' = GoesOn(sid, picks[sid], Places(sid, visit.sold))
    BY <1>1 DEF NextStrategy
  <2>4. PassOfPreview'
    <3> HIDE DEF sid
    <3>. QED
      BY <2>1, <2>2, <2>3, GoesOnIs DEF EntriesInv
  <2>. QED
    BY <2>1, <2>4, PassMoves
<1>2. CASE PassesOver
  <2>1. PassOfPreview'
    BY <1>2, RestIs, GoesOnIs DEF PassesOver, EntriesInv
  <2>. QED
    BY <1>2, <2>1, PassMoves DEF PassesOver
<1>3. CASE CycleLeaves
  <2>1. PassOfPreview'
    BY <1>3, EmptySeq DEF CycleLeaves, NoVisit, PassOfPreview
  <2>. QED
    BY <1>3, <2>1, PassMoves DEF CycleLeaves
<1>4. CASE Midnight
  <2>1. /\ UNCHANGED <<picks, visit, entries, orders, money, swapped>>
        /\ date' = date + 1
    BY <1>4 DEF Midnight
  <2>2. EntriesTypeOK' /\ PassOfPreview'
    BY <2>1 DEF EntriesInv, EntriesTypeOK, PassOfPreview
  <2>3. \A k : Waiting(k)' = Waiting(k) /\ SymbolsOf(k)' = SymbolsOf(k)
    BY <2>1 DEF Waiting, SymbolsOf, OpenOrders
  <2>. QED
    BY <2>1, <2>2, <2>3, NothingNew
<1>5. ASSUME NEW market \in {"KRX", "US"}, NEW sold \in SUBSET HeldKeys,
             NEW limit \in {0, CountLimit}, CycleEnters(market, sold, limit)
      PROVE  EntriesInv'
  <2>1. PassOfPreview'
    BY <1>5, EmptySeq DEF CycleEnters, NoVisit, PassOfPreview
  <2>. QED
    BY <1>5, <2>1, PassMoves DEF CycleEnters
<1>6. CASE UNCHANGED entriesVars
  <2>1. /\ UNCHANGED <<picks, visit, entries, orders, money, date, swapped>>
    BY <1>6 DEF entriesVars
  <2>2. PassOfPreview'
    BY <2>1 DEF EntriesInv, PassOfPreview
  <2>. QED
    BY <2>1, <2>2, PassMoves
<1>. QED
  BY <1>1, <1>2, <1>3, <1>4, <1>5, <1>6,
     SendKeeps, PickKeeps, BookKeeps, ExpiryKeeps, SaleKeeps
     DEF EntriesNext

(* Bookings of several orders, late ones and those of another day, come    *)
(* together in one entry only for one symbol, unless the strategy's only   *)
(* symbol was changed while an order for the old one was open.             *)
THEOREM EntriesOfOneSymbol == EntriesSpec => []OneSymbolPerEntry
<1>1. EntriesInv => OneSymbolPerEntry
  BY DEF EntriesInv, OneSymbolSoFar, SymbolsOf, OneSymbolPerEntry
<1>. QED
  BY <1>1, EntriesStart, EntriesSteps, PTL DEF EntriesSpec

---------------------------------------------------------------------------
(* Attribution: the profit that is read off the log.                       *)

PlusStep == [p \in Int \X Int |-> p[1] + p[2]]

(* A sum is a fold.                                                        *)
LEMMA SumIsFold ==
  ASSUME NEW s \in Seq(Int)
  PROVE  Sum(s) = FoldOf(PlusStep, 0, s)
<1> DEFINE Adds(k) == k = [T \in SUBSET DOMAIN s |->
                             IF T = {} THEN 0 ELSE k[T \ {Max(T)}] + s[Max(T)]]
           h == CHOOSE k : Adds(k)
           Z == Int
<1>1. IsStep(PlusStep, Z, Z) /\ 0 \in Z /\ s \in Seq(Z)
  BY DEF PlusStep, IsStep
<1>2. PICK g \in [SUBSET DOMAIN s -> Int] : IsFold(g, PlusStep, 0, s)
  <2>1. \E k \in [SUBSET DOMAIN s -> Z] : IsFold(k, PlusStep, 0, s)
    <3> HIDE DEF Z
    <3>. QED
      BY <1>1, FoldExists DEF IsStep
  <2>. QED
    BY <2>1
<1>3. \A T \in SUBSET DOMAIN s : T # {} =>
        T \ {Max(T)} \in SUBSET DOMAIN s /\ s[Max(T)] \in Int
  BY LastPlace
<1>4. Adds(g)
  <2>1. \A T \in SUBSET DOMAIN s :
          g[T] = IF T = {} THEN 0 ELSE g[T \ {Max(T)}] + s[Max(T)]
    BY <1>2, <1>3 DEF IsFold, PlusStep
  <2>. QED
    BY <2>1
<1>5. Sum(s) = h[DOMAIN s]
  BY DEF Sum, FoldLeft, MapThenFoldSet
<1>6. Adds(h)
  BY <1>4
<1> HIDE DEF h
<1>7. h[{}] = 0
  BY <1>6
<1>8. \A T \in SUBSET DOMAIN s : T # {} /\ h[T \ {Max(T)}] \in Int =>
        h[T] = PlusStep[<<h[T \ {Max(T)}], s[Max(T)]>>]
  BY <1>3, <1>6 DEF PlusStep
<1>9. h[DOMAIN s] = FoldOf(PlusStep, 0, s)
  <2>1. FoldsIn(h, Z, PlusStep, 0, s)
    BY <1>7, <1>8 DEF FoldsIn
  <2> HIDE DEF Z
  <2>. QED
    BY <1>1, <2>1, FoldGiven
<1>. QED
  BY <1>5, <1>9

(* What sums of sequences are.                                             *)
LEMMA SumOfSeq ==
  /\ Sum(<<>>) = 0
  /\ \A s \in Seq(Int) : Sum(s) \in Int
  /\ \A s \in Seq(Int) : \A x \in Int : Sum(Append(s, x)) = Sum(s) + x
<1> DEFINE Z == Int
<1>1. /\ IsStep(PlusStep, Z, Z) /\ <<>> \in Seq(Z) /\ <<>> \in Seq(Int)
      /\ 0 \in Z /\ Seq(Z) = Seq(Int)
  BY EmptySeq DEF PlusStep, IsStep
<1> HIDE DEF Z
<1>2. Sum(<<>>) = 0
  <2>1. Sum(<<>>) = FoldOf(PlusStep, 0, <<>>)
    BY <1>1, SumIsFold
  <2>2. FoldOf(PlusStep, 0, <<>>) = 0
    BY <1>1, FoldOfNone DEF IsStep
  <2>. QED
    BY <2>1, <2>2
<1>3. ASSUME NEW s \in Seq(Int) PROVE Sum(s) \in Int
  <2>1. FoldOf(PlusStep, 0, s) \in Z
    BY <1>1, FoldOfIn DEF IsStep
  <2>. QED
    BY <2>1, SumIsFold DEF Z
<1>4. ASSUME NEW s \in Seq(Int), NEW x \in Int
      PROVE  Sum(Append(s, x)) = Sum(s) + x
  <2>1. Append(s, x) \in Seq(Int)
    BY AppendProperties
  <2>2. Sum(Append(s, x)) = FoldOf(PlusStep, 0, Append(s, x))
    BY <2>1, SumIsFold
  <2>3. FoldOf(PlusStep, 0, Append(s, x)) = PlusStep[<<FoldOf(PlusStep, 0, s), x>>]
    <3>1. x \in Z /\ s \in Seq(Z)
      BY DEF Z
    <3>. QED
      BY <1>1, <3>1, FoldOfMore
  <2>4. FoldOf(PlusStep, 0, s) = Sum(s) /\ Sum(s) \in Int
    BY <1>3, SumIsFold
  <2>. QED
    BY <2>2, <2>3, <2>4 DEF PlusStep
<1>. QED
  BY <1>2, <1>3, <1>4

(* The prices of the first m shares together.                              *)
Paid(b, m) == Sum([i \in 1..m |-> b[i]])

(* The first shares of a sequence are one.                                 *)
LEMMA FirstOf ==
  ASSUME NEW b \in Seq(Int), NEW m \in Nat, m <= Len(b)
  PROVE  /\ [i \in 1..m |-> b[i]] \in Seq(Int)
         /\ Len([i \in 1..m |-> b[i]]) = m
<1>1. \A i \in 1..m : b[i] \in Int
  <2> SUFFICES ASSUME NEW i \in 1..m PROVE b[i] \in Int
    OBVIOUS
  <2>1. i \in 1..Len(b)
    BY LenProperties
  <2>. QED
    BY <2>1, ElementOfSeq
<1> DEFINE f == [i \in 1..m |-> b[i]]
<1>2. f \in [1..m -> Int] /\ DOMAIN f = 1..m
  BY <1>1
<1> HIDE DEF f
<1>3. f \in Seq(Int) /\ Len(f) = m
  BY <1>2, IsASeq, LenProperties
<1>. QED
  BY <1>3 DEF f

(* The prices of the shares, one by one.                                   *)
LEMMA PaidIs ==
  ASSUME NEW b \in Seq(Int)
  PROVE  /\ Paid(b, 0) = 0
         /\ Paid(b, Len(b)) = Sum(b)
         /\ \A m \in 0..Len(b) : Paid(b, m) \in Int
         /\ \A m \in 0..(Len(b) - 1) : Paid(b, m + 1) = Paid(b, m) + b[m + 1]
<1>0. Len(b) \in Nat /\ DOMAIN b = 1..Len(b)
  BY LenProperties
<1>1. Paid(b, 0) = 0
  <2>1. [i \in 1..0 |-> b[i]] = <<>>
    OBVIOUS
  <2>. QED
    BY <2>1, SumOfSeq DEF Paid
<1>2. Paid(b, Len(b)) = Sum(b)
  <2>1. [i \in 1..Len(b) |-> b[i]] = b
    BY <1>0
  <2>. QED
    BY <2>1 DEF Paid
<1>3. ASSUME NEW m \in 0..Len(b) PROVE Paid(b, m) \in Int
  <2>1. m \in Nat /\ m <= Len(b)
    BY <1>0
  <2>. QED
    BY <2>1, FirstOf, SumOfSeq DEF Paid
<1>4. ASSUME NEW m \in 0..(Len(b) - 1)
      PROVE  Paid(b, m + 1) = Paid(b, m) + b[m + 1]
  <2> DEFINE f == [i \in 1..m |-> b[i]]
             g == [i \in 1..(m + 1) |-> b[i]]
  <2>1. m \in Nat /\ m <= Len(b) /\ m + 1 \in Nat /\ m + 1 <= Len(b) /\ m + 1 \in 1..Len(b)
    BY <1>0
  <2>2. f \in Seq(Int) /\ g \in Seq(Int) /\ Len(f) = m /\ Len(g) = m + 1
    BY <2>1, FirstOf
  <2>3. b[m + 1] \in Int
    BY <2>1, ElementOfSeq
  <2>4. g = Append(f, b[m + 1])
    <3>1. Append(f, b[m + 1]) \in Seq(Int) /\ Len(Append(f, b[m + 1])) = m + 1
      BY <2>2, <2>3, AppendProperties
    <3>2. \A i \in 1..(m + 1) : g[i] = Append(f, b[m + 1])[i]
      <4> SUFFICES ASSUME NEW i \in 1..(m + 1) PROVE g[i] = Append(f, b[m + 1])[i]
        OBVIOUS
      <4>1. g[i] = b[i]
        OBVIOUS
      <4>2. CASE i = m + 1
        BY <2>2, <2>3, <4>1, <4>2, AppendProperties
      <4>3. CASE i # m + 1
        <5>1. i \in 1..m
          BY <2>1, <4>3
        <5>2. f[i] = b[i] /\ i \in 1..Len(f)
          BY <2>2, <5>1
        <5> HIDE DEF f, g
        <5>. QED
          BY <2>2, <2>3, <4>1, <5>2, AppendProperties
      <4>. QED
        BY <4>2, <4>3
    <3> HIDE DEF f, g
    <3>. QED
      BY <2>2, <3>1, <3>2, SeqEqual
  <2>5. Sum(g) = Sum(f) + b[m + 1]
    <3> HIDE DEF f, g
    <3>. QED
      BY <2>2, <2>3, <2>4, SumOfSeq
  <2>. QED
    BY <2>5 DEF Paid
<1>. QED
  BY <1>1, <1>2, <1>3, <1>4

(* The shares after from up to to have one price.                          *)
OnePrice(b, from, to, v) == \A x \in (from + 1)..to : b[x] = v
Cost(q, v) == v * q

(* Together they cost as many times that price.                            *)
LEMMA PaidAtOnce ==
  ASSUME NEW b \in Seq(Int), NEW m \in Nat, NEW q \in Nat, m + q <= Len(b),
         NEW v \in Int, OnePrice(b, m, m + q, v)
  PROVE  Paid(b, m + q) = Paid(b, m) + Cost(q, v)
<1>0. Len(b) \in Nat
  BY LenProperties
<1> DEFINE Bad == {j \in 0..q : Paid(b, m + j) # Paid(b, m) + v * j}
<1>1. CASE Bad # {}
  <2>1. PICK n \in Bad : \A j \in Bad : n <= j
    <3>1. Bad \subseteq Nat
      OBVIOUS
    <3> HIDE DEF Bad
    <3>. QED
      BY <1>1, <3>1, LeastNumber
  <2>2. n \in 0..q /\ Paid(b, m + n) # Paid(b, m) + v * n
    OBVIOUS
  <2>3. Paid(b, m) \in Int
    <3>1. m \in 0..Len(b)
      BY <1>0
    <3>. QED
      BY <3>1, PaidIs
  <2>4. n # 0
    <3> SUFFICES ASSUME n = 0 PROVE FALSE
      OBVIOUS
    <3>1. m + n = m /\ v * n = 0
      OBVIOUS
    <3>. QED
      BY <2>2, <2>3, <3>1
  <2> DEFINE k == n - 1
  <2>5. k \in 0..q /\ k < n /\ n = k + 1 /\ m + k \in 0..(Len(b) - 1) /\ m + n = (m + k) + 1
    BY <1>0, <2>2, <2>4
  <2>6. Paid(b, m + k) = Paid(b, m) + v * k
    <3>1. k \notin Bad
      <4> HIDE DEF k, Bad
      <4>. QED
        BY <2>1, <2>2, <2>5
    <3>. QED
      BY <2>5, <3>1
  <2> HIDE DEF k
  <2>7. Paid(b, m + n) = Paid(b, m + k) + b[(m + k) + 1]
    BY <2>5, PaidIs
  <2>8. b[(m + k) + 1] = v
    <3>1. (m + k) + 1 \in (m + 1)..(m + q)
      BY <2>2, <2>5
    <3>. QED
      BY <3>1 DEF OnePrice
  <2>9. v * n = v * k + v /\ v * k \in Int
    BY <2>5
  <2>. QED
    BY <2>2, <2>3, <2>6, <2>7, <2>8, <2>9
<1>2. CASE Bad = {}
  <2>1. q \in 0..q
    OBVIOUS
  <2>. QED
    BY <1>2, <2>1 DEF Cost
<1>. QED
  BY <1>1, <1>2

(* Only the shares that are counted matter.                                *)
LEMMA PaidSame ==
  ASSUME NEW b, NEW c, NEW m \in Nat, \A x \in 1..m : b[x] = c[x]
  PROVE  Paid(b, m) = Paid(c, m)
<1>1. [i \in 1..m |-> b[i]] = [i \in 1..m |-> c[i]]
  OBVIOUS
<1>. QED
  BY <1>1 DEF Paid

---------------------------------------------------------------------------
(* Lots, and the shares that they are: those after from up to to, of the   *)
(* shares bought at the prices b.                                          *)
LotSet == [qty : Nat \ {0}, price : Int]

Follows(lot, b, from, to) ==
  /\ to = from + lot.qty
  /\ \A x \in (from + 1)..to : b[x] = lot.price

Covers(lots, b, from, to) ==
  \E c \in [0..Len(lots) -> Nat] :
    /\ c[0] = from /\ c[Len(lots)] = to
    /\ \A i \in 1..Len(lots) : Follows(lots[i], b, c[i - 1], c[i])

(* No lots are no shares.                                                  *)
LEMMA CoversNone ==
  ASSUME NEW b, NEW from \in Nat, NEW to
  PROVE  Covers(<<>>, b, from, to) <=> from = to
<1>1. Len(<<>>) = 0 /\ 0..0 = {0} /\ 1..0 = {}
  OBVIOUS
<1>2. ASSUME from = to PROVE Covers(<<>>, b, from, to)
  <2>1. [i \in 0..0 |-> from] \in [0..0 -> Nat] /\ [i \in 0..0 |-> from][0] = from
    OBVIOUS
  <2>. QED
    BY <1>1, <1>2, <2>1 DEF Covers
<1>3. ASSUME Covers(<<>>, b, from, to) PROVE from = to
  BY <1>1, <1>3 DEF Covers
<1>. QED
  BY <1>2, <1>3

(* A lot more is the shares that follow.                                   *)
LEMMA CoversMore ==
  ASSUME NEW s \in Seq(LotSet), NEW lot \in LotSet, NEW b,
         NEW from \in Nat, NEW to \in Nat
  PROVE  Covers(Append(s, lot), b, from, to)
           <=> \E mid \in Nat : Covers(s, b, from, mid) /\ Follows(lot, b, mid, to)
<1> DEFINE t == Append(s, lot)
           n == Len(s)
<1>1. /\ n \in Nat /\ t \in Seq(LotSet) /\ Len(t) = n + 1 /\ t[n + 1] = lot
      /\ \A i \in 1..n : t[i] = s[i]
  BY AppendProperties, LenProperties
<1>2. ASSUME Covers(t, b, from, to)
      PROVE  \E mid \in Nat : Covers(s, b, from, mid) /\ Follows(lot, b, mid, to)
  <2>1. PICK c \in [0..(n + 1) -> Nat] :
          /\ c[0] = from /\ c[n + 1] = to
          /\ \A i \in 1..(n + 1) : Follows(t[i], b, c[i - 1], c[i])
    <3> HIDE DEF t
    <3>. QED
      BY <1>1, <1>2 DEF Covers
  <2> DEFINE d == [i \in 0..n |-> c[i]]
  <2>2. d \in [0..n -> Nat] /\ d[0] = from /\ d[n] = c[n] /\ c[n] \in Nat
    BY <1>1, <2>1
  <2>3. ASSUME NEW i \in 1..n PROVE Follows(s[i], b, d[i - 1], d[i])
    <3>1. i \in 1..(n + 1) /\ i - 1 \in 0..n /\ i \in 0..n
      BY <1>1
    <3>2. Follows(t[i], b, c[i - 1], c[i]) /\ t[i] = s[i]
      BY <1>1, <2>1, <3>1
    <3>3. d[i - 1] = c[i - 1] /\ d[i] = c[i]
      BY <3>1
    <3> HIDE DEF d, t, n
    <3>. QED
      BY <3>2, <3>3
  <2>4. Covers(s, b, from, c[n])
    <3> HIDE DEF d
    <3>. QED
      BY <2>2, <2>3 DEF Covers
  <2>5. Follows(lot, b, c[n], to)
    <3>1. n + 1 \in 1..(n + 1) /\ (n + 1) - 1 = n
      BY <1>1
    <3>2. Follows(t[n + 1], b, c[(n + 1) - 1], c[n + 1])
      BY <2>1, <3>1
    <3> HIDE DEF t, n
    <3>. QED
      BY <1>1, <2>1, <3>1, <3>2
  <2>. QED
    BY <2>2, <2>4, <2>5
<1>3. ASSUME NEW mid \in Nat, Covers(s, b, from, mid), Follows(lot, b, mid, to)
      PROVE  Covers(t, b, from, to)
  <2>1. PICK c \in [0..n -> Nat] :
          /\ c[0] = from /\ c[n] = mid
          /\ \A i \in 1..n : Follows(s[i], b, c[i - 1], c[i])
    BY <1>3 DEF Covers
  <2> DEFINE d == [i \in 0..(n + 1) |-> IF i = n + 1 THEN to ELSE c[i]]
  <2>2. /\ d \in [0..(n + 1) -> Nat] /\ d[0] = from /\ d[n + 1] = to /\ d[n] = mid
        /\ \A i \in 0..n : d[i] = c[i]
    BY <1>1, <2>1
  <2>3. ASSUME NEW i \in 1..(n + 1) PROVE Follows(t[i], b, d[i - 1], d[i])
    <3>1. CASE i = n + 1
      <4>1. (n + 1) - 1 = n
        BY <1>1
      <4> HIDE DEF d, t, n
      <4>. QED
        BY <1>1, <1>3, <2>2, <3>1, <4>1
    <3>2. CASE i # n + 1
      <4>1. i \in 1..n /\ i - 1 \in 0..n /\ i \in 0..n
        BY <1>1, <3>2
      <4> HIDE DEF d, t, n
      <4>. QED
        BY <1>1, <2>1, <2>2, <4>1
    <3>. QED
      BY <3>1, <3>2
  <2> HIDE DEF d, t
  <2>4. d \in [0..Len(t) -> Nat] /\ d[Len(t)] = to
    BY <1>1, <2>2
  <2>5. \A i \in 1..Len(t) : Follows(t[i], b, d[i - 1], d[i])
    BY <1>1, <2>3
  <2>. QED
    BY <2>2, <2>4, <2>5 DEF Covers
<1>. QED
  BY <1>2, <1>3

(* Lots are no shares only when there are none, and they are shares of the *)
(* prices that they cover.                                                 *)
LEMMA CoversFacts ==
  ASSUME NEW b, NEW e, NEW s \in Seq(LotSet)
  PROVE  \A from \in Nat : \A to \in Nat : Covers(s, b, from, to) =>
           /\ from <= to
           /\ from = to => s = <<>>
           /\ (\A x \in 1..to : b[x] = e[x]) => Covers(s, e, from, to)
<1> DEFINE Ok(u) == \A from \in Nat : \A to \in Nat : Covers(u, b, from, to) =>
             /\ from <= to
             /\ from = to => u = <<>>
             /\ (\A x \in 1..to : b[x] = e[x]) => Covers(u, e, from, to)
           Bad == {u \in Seq(LotSet) : ~Ok(u)}
<1>1. Ok(<<>>)
  <2> SUFFICES ASSUME NEW from \in Nat, NEW to \in Nat, Covers(<<>>, b, from, to)
               PROVE  from <= to /\ Covers(<<>>, e, from, to)
    OBVIOUS
  <2>1. from = to
    BY CoversNone
  <2>. QED
    BY <2>1, CoversNone
<1>2. ASSUME NEW t \in Seq(LotSet), NEW lot \in LotSet, Ok(t)
      PROVE  Ok(Append(t, lot))
  <2> SUFFICES ASSUME NEW from \in Nat, NEW to \in Nat, Covers(Append(t, lot), b, from, to)
               PROVE  /\ from < to
                      /\ (\A x \in 1..to : b[x] = e[x]) => Covers(Append(t, lot), e, from, to)
    OBVIOUS
  <2>1. PICK mid \in Nat : Covers(t, b, from, mid) /\ Follows(lot, b, mid, to)
    BY CoversMore
  <2>2. from <= mid /\ ((\A x \in 1..mid : b[x] = e[x]) => Covers(t, e, from, mid))
    BY <1>2, <2>1
  <2>3. lot.qty \in Nat /\ lot.qty > 0 /\ to = mid + lot.qty
    BY <2>1 DEF Follows, LotSet
  <2>4. from < to /\ mid < to
    BY <2>2, <2>3
  <2>5. ASSUME \A x \in 1..to : b[x] = e[x]
        PROVE  Covers(Append(t, lot), e, from, to)
    <3>1. Covers(t, e, from, mid)
      BY <2>2, <2>4, <2>5
    <3>2. Follows(lot, e, mid, to)
      <4>1. \A x \in (mid + 1)..to : x \in 1..to
        OBVIOUS
      <4>. QED
        BY <2>1, <2>5, <4>1 DEF Follows
    <3>. QED
      BY <3>1, <3>2, CoversMore
  <2>. QED
    BY <2>4, <2>5
<1>3. Bad = {}
  <2> SUFFICES ASSUME Bad # {} PROVE FALSE
    OBVIOUS
  <2>1. Bad \subseteq Seq(LotSet)
    OBVIOUS
  <2>2. PICK u \in Bad : \/ u = <<>>
                         \/ \E t \in Seq(LotSet), x \in LotSet : u = Append(t, x) /\ t \notin Bad
    <3> HIDE DEF Bad
    <3>. QED
      BY <2>1, ShortestSeq
  <2>3. CASE u = <<>>
    <3>1. ~Ok(u)
      OBVIOUS
    <3> HIDE DEF Ok
    <3>. QED
      BY <1>1, <2>3, <3>1
  <2>4. ASSUME NEW t \in Seq(LotSet), NEW x \in LotSet, u = Append(t, x), t \notin Bad
        PROVE  FALSE
    <3>1. ~Ok(u) /\ Ok(t)
      BY <2>4
    <3> HIDE DEF Ok
    <3>. QED
      BY <1>2, <2>4, <3>1
  <2>. QED
    BY <2>2, <2>3, <2>4
<1>4. Ok(s)
  <2>1. s \notin Bad
    BY <1>3
  <2> HIDE DEF Ok
  <2>. QED
    BY <2>1
<1>. QED
  BY <1>4

(* What a sale has taken so far.                                           *)
TakeSet == [left : Nat, pnl : Int, lots : Seq(LotSet)]
Want(n) == [left |-> n, pnl |-> 0, lots |-> <<>>]
TakeStep(px) == [p \in TakeSet \X LotSet |-> TakesFrom(p[1], p[2], px)]

(* It takes what it wants of a lot, or all of it.                          *)
LEMMA TakesIs ==
  ASSUME NEW acc \in TakeSet, NEW lot \in LotSet, NEW px \in Int
  PROVE  /\ TakesFrom(acc, lot, px) \in TakeSet
         /\ \E take \in Nat :
              /\ take = IF acc.left < lot.qty THEN acc.left ELSE lot.qty
              /\ TakesFrom(acc, lot, px).left = acc.left - take
              /\ TakesFrom(acc, lot, px).pnl = acc.pnl + (px - lot.price) * take
              /\ take = lot.qty => TakesFrom(acc, lot, px).lots = acc.lots
              /\ take # lot.qty =>
                   /\ take < lot.qty
                   /\ Lot(lot.qty - take, lot.price) \in LotSet
                   /\ TakesFrom(acc, lot, px).lots
                        = Append(acc.lots, Lot(lot.qty - take, lot.price))
<1>1. /\ acc.left \in Nat /\ acc.pnl \in Int /\ acc.lots \in Seq(LotSet)
      /\ lot.qty \in Nat /\ lot.qty > 0 /\ lot.price \in Int
  BY DEF TakeSet, LotSet
<1>2. PICK take \in Nat : take = IF acc.left < lot.qty THEN acc.left ELSE lot.qty
  BY <1>1
<1>3. take <= acc.left /\ take <= lot.qty
  BY <1>1, <1>2
<1> DEFINE rest == IF take = lot.qty THEN acc.lots
                   ELSE Append(acc.lots, Lot(lot.qty - take, lot.price))
<1>4. TakesFrom(acc, lot, px) = [left |-> acc.left - take,
                             pnl |-> acc.pnl + (px - lot.price) * take,
                             lots |-> rest]
  BY <1>2 DEF TakesFrom
<1>5. ASSUME take # lot.qty
      PROVE  take < lot.qty /\ Lot(lot.qty - take, lot.price) \in LotSet
  <2>1. lot.qty - take \in Nat \ {0}
    BY <1>1, <1>3, <1>5
  <2>. QED
    BY <1>1, <1>3, <1>5, <2>1 DEF Lot, LotSet
<1>6. rest \in Seq(LotSet)
  <2>1. CASE take = lot.qty
    BY <1>1, <2>1
  <2>2. CASE take # lot.qty
    BY <1>1, <1>5, <2>2, AppendProperties
  <2>. QED
    BY <2>1, <2>2
<1>7. acc.left - take \in Nat /\ acc.pnl + (px - lot.price) * take \in Int
  BY <1>1, <1>3
<1>8. /\ take = lot.qty => rest = acc.lots
      /\ take # lot.qty => rest = Append(acc.lots, Lot(lot.qty - take, lot.price))
  OBVIOUS
<1> HIDE DEF rest
<1>9. /\ TakesFrom(acc, lot, px).left = acc.left - take
      /\ TakesFrom(acc, lot, px).pnl = acc.pnl + (px - lot.price) * take
      /\ TakesFrom(acc, lot, px).lots = rest
  BY <1>4
<1>10. TakesFrom(acc, lot, px) \in TakeSet
  BY <1>4, <1>6, <1>7 DEF TakeSet
<1>. QED
  BY <1>2, <1>5, <1>8, <1>9, <1>10

(* What a sale takes can be folded.                                        *)
LEMMA TakeStepIs ==
  ASSUME NEW px \in Int, NEW n \in Nat
  PROVE  IsStep(TakeStep(px), TakeSet, LotSet) /\ Want(n) \in TakeSet
<1>1. \A p \in TakeSet \X LotSet : TakesFrom(p[1], p[2], px) \in TakeSet
  BY TakesIs
<1>2. <<>> \in Seq(LotSet)
  BY EmptySeq
<1>3. Want(n) \in TakeSet
  BY <1>2 DEF Want, TakeSet
<1>. QED
  BY <1>1, <1>3 DEF IsStep, TakeStep

(* What a sale takes is the fold of it.                                    *)
LEMMA TakenIsFold ==
  ASSUME NEW s \in Seq(LotSet), NEW n \in Nat, NEW px \in Int
  PROVE  Taken(s, n, px) = FoldOf(TakeStep(px), Want(n), s)
<1> DEFINE Takings(k) == k = [T \in SUBSET DOMAIN s |->
                                IF T = {} THEN Want(n)
                                ELSE TakesFrom(k[T \ {Max(T)}], s[Max(T)], px)]
           h == CHOOSE k : Takings(k)
<1>1. IsStep(TakeStep(px), TakeSet, LotSet) /\ Want(n) \in TakeSet
  BY TakeStepIs
<1>2. PICK g \in [SUBSET DOMAIN s -> TakeSet] : IsFold(g, TakeStep(px), Want(n), s)
  BY <1>1, FoldExists DEF IsStep
<1>3. \A T \in SUBSET DOMAIN s : T # {} =>
        T \ {Max(T)} \in SUBSET DOMAIN s /\ s[Max(T)] \in LotSet
  BY LastPlace
<1>4. Takings(g)
  <2>1. \A T \in SUBSET DOMAIN s :
          g[T] = IF T = {} THEN Want(n) ELSE TakesFrom(g[T \ {Max(T)}], s[Max(T)], px)
    <3> SUFFICES ASSUME NEW T \in SUBSET DOMAIN s, T # {}
                 PROVE  g[T] = TakesFrom(g[T \ {Max(T)}], s[Max(T)], px)
      BY <1>2 DEF IsFold
    <3>1. g[T] = TakeStep(px)[<<g[T \ {Max(T)}], s[Max(T)]>>]
      BY <1>2 DEF IsFold
    <3>2. g[T \ {Max(T)}] \in TakeSet /\ s[Max(T)] \in LotSet
      BY <1>3
    <3>. QED
      BY <3>1, <3>2 DEF TakeStep
  <2>. QED
    BY <1>2, <2>1 DEF IsFold
<1>5. Taken(s, n, px) = h[DOMAIN s]
  BY DEF Taken, FoldLeft, MapThenFoldSet, Want
<1>6. Takings(h)
  BY <1>4
<1> HIDE DEF h
<1>7. FoldsIn(h, TakeSet, TakeStep(px), Want(n), s)
  <2>1. h[{}] = Want(n)
    BY <1>6
  <2>2. ASSUME NEW T \in SUBSET DOMAIN s, T # {}, h[T \ {Max(T)}] \in TakeSet
        PROVE  h[T] = TakeStep(px)[<<h[T \ {Max(T)}], s[Max(T)]>>]
    <3>1. h[T] = TakesFrom(h[T \ {Max(T)}], s[Max(T)], px)
      BY <1>6, <2>2
    <3>. QED
      BY <1>3, <2>2, <3>1 DEF TakeStep
  <2>. QED
    BY <2>1, <2>2 DEF FoldsIn
<1> HIDE DEF Takings
<1>8. h[DOMAIN s] = FoldOf(TakeStep(px), Want(n), s)
  BY <1>1, <1>7, FoldGiven
<1>. QED
  BY <1>5, <1>8

(* What a sale of n shares at px has done to lots that cover the shares    *)
(* after from up to to: it paired the first of them, and left the others.  *)
Pairs(t, n, px, b, from, to) ==
  \E m \in Nat :
    /\ m = IF n < to - from THEN n ELSE to - from
    /\ t.left = n - m
    /\ t.pnl = px * m - (Paid(b, from + m) - Paid(b, from))
    /\ Covers(t.lots, b, from + m, to)

(* The next lot gives the shares that follow.                              *)
LEMMA TakesNext ==
  ASSUME NEW b \in Seq(Int), NEW n \in Nat, NEW px \in Int, NEW from \in Nat,
         NEW mid \in Nat, NEW to \in Nat, from <= mid, to <= Len(b),
         NEW acc \in TakeSet, Pairs(acc, n, px, b, from, mid),
         NEW lot \in LotSet, Follows(lot, b, mid, to)
  PROVE  Pairs(TakesFrom(acc, lot, px), n, px, b, from, to)
<1> DEFINE new == TakesFrom(acc, lot, px)
<1>0. Len(b) \in Nat
  BY LenProperties
<1>1. PICK m \in Nat : /\ m = IF n < mid - from THEN n ELSE mid - from
                       /\ acc.left = n - m
                       /\ acc.pnl = px * m - (Paid(b, from + m) - Paid(b, from))
                       /\ Covers(acc.lots, b, from + m, mid)
  BY DEF Pairs
<1>2. /\ acc.left \in Nat /\ acc.pnl \in Int /\ acc.lots \in Seq(LotSet)
      /\ lot.qty \in Nat /\ lot.qty > 0 /\ lot.price \in Int
      /\ to = mid + lot.qty
  BY DEF TakeSet, LotSet, Follows
<1>20. \A x \in (mid + 1)..to : b[x] = lot.price
  BY DEF Follows
<1>3. PICK take \in Nat :
        /\ take = IF acc.left < lot.qty THEN acc.left ELSE lot.qty
        /\ new.left = acc.left - take
        /\ new.pnl = acc.pnl + (px - lot.price) * take
        /\ take = lot.qty => new.lots = acc.lots
        /\ take # lot.qty => /\ take < lot.qty
                             /\ Lot(lot.qty - take, lot.price) \in LotSet
                             /\ new.lots = Append(acc.lots, Lot(lot.qty - take, lot.price))
  BY TakesIs
<1> SUFFICES Pairs(new, n, px, b, from, to)
  OBVIOUS
<1> HIDE DEF new
<1>4. PICK q \in Nat, v \in Int : q = lot.qty /\ v = lot.price
  BY <1>2
<1>40. /\ q > 0 /\ to = mid + q /\ mid < to
       /\ take = IF acc.left < q THEN acc.left ELSE q
  BY <1>2, <1>3, <1>4
<1>5. \A j \in 0..Len(b) : Paid(b, j) \in Int
  BY PaidIs
<1>6. CASE n < mid - from
  <2>1. m = n /\ take = 0 /\ acc.left = 0
    BY <1>1, <1>2, <1>3, <1>6
  <2>2. n < to - from
    BY <1>6, <1>40
  <2>3. new.left = 0 /\ new.pnl = acc.pnl
    <3>1. (px - v) * take = 0
      BY <2>1
    <3>2. new.left = acc.left - take /\ new.pnl = acc.pnl + (px - v) * take
      BY <1>3, <1>4
    <3>. QED
      BY <1>2, <2>1, <3>1, <3>2
  <2>4. Lot(lot.qty - take, lot.price) \in LotSet /\ new.lots = Append(acc.lots, Lot(lot.qty - take, lot.price))
    BY <1>2, <1>3, <2>1
  <2>5. Follows(Lot(lot.qty - take, lot.price), b, mid, to)
    <3>1. lot.qty - take = lot.qty
      BY <1>2, <2>1
    <3>. QED
      BY <1>2, <1>20, <3>1 DEF Follows, Lot
  <2>6. Covers(new.lots, b, from + n, to)
    <3> DEFINE l == Lot(lot.qty - take, lot.price)
    <3>1. Covers(acc.lots, b, from + n, mid) /\ from + n \in Nat
      BY <1>1, <2>1
    <3> HIDE DEF l
    <3>2. Covers(Append(acc.lots, l), b, from + n, to)
      BY <1>2, <2>4, <2>5, <3>1, CoversMore DEF l
    <3>. QED
      BY <2>4, <3>2 DEF l
  <2>7. n = IF n < to - from THEN n ELSE to - from
    BY <2>2
  <2>8. /\ new.left = n - n
        /\ new.pnl = px * n - (Paid(b, from + n) - Paid(b, from))
    BY <1>1, <2>1, <2>3
  <2>. QED
    BY <2>6, <2>7, <2>8 DEF Pairs
<1>7. CASE ~(n < mid - from)
  <2>1. m = mid - from /\ from + m = mid /\ acc.left = n - m /\ Covers(acc.lots, b, mid, mid)
    BY <1>1, <1>7
  <2>2. acc.lots = <<>>
    BY <1>2, <2>1, CoversFacts
  <2> DEFINE k == m + take
  <2>30. take <= q /\ (take = n - m \/ take = q) /\ (take = n - m <=> n - m <= q) /\ m <= n
    BY <1>7, <1>40, <2>1
  <2>31. k \in Nat /\ from + k = mid + take /\ mid + take <= Len(b) /\ take <= lot.qty
    <3>1. k \in Nat
      OBVIOUS
    <3>2. from + k = mid + take
      BY <2>1
    <3>3. take <= q /\ to = mid + q
      BY <1>40, <2>30
    <3>4. mid + take <= Len(b)
      BY <1>0, <3>3
    <3>5. take <= lot.qty
      BY <1>4, <3>3
    <3>. QED
      BY <3>1, <3>2, <3>4, <3>5
  <2>32. k = IF n < to - from THEN n ELSE to - from
    <3>1. to - from = m + q
      BY <1>40, <2>1
    <3>. QED
      BY <2>30, <3>1
  <2>3. /\ k \in Nat /\ k = IF n < to - from THEN n ELSE to - from
        /\ take <= lot.qty /\ from + k = mid + take /\ mid + take <= Len(b)
    BY <2>31, <2>32
  <2>4. new.left = n - k
    BY <1>1, <1>3
  <2>5. Paid(b, mid + take) = Paid(b, mid) + v * take
    <3>1. OnePrice(b, mid, mid + take, v)
      <4> SUFFICES ASSUME NEW x \in (mid + 1)..(mid + take) PROVE b[x] = v
        BY DEF OnePrice
      <4>1. x \in (mid + 1)..to
        BY <1>40, <2>30
      <4>. QED
        BY <1>4, <1>20, <4>1
    <3>2. mid + take <= Len(b)
      BY <2>31
    <3> HIDE DEF k
    <3>3. Paid(b, mid + take) = Paid(b, mid) + Cost(take, v)
      BY <3>1, <3>2, PaidAtOnce
    <3>. QED
      BY <3>3 DEF Cost
  <2>6. new.pnl = px * k - (Paid(b, from + k) - Paid(b, from))
    <3>1. acc.pnl = px * m - (Paid(b, mid) - Paid(b, from))
      BY <1>1, <2>1
    <3>2. new.pnl = acc.pnl + (px * take - v * take)
      <4>1. (px - v) * take = px * take - v * take
        OBVIOUS
      <4>. QED
        BY <1>3, <1>4, <4>1
    <3>3. px * k = px * m + px * take
      OBVIOUS
    <3>4. /\ Paid(b, mid) \in Int /\ Paid(b, from) \in Int
          /\ px * m \in Int /\ px * take \in Int /\ v * take \in Int
      <4>1. mid \in 0..Len(b) /\ from \in 0..Len(b)
        BY <1>0, <1>2
      <4>. QED
        BY <1>5, <4>1
    <3>5. Paid(b, from + k) = Paid(b, mid) + v * take
      BY <2>5, <2>31
    <3> HIDE DEF k
    <3>. QED
      BY <3>1, <3>2, <3>3, <3>4, <3>5
  <2>7. Covers(new.lots, b, from + k, to)
    <3>1. CASE take = lot.qty
      <4>1. new.lots = <<>> /\ mid + take = to
        BY <1>2, <1>3, <2>2, <3>1
      <4>2. Covers(<<>>, b, to, to)
        BY CoversNone
      <4>. QED
        BY <2>31, <4>1, <4>2
    <3>2. CASE take # lot.qty
      <4> DEFINE l == Lot(lot.qty - take, lot.price)
      <4>1. /\ l \in LotSet /\ take < lot.qty
            /\ new.lots = Append(<<>>, l)
        BY <1>3, <2>2, <3>2
      <4>2. Follows(l, b, mid + take, to)
        <5>1. l.qty = lot.qty - take /\ l.price = lot.price
          BY DEF Lot
        <5>2. to = (mid + take) + (lot.qty - take)
          BY <1>4, <1>40
        <5>3. \A x \in ((mid + take) + 1)..to : b[x] = lot.price
          <6> SUFFICES ASSUME NEW x \in ((mid + take) + 1)..to PROVE b[x] = lot.price
            OBVIOUS
          <6>1. x \in (mid + 1)..to
            OBVIOUS
          <6>. QED
            BY <1>20, <6>1
        <5> HIDE DEF l
        <5>. QED
          BY <5>1, <5>2, <5>3 DEF Follows
      <4>3. Covers(<<>>, b, mid + take, mid + take) /\ mid + take \in Nat
        BY CoversNone
      <4>4. <<>> \in Seq(LotSet)
        BY EmptySeq
      <4> HIDE DEF l
      <4>5. Covers(Append(<<>>, l), b, mid + take, to)
        BY <4>1, <4>2, <4>3, <4>4, CoversMore
      <4>. QED
        BY <2>31, <4>1, <4>5
    <3>. QED
      BY <3>1, <3>2
  <2> HIDE DEF k
  <2>. QED
    BY <2>3, <2>4, <2>6, <2>7 DEF Pairs
<1>. QED
  BY <1>6, <1>7

(* A sale pairs its shares with the first ones that its lots cover.        *)
LEMMA TakenIs ==
  ASSUME NEW b \in Seq(Int), NEW n \in Nat, NEW px \in Int, NEW s \in Seq(LotSet)
  PROVE  /\ Taken(s, n, px) \in TakeSet
         /\ \A from \in Nat : \A to \in 0..Len(b) :
              Covers(s, b, from, to) => Pairs(Taken(s, n, px), n, px, b, from, to)
<1>0. Len(b) \in Nat
  BY LenProperties
<1>1. ASSUME NEW u \in Seq(LotSet)
      PROVE  Taken(u, n, px) \in TakeSet /\ Taken(u, n, px) = FoldOf(TakeStep(px), Want(n), u)
  <2>1. IsStep(TakeStep(px), TakeSet, LotSet) /\ Want(n) \in TakeSet
    BY TakeStepIs
  <2>2. FoldOf(TakeStep(px), Want(n), u) \in TakeSet
    BY <2>1, FoldOfIn DEF IsStep
  <2>3. Taken(u, n, px) = FoldOf(TakeStep(px), Want(n), u)
    BY TakenIsFold
  <2>. QED
    BY <2>2, <2>3
<1> DEFINE Ok(u) == \A from \in Nat : \A to \in 0..Len(b) :
             Covers(u, b, from, to) => Pairs(Taken(u, n, px), n, px, b, from, to)
           Bad == {u \in Seq(LotSet) : ~Ok(u)}
<1>2. Ok(<<>>)
  <2> SUFFICES ASSUME NEW from \in Nat, NEW to \in 0..Len(b), Covers(<<>>, b, from, to)
               PROVE  Pairs(Taken(<<>>, n, px), n, px, b, from, to)
    OBVIOUS
  <2>1. from = to
    BY CoversNone
  <2>2. Taken(<<>>, n, px) = Want(n)
    <3>1. <<>> \in Seq(LotSet)
      BY EmptySeq
    <3>2. IsStep(TakeStep(px), TakeSet, LotSet) /\ Want(n) \in TakeSet
      BY TakeStepIs
    <3>3. FoldOf(TakeStep(px), Want(n), <<>>) = Want(n)
      BY <3>2, FoldOfNone DEF IsStep
    <3>. QED
      BY <1>1, <3>1, <3>3
  <2>3. Paid(b, from) \in Int
    BY <2>1, PaidIs
  <2> DEFINE t == Want(n)
  <2>4. t.left = n /\ t.pnl = 0 /\ t.lots = <<>>
    BY DEF Want
  <2>5. 0 = IF n < to - from THEN n ELSE to - from
    BY <2>1
  <2>6. px * 0 - (Paid(b, from + 0) - Paid(b, from)) = 0 /\ from + 0 = to
    BY <2>1, <2>3
  <2>7. Covers(t.lots, b, from + 0, to)
    BY <2>4, <2>6, CoversNone
  <2> HIDE DEF t
  <2>8. Pairs(t, n, px, b, from, to)
    BY <2>4, <2>5, <2>6, <2>7 DEF Pairs
  <2>. QED
    BY <2>2, <2>8 DEF t
<1>3. ASSUME NEW t \in Seq(LotSet), NEW lot \in LotSet, Ok(t)
      PROVE  Ok(Append(t, lot))
  <2> SUFFICES ASSUME NEW from \in Nat, NEW to \in 0..Len(b),
                      Covers(Append(t, lot), b, from, to)
               PROVE  Pairs(Taken(Append(t, lot), n, px), n, px, b, from, to)
    OBVIOUS
  <2>0. to \in Nat /\ to <= Len(b)
    BY <1>0
  <2>1. PICK mid \in Nat : Covers(t, b, from, mid) /\ Follows(lot, b, mid, to)
    BY <2>0, CoversMore
  <2>2. from <= mid /\ mid \in 0..Len(b)
    <3>1. from <= mid
      BY <2>1, CoversFacts
    <3>2. lot.qty \in Nat /\ to = mid + lot.qty
      BY <2>1 DEF Follows, LotSet
    <3>. QED
      BY <1>0, <2>0, <3>1, <3>2
  <2>3. Pairs(Taken(t, n, px), n, px, b, from, mid)
    BY <1>3, <2>1, <2>2
  <2>4. Taken(Append(t, lot), n, px) = TakesFrom(Taken(t, n, px), lot, px)
    <3>1. Append(t, lot) \in Seq(LotSet)
      BY AppendProperties
    <3>2. Taken(Append(t, lot), n, px) = TakeStep(px)[<<Taken(t, n, px), lot>>]
      <4>1. IsStep(TakeStep(px), TakeSet, LotSet) /\ Want(n) \in TakeSet
        BY TakeStepIs
      <4>2. FoldOf(TakeStep(px), Want(n), Append(t, lot))
              = TakeStep(px)[<<FoldOf(TakeStep(px), Want(n), t), lot>>]
        BY <4>1, FoldOfMore
      <4>3. /\ Taken(Append(t, lot), n, px) = FoldOf(TakeStep(px), Want(n), Append(t, lot))
            /\ Taken(t, n, px) = FoldOf(TakeStep(px), Want(n), t)
        BY <1>1, <3>1
      <4>. QED
        BY <4>2, <4>3
    <3>. QED
      BY <1>1, <3>2 DEF TakeStep
  <2>5. Pairs(TakesFrom(Taken(t, n, px), lot, px), n, px, b, from, to)
    BY <1>1, <2>0, <2>1, <2>2, <2>3, TakesNext
  <2>. QED
    BY <2>4, <2>5
<1>4. Bad = {}
  <2> SUFFICES ASSUME Bad # {} PROVE FALSE
    OBVIOUS
  <2>1. Bad \subseteq Seq(LotSet)
    OBVIOUS
  <2>2. PICK u \in Bad : \/ u = <<>>
                         \/ \E t \in Seq(LotSet), x \in LotSet : u = Append(t, x) /\ t \notin Bad
    <3> HIDE DEF Bad
    <3>. QED
      BY <2>1, ShortestSeq
  <2>3. CASE u = <<>>
    <3>1. ~Ok(u)
      OBVIOUS
    <3> HIDE DEF Ok
    <3>. QED
      BY <1>2, <2>3, <3>1
  <2>4. ASSUME NEW t \in Seq(LotSet), NEW x \in LotSet, u = Append(t, x), t \notin Bad
        PROVE  FALSE
    <3>1. ~Ok(u) /\ Ok(t)
      BY <2>4
    <3> HIDE DEF Ok
    <3>. QED
      BY <1>3, <2>4, <3>1
  <2>. QED
    BY <2>2, <2>3, <2>4
<1>5. Ok(s)
  <2>1. s \notin Bad
    BY <1>4
  <2> HIDE DEF Ok
  <2>. QED
    BY <2>1
<1>. QED
  BY <1>1, <1>5

(* What was read of the log so far: lots and profit of every key.          *)
LogEvent == [event : {"fill", "other"}, key : Keys, side : {"buy", "sell"},
             qty : Nat \ {0}, price : Int]
Book == [lots : Seq(LotSet), pnl : Int]
NoBook == [k \in Keys |-> [lots |-> <<>>, pnl |-> 0]]
ReadStep == [p \in [Keys -> Book] \X LogEvent |-> Read(p[1], p[2])]

(* A line of the log changes the book of its key only.                     *)
LEMMA ReadIs ==
  ASSUME NEW acc \in [Keys -> Book], NEW o \in LogEvent
  PROVE  /\ Read(acc, o) \in [Keys -> Book]
         /\ o.event # "fill" => Read(acc, o) = acc
         /\ \A k \in Keys \ {o.key} : Read(acc, o)[k] = acc[k]
         /\ o.event = "fill" /\ o.side = "buy" =>
              /\ Lot(o.qty, o.price) \in LotSet
              /\ Read(acc, o)[o.key].pnl = acc[o.key].pnl
              /\ Read(acc, o)[o.key].lots = Append(acc[o.key].lots, Lot(o.qty, o.price))
         /\ o.event = "fill" /\ o.side = "sell" =>
              /\ Read(acc, o)[o.key].pnl
                   = acc[o.key].pnl + Taken(acc[o.key].lots, o.qty, o.price).pnl
              /\ Read(acc, o)[o.key].lots = Taken(acc[o.key].lots, o.qty, o.price).lots
<1>1. /\ o.event \in {"fill", "other"} /\ o.key \in Keys /\ o.side \in {"buy", "sell"}
      /\ o.qty \in Nat \ {0} /\ o.price \in Int
  BY DEF LogEvent
<1>2. acc[o.key] \in Book /\ acc[o.key].lots \in Seq(LotSet) /\ acc[o.key].pnl \in Int
  BY <1>1 DEF Book
<1>3. CASE o.event # "fill"
  BY <1>3 DEF Read
<1>4. CASE o.event = "fill" /\ o.side = "buy"
  <2>1. Lot(o.qty, o.price) \in LotSet
    BY <1>1 DEF Lot, LotSet
  <2>2. PICK l \in Seq(LotSet) : l = Append(acc[o.key].lots, Lot(o.qty, o.price))
    BY <1>2, <2>1, AppendProperties
  <2>3. Read(acc, o) = [acc EXCEPT ![o.key].lots = l]
    BY <1>4, <2>2 DEF Read
  <2>4. [acc[o.key] EXCEPT !.lots = l] \in Book
    BY <1>2 DEF Book
  <2>5. /\ Read(acc, o) \in [Keys -> Book]
        /\ \A k \in Keys \ {o.key} : Read(acc, o)[k] = acc[k]
        /\ Read(acc, o)[o.key] = [acc[o.key] EXCEPT !.lots = l]
    BY <1>1, <2>3, <2>4
  <2>6. Read(acc, o)[o.key].pnl = acc[o.key].pnl /\ Read(acc, o)[o.key].lots = l
    BY <1>2, <2>5 DEF Book
  <2>. QED
    BY <1>4, <2>1, <2>2, <2>5, <2>6
<1>5. CASE o.event = "fill" /\ o.side = "sell"
  <2> DEFINE t == Taken(acc[o.key].lots, o.qty, o.price)
             new == [lots |-> t.lots, pnl |-> acc[o.key].pnl + t.pnl]
  <2>1. <<>> \in Seq(Int)
    BY EmptySeq
  <2>2. t \in TakeSet
    BY <1>1, <1>2, <2>1, TakenIs
  <2>3. Read(acc, o) = [acc EXCEPT ![o.key] = new]
    BY <1>5 DEF Read
  <2>4. new \in Book /\ new.lots = t.lots /\ new.pnl = acc[o.key].pnl + t.pnl
    <3> HIDE DEF t
    <3>1. t.lots \in Seq(LotSet) /\ t.pnl \in Int
      BY <2>2 DEF TakeSet
    <3>. QED
      BY <1>2, <3>1 DEF Book
  <2> HIDE DEF new
  <2>5. /\ Read(acc, o) \in [Keys -> Book]
        /\ \A k \in Keys \ {o.key} : Read(acc, o)[k] = acc[k]
        /\ Read(acc, o)[o.key] = new
    BY <1>1, <2>3, <2>4
  <2>. QED
    BY <1>5, <2>4, <2>5
<1>. QED
  BY <1>1, <1>3, <1>4, <1>5

(* The summary is the fold of the log.                                     *)
LEMMA SummaryIs ==
  ASSUME NEW s \in Seq(LogEvent)
  PROVE  Summary(s) = FoldOf(ReadStep, NoBook, s)
<1> DEFINE Reads(k) == k = [T \in SUBSET DOMAIN s |->
                              IF T = {} THEN NoBook
                              ELSE Read(k[T \ {Max(T)}], s[Max(T)])]
           h == CHOOSE k : Reads(k)
           BookAll == [Keys -> Book]
<1>1. IsStep(ReadStep, BookAll, LogEvent) /\ NoBook \in BookAll
  <2>1. <<>> \in Seq(LotSet)
    BY EmptySeq
  <2>2. NoBook \in BookAll
    BY <2>1 DEF NoBook, Book
  <2>3. \A p \in BookAll \X LogEvent : Read(p[1], p[2]) \in BookAll
    BY ReadIs
  <2>. QED
    BY <2>2, <2>3 DEF IsStep, ReadStep
<1> HIDE DEF BookAll
<1>2. PICK g \in [SUBSET DOMAIN s -> BookAll] : IsFold(g, ReadStep, NoBook, s)
  BY <1>1, FoldExists DEF IsStep
<1>3. \A T \in SUBSET DOMAIN s : T # {} =>
        T \ {Max(T)} \in SUBSET DOMAIN s /\ s[Max(T)] \in LogEvent
  BY LastPlace
<1>4. Reads(g)
  <2>1. \A T \in SUBSET DOMAIN s :
          g[T] = IF T = {} THEN NoBook ELSE Read(g[T \ {Max(T)}], s[Max(T)])
    <3> SUFFICES ASSUME NEW T \in SUBSET DOMAIN s, T # {}
                 PROVE  g[T] = Read(g[T \ {Max(T)}], s[Max(T)])
      BY <1>2 DEF IsFold
    <3>1. g[T] = ReadStep[<<g[T \ {Max(T)}], s[Max(T)]>>]
      BY <1>2 DEF IsFold
    <3>2. g[T \ {Max(T)}] \in BookAll /\ s[Max(T)] \in LogEvent
      BY <1>3
    <3>. QED
      BY <3>1, <3>2 DEF ReadStep, BookAll
  <2>. QED
    BY <1>2, <2>1 DEF IsFold
<1>5. Summary(s) = h[DOMAIN s]
  BY DEF Summary, FoldLeft, MapThenFoldSet, NoBook
<1>6. Reads(h)
  BY <1>4
<1> HIDE DEF h
<1>7. FoldsIn(h, BookAll, ReadStep, NoBook, s)
  <2>1. h[{}] = NoBook
    BY <1>6
  <2>2. ASSUME NEW T \in SUBSET DOMAIN s, T # {}, h[T \ {Max(T)}] \in BookAll
        PROVE  h[T] = ReadStep[<<h[T \ {Max(T)}], s[Max(T)]>>]
    <3>1. h[T] = Read(h[T \ {Max(T)}], s[Max(T)])
      BY <1>6, <2>2
    <3>. QED
      BY <1>3, <2>2, <3>1 DEF ReadStep, BookAll
  <2>. QED
    BY <2>1, <2>2 DEF FoldsIn
<1> HIDE DEF Reads
<1>8. h[DOMAIN s] = FoldOf(ReadStep, NoBook, s)
  BY <1>1, <1>7, FoldGiven
<1>. QED
  BY <1>5, <1>8

(* The events of the log are read, and its lots and profit are those of    *)
(* the shares: the lots cover the ones bought and not yet sold.            *)
AttributionTyped ==
  /\ log \in Seq(LogEvent)
  /\ bought \in [Keys -> Seq(Int)] /\ soldUnits \in [Keys -> Seq(Int)]
  /\ Summary(log) \in [Keys -> Book]

Matched(k) ==
  /\ Len(soldUnits[k]) <= Len(bought[k])
  /\ Covers(Summary(log)[k].lots, bought[k], Len(soldUnits[k]), Len(bought[k]))
  /\ Summary(log)[k].pnl = Sum(soldUnits[k]) - Paid(bought[k], Len(soldUnits[k]))

AttributionInv ==
  /\ AttributionTyped
  /\ clean => \A k \in Keys : Matched(k)

(* The invariant holds in the beginning, and every step keeps it.          *)
LEMMA AttributionStarts == AttributionInit => AttributionInv
<1> SUFFICES ASSUME AttributionInit PROVE AttributionInv
  OBVIOUS
<1>1. log = <<>> /\ <<>> \in Seq(LogEvent) /\ <<>> \in Seq(Int) /\ <<>> \in Seq(LotSet)
  BY EmptySeq DEF AttributionInit
<1>2. Summary(log) = NoBook /\ NoBook \in [Keys -> Book]
  <2> DEFINE BookAll == [Keys -> Book]
  <2>1. NoBook \in BookAll
    BY <1>1 DEF NoBook, Book
  <2>2. IsStep(ReadStep, BookAll, LogEvent)
    BY ReadIs DEF IsStep, ReadStep
  <2> HIDE DEF BookAll
  <2>3. FoldOf(ReadStep, NoBook, <<>>) = NoBook
    BY <2>1, <2>2, FoldOfNone DEF IsStep
  <2>4. Summary(log) = FoldOf(ReadStep, NoBook, log)
    BY <1>1, SummaryIs
  <2>. QED
    BY <1>1, <2>1, <2>3, <2>4 DEF BookAll
<1>3. bought = [k \in Keys |-> <<>>] /\ soldUnits = [k \in Keys |-> <<>>]
  BY DEF AttributionInit
<1>4. AttributionTyped
  BY <1>1, <1>2, <1>3 DEF AttributionTyped
<1>5. ASSUME NEW k \in Keys PROVE Matched(k)
  <2>1. /\ soldUnits[k] = <<>> /\ bought[k] = <<>>
        /\ Summary(log)[k].lots = <<>> /\ Summary(log)[k].pnl = 0
    BY <1>2, <1>3 DEF NoBook
  <2>2. Covers(<<>>, <<>>, 0, 0)
    BY CoversNone
  <2>3. Sum(<<>>) = 0 /\ Paid(<<>>, 0) = 0 /\ Len(<<>>) = 0
    BY <1>1, SumOfSeq, PaidIs
  <2>. QED
    BY <2>1, <2>2, <2>3 DEF Matched
<1>. QED
  BY <1>4, <1>5 DEF AttributionInv

(* The summary after one more line.                                        *)
LEMMA LineAdded ==
  ASSUME NEW s \in Seq(LogEvent), Summary(s) \in [Keys -> Book], NEW o \in LogEvent
  PROVE  Append(s, o) \in Seq(LogEvent) /\ Summary(Append(s, o)) = Read(Summary(s), o)
<1> DEFINE BookAll == [Keys -> Book]
<1>1. Append(s, o) \in Seq(LogEvent) /\ Summary(s) \in BookAll
  BY AppendProperties
<1>2. /\ Summary(s) = FoldOf(ReadStep, NoBook, s)
      /\ Summary(Append(s, o)) = FoldOf(ReadStep, NoBook, Append(s, o))
  BY <1>1, SummaryIs
<1>3. NoBook \in BookAll /\ IsStep(ReadStep, BookAll, LogEvent)
  <2>1. <<>> \in Seq(LotSet)
    BY EmptySeq
  <2>2. NoBook \in BookAll
    BY <2>1 DEF NoBook, Book
  <2>. QED
    BY <2>2, ReadIs DEF IsStep, ReadStep
<1> HIDE DEF BookAll
<1>4. FoldOf(ReadStep, NoBook, Append(s, o)) = ReadStep[<<FoldOf(ReadStep, NoBook, s), o>>]
  BY <1>3, FoldOfMore
<1>5. ReadStep[<<Summary(s), o>>] = Read(Summary(s), o)
  BY <1>1 DEF ReadStep, BookAll
<1>. QED
  BY <1>1, <1>2, <1>4, <1>5

(* Shares that are bought or sold at one price, after those before.        *)
LEMMA TimesAdded ==
  ASSUME NEW b \in Seq(Int), NEW n \in Nat, NEW p \in Int
  PROVE  /\ b \o Times(n, p) \in Seq(Int)
         /\ Len(b \o Times(n, p)) = Len(b) + n
         /\ \A x \in 1..Len(b) : (b \o Times(n, p))[x] = b[x]
         /\ OnePrice(b \o Times(n, p), Len(b), Len(b) + n, p)
         /\ Sum(b \o Times(n, p)) = Sum(b) + Cost(n, p)
<1> DEFINE c == b \o Times(n, p)
<1>0. Len(b) \in Nat
  BY LenProperties
<1>1. Times(n, p) \in Seq(Int) /\ Len(Times(n, p)) = n /\ \A i \in 1..n : Times(n, p)[i] = p
  <2> DEFINE f == [i \in 1..n |-> p]
  <2>1. f \in [1..n -> Int] /\ DOMAIN f = 1..n /\ \A i \in 1..n : f[i] = p
    OBVIOUS
  <2> HIDE DEF f
  <2>2. f \in Seq(Int) /\ Len(f) = n
    BY <2>1
  <2>. QED
    BY <2>1, <2>2 DEF Times, f
<1>2. /\ c \in Seq(Int) /\ Len(c) = Len(b) + n
      /\ \A i \in 1..(Len(b) + n) :
           c[i] = IF i <= Len(b) THEN b[i] ELSE Times(n, p)[i - Len(b)]
  BY <1>1, ConcatProperties
<1> HIDE DEF c
<1>3. \A x \in 1..Len(b) : c[x] = b[x]
  BY <1>0, <1>2
<1>4. OnePrice(c, Len(b), Len(b) + n, p)
  <2> SUFFICES ASSUME NEW x \in (Len(b) + 1)..(Len(b) + n) PROVE c[x] = p
    BY DEF OnePrice
  <2>1. x \in 1..(Len(b) + n) /\ ~(x <= Len(b)) /\ x - Len(b) \in 1..n
    BY <1>0
  <2>. QED
    BY <1>1, <1>2, <2>1
<1>5. Sum(c) = Sum(b) + Cost(n, p)
  <2>1. Paid(c, Len(b) + n) = Paid(c, Len(b)) + Cost(n, p)
    <3>1. Len(b) + n <= Len(c)
      BY <1>0, <1>2
    <3>. QED
      BY <1>0, <1>2, <1>4, <3>1, PaidAtOnce
  <2>2. Paid(c, Len(b)) = Paid(b, Len(b))
    BY <1>0, <1>3, PaidSame
  <2>3. Paid(c, Len(c)) = Sum(c) /\ Paid(b, Len(b)) = Sum(b)
    BY <1>2, PaidIs
  <2>. QED
    BY <1>2, <2>1, <2>2, <2>3
<1>. QED
  BY <1>2, <1>3, <1>4, <1>5 DEF c

(* A purchase adds a lot, and shares that it covers.                       *)
LEMMA Purchase ==
  ASSUME AttributionInv, NEW k \in Keys, NEW n \in Nat \ {0}, NEW p \in Int,
         log' = Append(log, [event |-> "fill", key |-> k, side |-> "buy",
                             qty |-> n, price |-> p]),
         bought' = [bought EXCEPT ![k] = @ \o Times(n, p)],
         UNCHANGED <<soldUnits, clean>>
  PROVE  AttributionInv'
<1> DEFINE o == [event |-> "fill", key |-> k, side |-> "buy", qty |-> n, price |-> p]
           b == bought[k]
           c == b \o Times(n, p)
           S == Summary(log)
<1>1. o \in LogEvent /\ o.key = k /\ o.qty = n /\ o.price = p /\ o.event = "fill" /\ o.side = "buy"
  BY DEF LogEvent
<1> HIDE DEF o
<1>2. /\ log \in Seq(LogEvent) /\ S \in [Keys -> Book]
      /\ bought \in [Keys -> Seq(Int)] /\ soldUnits \in [Keys -> Seq(Int)]
  BY DEF AttributionInv, AttributionTyped
<1>3. log' \in Seq(LogEvent) /\ Summary(log') = Read(S, o)
  BY <1>1, <1>2, LineAdded DEF o
<1>4. /\ Read(S, o) \in [Keys -> Book]
      /\ \A j \in Keys \ {k} : Read(S, o)[j] = S[j]
      /\ Lot(n, p) \in LotSet
      /\ Read(S, o)[k].pnl = S[k].pnl
      /\ Read(S, o)[k].lots = Append(S[k].lots, Lot(n, p))
  <2> HIDE DEF S
  <2>. QED
    BY <1>1, <1>2, ReadIs
<1>5. b \in Seq(Int) /\ soldUnits[k] \in Seq(Int) /\ Len(b) \in Nat /\ Len(soldUnits[k]) \in Nat
  BY <1>2, LenProperties
<1>6. /\ c \in Seq(Int) /\ Len(c) = Len(b) + n
      /\ \A x \in 1..Len(b) : c[x] = b[x]
      /\ OnePrice(c, Len(b), Len(b) + n, p)
  <2> HIDE DEF b
  <2>. QED
    BY <1>5, TimesAdded
<1>7. bought' \in [Keys -> Seq(Int)] /\ bought'[k] = c /\ \A j \in Keys \ {k} : bought'[j] = bought[j]
  <2>1. bought' = [bought EXCEPT ![k] = c]
    OBVIOUS
  <2> HIDE DEF c
  <2>. QED
    BY <1>2, <1>6, <2>1
<1>8. AttributionTyped'
  BY <1>2, <1>3, <1>4, <1>7 DEF AttributionTyped
<1>9. ASSUME clean', NEW j \in Keys PROVE Matched(j)'
  <2>1. Matched(j) /\ Matched(k)
    BY <1>9 DEF AttributionInv
  <2>2. CASE j # k
    <3>1. bought'[j] = bought[j] /\ soldUnits'[j] = soldUnits[j] /\ Summary(log')[j] = S[j]
      BY <1>3, <1>4, <1>7, <2>2
    <3>. QED
      BY <2>1, <3>1 DEF Matched
  <2>3. CASE j = k
    <3> DEFINE d == Len(soldUnits[k])
               l == S[k].lots
    <3>1. d \in Nat /\ d <= Len(b) /\ Covers(l, b, d, Len(b)) /\ S[k].pnl = Sum(soldUnits[k]) - Paid(b, d)
      BY <1>5, <2>1 DEF Matched
    <3>2. l \in Seq(LotSet)
      BY <1>2 DEF Book
    <3> HIDE DEF b, c, l, d, S
    <3>3. Covers(l, c, d, Len(b))
      BY <1>5, <1>6, <3>1, <3>2, CoversFacts
    <3>4. Covers(Append(l, Lot(n, p)), c, d, Len(c))
      <4>1. Follows(Lot(n, p), c, Len(b), Len(c))
        BY <1>6 DEF Follows, Lot, OnePrice
      <4>2. Len(c) \in Nat
        BY <1>5, <1>6
      <4>. QED
        BY <1>4, <1>5, <3>1, <3>2, <3>3, <4>1, <4>2, CoversMore
    <3>5. Paid(c, d) = Paid(b, d)
      <4>1. \A x \in 1..d : c[x] = b[x]
        BY <1>5, <1>6, <3>1
      <4>. QED
        BY <3>1, <4>1, PaidSame
    <3>6. d <= Len(c)
      BY <1>5, <1>6, <3>1
    <3>7. /\ Summary(log')[k].pnl = Sum(soldUnits[k]) - Paid(c, d)
          /\ Summary(log')[k].lots = Append(l, Lot(n, p))
      BY <1>3, <1>4, <3>1, <3>5 DEF l
    <3>8. soldUnits' = soldUnits /\ bought'[k] = c
      BY <1>7
    <3>. QED
      BY <2>3, <3>4, <3>6, <3>7, <3>8 DEF Matched, d
  <2>. QED
    BY <2>2, <2>3
<1>. QED
  BY <1>8, <1>9 DEF AttributionInv

(* A sale pairs its shares with those that the lots cover first.           *)
LEMMA Sale ==
  ASSUME AttributionInv, NEW k \in Keys, NEW n \in Nat \ {0}, NEW p \in Int,
         log' = Append(log, [event |-> "fill", key |-> k, side |-> "sell",
                             qty |-> n, price |-> p]),
         soldUnits' = [soldUnits EXCEPT ![k] = @ \o Times(n, p)],
         clean' = (clean /\ Len(soldUnits'[k]) <= Len(bought[k])),
         UNCHANGED bought
  PROVE  AttributionInv'
<1> DEFINE o == [event |-> "fill", key |-> k, side |-> "sell", qty |-> n, price |-> p]
           a == soldUnits[k]
           b == bought[k]
           c == a \o Times(n, p)
           S == Summary(log)
           t == Taken(S[k].lots, n, p)
<1>1. o \in LogEvent /\ o.key = k /\ o.qty = n /\ o.price = p /\ o.event = "fill" /\ o.side = "sell"
  BY DEF LogEvent
<1> HIDE DEF o
<1>2. /\ log \in Seq(LogEvent) /\ S \in [Keys -> Book]
      /\ bought \in [Keys -> Seq(Int)] /\ soldUnits \in [Keys -> Seq(Int)]
  BY DEF AttributionInv, AttributionTyped
<1>3. log' \in Seq(LogEvent) /\ Summary(log') = Read(S, o)
  BY <1>1, <1>2, LineAdded DEF o
<1>4. /\ Read(S, o) \in [Keys -> Book]
      /\ \A j \in Keys \ {k} : Read(S, o)[j] = S[j]
      /\ Read(S, o)[k].pnl = S[k].pnl + t.pnl
      /\ Read(S, o)[k].lots = t.lots
  <2> HIDE DEF S
  <2>. QED
    BY <1>1, <1>2, ReadIs
<1>5. a \in Seq(Int) /\ b \in Seq(Int) /\ Len(a) \in Nat /\ Len(b) \in Nat /\ S[k].lots \in Seq(LotSet)
  BY <1>2, LenProperties DEF Book
<1>6. c \in Seq(Int) /\ Len(c) = Len(a) + n /\ Sum(c) = Sum(a) + Cost(n, p)
  <2> HIDE DEF a
  <2>. QED
    BY <1>5, TimesAdded
<1>7. soldUnits' \in [Keys -> Seq(Int)] /\ soldUnits'[k] = c /\ \A j \in Keys \ {k} : soldUnits'[j] = soldUnits[j]
  <2>1. soldUnits' = [soldUnits EXCEPT ![k] = c]
    OBVIOUS
  <2> HIDE DEF c
  <2>. QED
    BY <1>2, <1>6, <2>1
<1>8. AttributionTyped'
  BY <1>2, <1>3, <1>4, <1>7 DEF AttributionTyped
<1>9. ASSUME clean', NEW j \in Keys PROVE Matched(j)'
  <2>1. clean /\ Len(c) <= Len(b) /\ Matched(j) /\ Matched(k)
    BY <1>7, <1>9 DEF AttributionInv
  <2>2. CASE j # k
    <3>1. bought'[j] = bought[j] /\ soldUnits'[j] = soldUnits[j] /\ Summary(log')[j] = S[j]
      BY <1>3, <1>4, <1>7, <2>2
    <3>. QED
      BY <2>1, <3>1 DEF Matched
  <2>3. CASE j = k
    <3> DEFINE d == Len(a)
               l == S[k].lots
               to == Len(b)
    <3>1. d \in Nat /\ d <= to /\ Covers(l, b, d, to) /\ S[k].pnl = Sum(a) - Paid(b, d)
      BY <1>5, <2>1 DEF Matched
    <3>2. to \in 0..Len(b) /\ to \in Nat /\ l \in Seq(LotSet)
      BY <1>5
    <3>3. d + n <= to
      BY <1>6, <2>1
    <3> HIDE DEF a, b, c, S, l, d, to
    <3>4. Pairs(Taken(l, n, p), n, p, b, d, to)
      BY <1>5, <3>1, <3>2, TakenIs
    <3>5. /\ t.pnl = p * n - (Paid(b, d + n) - Paid(b, d))
          /\ Covers(t.lots, b, d + n, to)
      <4>1. ~(n < to - d) => to - d = n
        <5>1. n \in Int /\ d \in Int /\ to \in Int /\ d + n <= to
          BY <3>1, <3>2, <3>3
        <5> HIDE DEF t
        <5>. QED
          BY <5>1
      <4>2. Taken(l, n, p) = t
        BY DEF l
      <4> HIDE DEF t
      <4>3. PICK m \in Nat :
              /\ m = IF n < to - d THEN n ELSE to - d
              /\ t.pnl = p * m - (Paid(b, d + m) - Paid(b, d))
              /\ Covers(t.lots, b, d + m, to)
        BY <3>4, <4>2 DEF Pairs
      <4>4. m = n
        BY <4>1, <4>3
      <4>. QED
        BY <4>3, <4>4
    <3> HIDE DEF t
    <3>6. Summary(log')[k].pnl = Sum(c) - Paid(b, d + n)
      <4>1. Summary(log')[k].pnl = (Sum(a) - Paid(b, d)) + (p * n - (Paid(b, d + n) - Paid(b, d)))
        BY <1>3, <1>4, <3>1, <3>5
      <4>2. Sum(c) = Sum(a) + p * n
        BY <1>6 DEF Cost
      <4>3. Sum(a) \in Int /\ Paid(b, d) \in Int /\ Paid(b, d + n) \in Int /\ p * n \in Int
        <5>1. d \in 0..Len(b) /\ d + n \in 0..Len(b)
          BY <3>1, <3>2, <3>3 DEF to
        <5>. QED
          BY <1>5, <5>1, PaidIs, SumOfSeq
      <4>. QED
        BY <4>1, <4>2, <4>3
    <3>7. Summary(log')[k].lots = t.lots
      BY <1>3, <1>4
    <3>8. bought' = bought /\ soldUnits'[k] = c /\ Len(c) = d + n /\ Len(c) <= to
      BY <1>6, <1>7, <3>3 DEF d
    <3>. QED
      BY <2>3, <3>5, <3>6, <3>7, <3>8 DEF Matched, b, to
  <2>. QED
    BY <2>2, <2>3
<1>. QED
  BY <1>8, <1>9 DEF AttributionInv

(* So every step keeps it.                                                 *)
LEMMA AttributionSteps == AttributionInv /\ [AttributionNext]_attributionVars => AttributionInv'
<1> SUFFICES ASSUME AttributionInv, [AttributionNext]_attributionVars PROVE AttributionInv'
  OBVIOUS
<1>0. /\ LogPrices \subseteq Int /\ 1..MaxUnits \subseteq Nat \ {0}
  BY AttributionAssumption
<1>1. CASE LogFill
  <2>1. PICK k \in Keys, side \in {"buy", "sell"}, n \in 1..MaxUnits, p \in LogPrices :
          /\ log' = Append(log, [event |-> "fill", key |-> k, side |-> side,
                                 qty |-> n, price |-> p])
          /\ IF side = "buy"
             THEN /\ bought' = [bought EXCEPT ![k] = @ \o Times(n, p)]
                  /\ UNCHANGED <<soldUnits, clean>>
             ELSE /\ soldUnits' = [soldUnits EXCEPT ![k] = @ \o Times(n, p)]
                  /\ clean' = (clean /\ Len(soldUnits'[k]) <= Len(bought[k]))
                  /\ UNCHANGED bought
    BY <1>1 DEF LogFill
  <2>2. n \in Nat \ {0} /\ p \in Int
    BY <1>0
  <2>3. CASE side = "buy"
    BY <2>1, <2>2, <2>3, Purchase
  <2>4. CASE side # "buy"
    BY <2>1, <2>2, <2>4, Sale
  <2>. QED
    BY <2>3, <2>4
<1>2. CASE AppendFails
  <2>1. ~clean' /\ UNCHANGED <<log, bought, soldUnits>>
    BY <1>2 DEF AppendFails
  <2>2. AttributionTyped'
    BY <2>1 DEF AttributionInv, AttributionTyped
  <2>. QED
    BY <2>1, <2>2 DEF AttributionInv
<1>3. CASE LogOther
  <2>1. PICK k \in Keys :
          log' = Append(log, [event |-> "other", key |-> k, side |-> "buy",
                              qty |-> 1, price |-> 0])
    BY <1>3 DEF LogOther
  <2> DEFINE o == [event |-> "other", key |-> k, side |-> "buy", qty |-> 1, price |-> 0]
  <2>2. o \in LogEvent /\ o.event # "fill"
    BY DEF LogEvent
  <2>3. log \in Seq(LogEvent) /\ Summary(log) \in [Keys -> Book]
    BY DEF AttributionInv, AttributionTyped
  <2>4. UNCHANGED <<bought, soldUnits, clean>>
    BY <1>3 DEF LogOther
  <2>5. log' = Append(log, o)
    BY <2>1
  <2> HIDE DEF o
  <2>6. log' \in Seq(LogEvent) /\ Summary(log') = Read(Summary(log), o)
    BY <2>2, <2>3, <2>5, LineAdded
  <2>7. Summary(log') = Summary(log)
    BY <2>2, <2>3, <2>6, ReadIs
  <2>. QED
    BY <2>3, <2>4, <2>6, <2>7 DEF AttributionInv, AttributionTyped, Matched
<1>4. CASE UNCHANGED attributionVars
  BY <1>4 DEF attributionVars, AttributionInv, AttributionTyped, Matched
<1>. QED
  BY <1>1, <1>2, <1>3, <1>4 DEF AttributionNext

(* The profit that strategy_pnl_summary reads off the log is that of the   *)
(* n-th share sold paired with the n-th bought, for every strategy and     *)
(* symbol, while every fill is in the log and nothing is sold that was not *)
(* bought: for any prices, any sizes and any number of fills.              *)
THEOREM ProfitPairsInOrder == AttributionSpec => []PairedInOrder
<1>1. AttributionInv => PairedInOrder
  BY DEF AttributionInv, Matched, Paid, PairedInOrder
<1>. QED
  BY <1>1, AttributionStarts, AttributionSteps, PTL DEF AttributionSpec

====
