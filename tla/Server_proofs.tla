---- MODULE Server_proofs ----
(***************************************************************************)
(* Theorems about the parts of the server: the cache of the price files,   *)
(* the messages of the alarms, the previews, the freshness of their        *)
(* candidates, the table of stocks, the daily prices and the timeline; and *)
(* about what is sums of shares and money: the two backtests of the engine *)
(* and the settlement of the ledger with the account at KIS.               *)
(***************************************************************************)
EXTENDS DataCache, Alerts, Preview, Timeline, Screens, Freshness, Fetching,
        EventEngine, Rebalance, Account, Functions, FiniteSetTheorems,
        WellFoundedInduction, TLAPS

---------------------------------------------------------------------------
(* Finite sets: the induction that the library's theorems do not give      *)
(* without an operator as a parameter.                                     *)

(* A member of a set of sets of which no other member is a part.           *)
IsSmallest(T, Sets) == T \in Sets /\ \A U \in Sets : U \subseteq T => U = T

(* A set of subsets of a finite set has a smallest one.                    *)
LEMMA SmallestSubset ==
  ASSUME NEW S, IsFiniteSet(S), NEW Bad \in SUBSET SUBSET S, Bad # {}
  PROVE  \E T : IsSmallest(T, Bad)
<1>1. Bad \subseteq FiniteSubsetsOf(S)
  BY FS_Subset DEF FiniteSubsetsOf
<1>2. IsWellFoundedOn(StrictSubsetOrdering(S), FiniteSubsetsOf(S))
  BY FS_StrictSubsetOrderingWellFounded
<1>3. PICK T \in Bad : \A U \in Bad : <<U, T>> \notin StrictSubsetOrdering(S)
  BY <1>1, <1>2, WFMin
<1>. QED
  BY <1>3 DEF StrictSubsetOrdering, IsSmallest

(* The largest of a finite set of integers is there.                       *)
LEMMA MaxIsThere ==
  ASSUME NEW S, IsFiniteSet(S), S \subseteq Int, S # {}
  PROVE  Max(S) \in S /\ \A x \in S : Max(S) >= x
<1> DEFINE Above(n) == {x \in S : x >= n}
<1> DEFINE All == {Above(m) : m \in S}
<1>1. All \subseteq SUBSET S /\ All # {}
  OBVIOUS
<1>2. PICK T : IsSmallest(T, All)
  <2> HIDE DEF All
  <2>1. All \in SUBSET SUBSET S /\ All # {}
    BY <1>1
  <2>. QED
    BY <2>1, SmallestSubset
<1>3. PICK n \in S : T = Above(n)
  BY <1>2 DEF IsSmallest
<1>4. ASSUME NEW m \in S PROVE n >= m
  <2>1. m \in Int /\ n \in Int
    OBVIOUS
  <2> SUFFICES ASSUME m > n PROVE FALSE
    BY <2>1
  <2>2. Above(m) \in All
    OBVIOUS
  <2>3. Above(m) \subseteq Above(n)
    <3> SUFFICES ASSUME NEW x \in S, x >= m PROVE x >= n
      OBVIOUS
    <3>1. x \in Int
      OBVIOUS
    <3>. QED
      BY <2>1, <3>1
  <2>4. Above(m) = Above(n)
    BY <2>2, <2>3, <1>2, <1>3 DEF IsSmallest
  <2>5. n \in Above(m)
    BY <2>4, <2>1
  <2>. QED
    BY <2>5, <2>1
<1>. QED
  BY <1>4 DEF Max

---------------------------------------------------------------------------
(* Sums over a finite set.                                                 *)

(* The recursion by which the sum of f over the subsets of S is defined.   *)
IsSum(g, f, S) ==
  g = [T \in SUBSET S |->
         IF T = {} THEN 0
         ELSE f[CHOOSE x \in T : TRUE] + g[T \ {CHOOSE x \in T : TRUE}]]

(* The sums over all parts of S.                                           *)
SumsOf(f, S) == CHOOSE g : IsSum(g, f, S)

(* No two functions obey the recursion.                                    *)
LEMMA SumsAreUnique ==
  ASSUME NEW S, IsFiniteSet(S), NEW f, NEW g, NEW h, IsSum(g, f, S), IsSum(h, f, S)
  PROVE  g = h
<1> DEFINE Bad == {T \in SUBSET S : g[T] # h[T]}
<1>1. DOMAIN g = SUBSET S /\ DOMAIN h = SUBSET S
  BY DEF IsSum
<1>2. CASE Bad # {}
  <2>1. Bad \in SUBSET SUBSET S
    OBVIOUS
  <2>2. PICK T : IsSmallest(T, Bad)
    <3> HIDE DEF Bad
    <3>. QED
      BY <1>2, <2>1, SmallestSubset
  <2>3. T \in SUBSET S /\ g[T] # h[T]
    BY <2>2 DEF IsSmallest
  <2>4. CASE T = {}
    BY <2>3, <2>4 DEF IsSum
  <2>5. CASE T # {}
    <3> DEFINE x == CHOOSE y \in T : TRUE
               U == T \ {x}
    <3>1. x \in T
      BY <2>5
    <3>2. U \subseteq T /\ U # T /\ U \in SUBSET S
      BY <2>3, <3>1
    <3>3. g[U] = h[U]
      BY <2>2, <3>2 DEF IsSmallest
    <3>4. g[T] = f[x] + g[U] /\ h[T] = f[x] + h[U]
      BY <2>3, <2>5 DEF IsSum
    <3>. QED
      BY <2>3, <3>3, <3>4
  <2>. QED
    BY <2>4, <2>5
<1>3. CASE Bad = {}
  <2>1. \A T \in SUBSET S : g[T] = h[T]
    BY <1>3
  <2>2. g = [T \in SUBSET S |-> g[T]] /\ h = [T \in SUBSET S |-> h[T]]
    BY DEF IsSum
  <2>. QED
    BY <2>1, <2>2
<1>. QED
  BY <1>2, <1>3

(* What obeys it for a set does so for a part of the set.                  *)
LEMMA SumsOfPart ==
  ASSUME NEW S, NEW f, NEW g, IsSum(g, f, S), NEW T \in SUBSET S
  PROVE  IsSum([U \in SUBSET T |-> g[U]], f, T)
<1> DEFINE h == [U \in SUBSET T |-> g[U]]
<1>1. ASSUME NEW U \in SUBSET T
      PROVE  h[U] = IF U = {} THEN 0
                    ELSE f[CHOOSE x \in U : TRUE] + h[U \ {CHOOSE x \in U : TRUE}]
  <2>1. U \in SUBSET S /\ U \ {CHOOSE x \in U : TRUE} \in SUBSET T
    OBVIOUS
  <2>2. g[U] = IF U = {} THEN 0
               ELSE f[CHOOSE x \in U : TRUE] + g[U \ {CHOOSE x \in U : TRUE}]
    BY <2>1 DEF IsSum
  <2>. QED
    BY <2>1, <2>2
<1>. QED
  BY <1>1 DEF IsSum

(* There is a function that obeys it.                                      *)
LEMMA SumsExist ==
  ASSUME NEW S, IsFiniteSet(S), NEW f
  PROVE  IsSum(SumsOf(f, S), f, S)
<1> DEFINE Bad == {T \in SUBSET S : ~ \E g : IsSum(g, f, T)}
<1>1. CASE Bad # {}
  <2>1. Bad \in SUBSET SUBSET S
    OBVIOUS
  <2>2. PICK T : IsSmallest(T, Bad)
    <3> HIDE DEF Bad
    <3>. QED
      BY <1>1, <2>1, SmallestSubset
  <2>3. T \in SUBSET S /\ ~ \E g : IsSum(g, f, T)
    BY <2>2 DEF IsSmallest
  <2>4. ASSUME NEW U \in SUBSET T, U # T PROVE IsSum(SumsOf(f, U), f, U)
    <3>1. U \notin Bad /\ U \in SUBSET S
      BY <2>2, <2>3, <2>4 DEF IsSmallest
    <3>2. \E g : IsSum(g, f, U)
      BY <3>1
    <3>. QED
      BY <3>2 DEF SumsOf
  <2> DEFINE y(U) == CHOOSE x \in U : TRUE
             h == [U \in SUBSET T |->
                     IF U = {} THEN 0 ELSE f[y(U)] + SumsOf(f, U \ {y(U)})[U \ {y(U)}]]
  <2>5. ASSUME NEW U \in SUBSET T, U # T PROVE h[U] = SumsOf(f, U)[U]
    <3>1. IsSum(SumsOf(f, U), f, U)
      BY <2>4, <2>5
    <3>2. CASE U = {}
      BY <3>1, <3>2 DEF IsSum
    <3>3. CASE U # {}
      <4> DEFINE V == U \ {y(U)}
      <4>1. y(U) \in U /\ V \in SUBSET U /\ V \in SUBSET T /\ V # T
        BY <2>5, <3>3
      <4>2. IsSum(SumsOf(f, V), f, V)
        BY <2>4, <4>1
      <4>3. IsSum([W \in SUBSET V |-> SumsOf(f, U)[W]], f, V)
        <5> HIDE DEF V
        <5>. QED
          BY <3>1, <4>1, SumsOfPart
      <4>4. IsFiniteSet(V)
        BY <2>3, <4>1, FS_Subset
      <4>5. SumsOf(f, V) = [W \in SUBSET V |-> SumsOf(f, U)[W]]
        <5> HIDE DEF V
        <5>. QED
          BY <4>2, <4>3, <4>4, SumsAreUnique
      <4>6. SumsOf(f, V)[V] = SumsOf(f, U)[V]
        <5> HIDE DEF V
        <5>1. V \in SUBSET V
          OBVIOUS
        <5>. QED
          BY <4>5, <5>1
      <4>7. SumsOf(f, U)[U] = f[y(U)] + SumsOf(f, U)[V]
        BY <3>1, <3>3 DEF IsSum
      <4>8. h[U] = f[y(U)] + SumsOf(f, V)[V]
        BY <3>3
      <4>. QED
        BY <4>6, <4>7, <4>8
    <3>. QED
      BY <3>2, <3>3
  <2>6. ASSUME NEW U \in SUBSET T
        PROVE  h[U] = IF U = {} THEN 0 ELSE f[y(U)] + h[U \ {y(U)}]
    <3>1. CASE U = {}
      BY <3>1
    <3>2. CASE U # {}
      <4> DEFINE V == U \ {y(U)}
      <4>1. y(U) \in U /\ V \in SUBSET T /\ V # T
        BY <3>2
      <4>2. h[V] = SumsOf(f, V)[V]
        <5> HIDE DEF V, h
        <5>. QED
          BY <2>5, <4>1
      <4>3. h[U] = f[y(U)] + SumsOf(f, V)[V]
        BY <3>2
      <4>. QED
        BY <3>2, <4>2, <4>3
    <3>. QED
      BY <3>1, <3>2
  <2>7. IsSum(h, f, T)
    <3>1. h = [U \in SUBSET T |-> h[U]]
      OBVIOUS
    <3>2. [U \in SUBSET T |-> h[U]] =
          [U \in SUBSET T |-> IF U = {} THEN 0 ELSE f[y(U)] + h[U \ {y(U)}]]
      <4> HIDE DEF h
      <4>. QED
        BY <2>6
    <3> HIDE DEF h
    <3>. QED
      BY <3>1, <3>2 DEF IsSum
  <2>. QED
    BY <2>3, <2>7
<1>2. CASE Bad = {}
  <2>1. \E g : IsSum(g, f, S)
    BY <1>2
  <2>. QED
    BY <2>1 DEF SumsOf
<1>. QED
  BY <1>1, <1>2

(* The sum of the library is that of the recursion.                        *)
LEMMA SumIs ==
  ASSUME NEW S, NEW f
  PROVE  SumFunctionOnSet(f, S) = SumsOf(f, S)[S]
BY DEF SumFunctionOnSet, FoldFunctionOnSet, MapThenFoldSet, SumsOf, IsSum

(* The sum over no member is zero.                                         *)
LEMMA SumOfNone ==
  ASSUME NEW f
  PROVE  SumFunctionOnSet(f, {}) = 0
<1>1. IsSum(SumsOf(f, {}), f, {})
  BY SumsExist, FS_EmptySet
<1>. QED
  BY <1>1, SumIs DEF IsSum

(* The sum over a set that is not empty is one of the values and the sum   *)
(* over the rest.                                                          *)
LEMMA SumGrows ==
  ASSUME NEW S, IsFiniteSet(S), S # {}, NEW f
  PROVE  \E x \in S : SumFunctionOnSet(f, S) = f[x] + SumFunctionOnSet(f, S \ {x})
<1> DEFINE x == CHOOSE y \in S : TRUE
           T == S \ {x}
<1>1. x \in S /\ T \in SUBSET S /\ IsFiniteSet(T)
  BY FS_Subset
<1>2. IsSum(SumsOf(f, S), f, S) /\ IsSum(SumsOf(f, T), f, T)
  <2> HIDE DEF T
  <2>. QED
    BY <1>1, SumsExist
<1>3. SumsOf(f, T) = [U \in SUBSET T |-> SumsOf(f, S)[U]]
  <2> HIDE DEF T
  <2>1. IsSum([U \in SUBSET T |-> SumsOf(f, S)[U]], f, T)
    BY <1>1, <1>2, SumsOfPart
  <2>. QED
    BY <1>1, <1>2, <2>1, SumsAreUnique
<1>4. SumsOf(f, S)[S] = f[x] + SumsOf(f, S)[T]
  BY <1>2 DEF IsSum
<1>5. SumsOf(f, T)[T] = SumsOf(f, S)[T]
  <2> HIDE DEF T
  <2>1. T \in SUBSET T
    OBVIOUS
  <2>. QED
    BY <1>3, <2>1
<1>. QED
  BY <1>1, <1>4, <1>5, SumIs

(* A sum of integers is an integer.                                        *)
LEMMA SumIsInt ==
  ASSUME NEW S, IsFiniteSet(S), NEW f, \A x \in S : f[x] \in Int
  PROVE  SumFunctionOnSet(f, S) \in Int
<1> DEFINE Bad == {T \in SUBSET S : SumFunctionOnSet(f, T) \notin Int}
<1>1. CASE Bad # {}
  <2>1. PICK T : IsSmallest(T, Bad)
    <3>1. Bad \in SUBSET SUBSET S
      OBVIOUS
    <3> HIDE DEF Bad
    <3>. QED
      BY <1>1, <3>1, SmallestSubset
  <2>2. T \in SUBSET S /\ SumFunctionOnSet(f, T) \notin Int /\ IsFiniteSet(T)
    BY <2>1, FS_Subset DEF IsSmallest
  <2>3. T # {}
    BY <2>2, SumOfNone
  <2>4. PICK x \in T : SumFunctionOnSet(f, T) = f[x] + SumFunctionOnSet(f, T \ {x})
    BY <2>2, <2>3, SumGrows
  <2>5. T \ {x} \notin Bad /\ T \ {x} \in SUBSET S
    BY <2>1, <2>2 DEF IsSmallest
  <2>6. SumFunctionOnSet(f, T \ {x}) \in Int /\ f[x] \in Int
    BY <2>2, <2>5
  <2>. QED
    BY <2>2, <2>4, <2>6
<1>2. CASE Bad = {}
  <2>1. S \in SUBSET S
    OBVIOUS
  <2>. QED
    BY <1>2, <2>1
<1>. QED
  BY <1>1, <1>2

(* A sum of naturals is a natural.                                         *)
LEMMA SumIsNat ==
  ASSUME NEW S, IsFiniteSet(S), NEW f, \A x \in S : f[x] \in Nat
  PROVE  SumFunctionOnSet(f, S) \in Nat
<1> DEFINE Bad == {T \in SUBSET S : SumFunctionOnSet(f, T) \notin Nat}
<1>1. CASE Bad # {}
  <2>1. PICK T : IsSmallest(T, Bad)
    <3>1. Bad \in SUBSET SUBSET S
      OBVIOUS
    <3> HIDE DEF Bad
    <3>. QED
      BY <1>1, <3>1, SmallestSubset
  <2>2. T \in SUBSET S /\ SumFunctionOnSet(f, T) \notin Nat /\ IsFiniteSet(T)
    BY <2>1, FS_Subset DEF IsSmallest
  <2>3. T # {}
    BY <2>2, SumOfNone
  <2>4. PICK x \in T : SumFunctionOnSet(f, T) = f[x] + SumFunctionOnSet(f, T \ {x})
    BY <2>2, <2>3, SumGrows
  <2>5. T \ {x} \notin Bad /\ T \ {x} \in SUBSET S
    BY <2>1, <2>2 DEF IsSmallest
  <2>6. SumFunctionOnSet(f, T \ {x}) \in Nat /\ f[x] \in Nat
    BY <2>2, <2>5
  <2>. QED
    BY <2>2, <2>4, <2>6
<1>2. CASE Bad = {}
  <2>1. S \in SUBSET S
    OBVIOUS
  <2>. QED
    BY <1>2, <2>1
<1>. QED
  BY <1>1, <1>2

(* Functions that agree on a set have the same sum over it.                *)
LEMMA SumOfSame ==
  ASSUME NEW S, IsFiniteSet(S), NEW f, NEW g, \A x \in S : f[x] = g[x]
  PROVE  SumFunctionOnSet(f, S) = SumFunctionOnSet(g, S)
<1>1. /\ IsSum(SumsOf(f, S), f, S) /\ IsSum(SumsOf(g, S), g, S)
  BY SumsExist
<1>2. IsSum(SumsOf(f, S), g, S)
  <2> DEFINE h == SumsOf(f, S)
  <2>1. ASSUME NEW T \in SUBSET S
        PROVE  (IF T = {} THEN 0 ELSE f[CHOOSE x \in T : TRUE] + h[T \ {CHOOSE x \in T : TRUE}])
               = (IF T = {} THEN 0 ELSE g[CHOOSE x \in T : TRUE] + h[T \ {CHOOSE x \in T : TRUE}])
    <3>1. CASE T = {}
      BY <3>1
    <3>2. CASE T # {}
      <4>1. (CHOOSE x \in T : TRUE) \in S
        BY <3>2
      <4>. QED
        BY <4>1
    <3>. QED
      BY <3>1, <3>2
  <2> HIDE DEF h
  <2>2. IsSum(h, f, S)
    BY <1>1 DEF h
  <2>3. IsSum(h, g, S)
    BY <2>1, <2>2 DEF IsSum
  <2>. QED
    BY <2>3 DEF h
<1>3. SumsOf(f, S) = SumsOf(g, S)
  BY <1>1, <1>2, SumsAreUnique
<1>. QED
  BY <1>3, SumIs

(* Any member may be added last.                                           *)
LEMMA SumWith ==
  ASSUME NEW S, IsFiniteSet(S), NEW f, \A x \in S : f[x] \in Int
  PROVE  \A a \in S : SumFunctionOnSet(f, S) = f[a] + SumFunctionOnSet(f, S \ {a})
<1> DEFINE Parts(T) == \A a \in T :
                         SumFunctionOnSet(f, T) = f[a] + SumFunctionOnSet(f, T \ {a})
           Bad == {T \in SUBSET S : ~Parts(T)}
<1>1. CASE Bad # {}
  <2>1. PICK T : IsSmallest(T, Bad)
    <3>1. Bad \in SUBSET SUBSET S
      OBVIOUS
    <3> HIDE DEF Bad
    <3>. QED
      BY <1>1, <3>1, SmallestSubset
  <2>2. T \in SUBSET S /\ ~Parts(T)
    BY <2>1 DEF IsSmallest
  <2>3. PICK a \in T : SumFunctionOnSet(f, T) # f[a] + SumFunctionOnSet(f, T \ {a})
    BY <2>2
  <2>4. IsFiniteSet(T)
    BY <2>2, FS_Subset
  <2>5. PICK x \in T : SumFunctionOnSet(f, T) = f[x] + SumFunctionOnSet(f, T \ {x})
    BY <2>3, <2>4, SumGrows
  <2>6. x # a
    BY <2>3, <2>5
  <2> DEFINE U == T \ {x}  V == T \ {a}  W == T \ {a, x}
  <2>7. /\ a \in U /\ U \in SUBSET S /\ U # T /\ U \subseteq T
        /\ x \in V /\ V \in SUBSET S /\ V # T /\ V \subseteq T
        /\ W = U \ {a} /\ W = V \ {x} /\ W \in SUBSET S
    BY <2>2, <2>3, <2>5, <2>6
  <2>8. Parts(U) /\ Parts(V)
    <3>1. U \notin Bad /\ V \notin Bad
      <4> HIDE DEF U, V, Bad
      <4>. QED
        BY <2>1, <2>7 DEF IsSmallest
    <3> HIDE DEF U, V, Parts
    <3>. QED
      BY <2>7, <3>1
  <2>9. /\ SumFunctionOnSet(f, U) = f[a] + SumFunctionOnSet(f, W)
        /\ SumFunctionOnSet(f, V) = f[x] + SumFunctionOnSet(f, W)
    <3> HIDE DEF U, V, W
    <3>. QED
      BY <2>7, <2>8
  <2>10. SumFunctionOnSet(f, W) \in Int /\ f[a] \in Int /\ f[x] \in Int
    <3>1. IsFiniteSet(W)
      BY <2>7, FS_Subset
    <3>2. \A y \in W : f[y] \in Int
      BY <2>7
    <3> HIDE DEF W
    <3>. QED
      BY <2>2, <3>1, <3>2, SumIsInt
  <2>. QED
    BY <2>3, <2>5, <2>9, <2>10
<1>2. CASE Bad = {}
  <2>1. Parts(S)
    <3> HIDE DEF Parts
    <3>. QED
      BY <1>2
  <2>. QED
    BY <2>1
<1>. QED
  BY <1>1, <1>2

(* The smaller and the larger of two numbers.                              *)
LEMMA MaxOfTwo ==
  ASSUME NEW m \in Int, NEW n \in Int
  PROVE  /\ Max({m, n}) \in {m, n} /\ Max({m, n}) >= m /\ Max({m, n}) >= n
         /\ Min({m, n}) \in {m, n} /\ Min({m, n}) <= m /\ Min({m, n}) <= n
<1>1. CASE m >= n
  <2>1. \E x \in {m, n} : \A y \in {m, n} : x >= y
    BY <1>1
  <2>2. \E x \in {m, n} : \A y \in {m, n} : x <= y
    BY <1>1
  <2>. QED
    BY <2>1, <2>2 DEF Max, Min
<1>2. CASE n > m
  <2>1. \E x \in {m, n} : \A y \in {m, n} : x >= y
    BY <1>2
  <2>2. \E x \in {m, n} : \A y \in {m, n} : x <= y
    BY <1>2
  <2>. QED
    BY <2>1, <2>2 DEF Max, Min
<1>. QED
  BY <1>1, <1>2

(* Division by a positive number.                                          *)
LEMMA Divided ==
  ASSUME NEW m \in Nat, NEW n \in Nat, n > 0
  PROVE  m \div n \in Nat /\ (m \div n) * n <= m /\ m \div n <= m
OBVIOUS

(* The difference of two sums.                                             *)
LEMMA SumMinus ==
  ASSUME NEW S, IsFiniteSet(S), NEW f, NEW g, NEW h,
         \A x \in S : f[x] \in Int /\ g[x] \in Int /\ h[x] = f[x] - g[x]
  PROVE  SumFunctionOnSet(h, S) = SumFunctionOnSet(f, S) - SumFunctionOnSet(g, S)
<1> DEFINE Fits(T) == SumFunctionOnSet(h, T)
                        = SumFunctionOnSet(f, T) - SumFunctionOnSet(g, T)
           Bad == {T \in SUBSET S : ~Fits(T)}
<1>1. CASE Bad # {}
  <2>1. PICK T : IsSmallest(T, Bad)
    <3>1. Bad \in SUBSET SUBSET S
      OBVIOUS
    <3> HIDE DEF Bad
    <3>. QED
      BY <1>1, <3>1, SmallestSubset
  <2>2. T \in SUBSET S /\ ~Fits(T) /\ IsFiniteSet(T)
    BY <2>1, FS_Subset DEF IsSmallest
  <2>3. T # {}
    BY <2>2, SumOfNone
  <2>4. PICK x \in T : TRUE
    BY <2>3
  <2> DEFINE U == T \ {x}
  <2>5. U \in SUBSET S /\ U # T /\ U \subseteq T /\ IsFiniteSet(U) /\ x \in S
    BY <2>2, <2>4, FS_Subset
  <2>6. Fits(U)
    <3>1. U \notin Bad
      <4> HIDE DEF U, Bad
      <4>. QED
        BY <2>1, <2>5 DEF IsSmallest
    <3>. QED
      BY <2>5, <3>1
  <2>7. /\ SumFunctionOnSet(h, T) = h[x] + SumFunctionOnSet(h, U)
        /\ SumFunctionOnSet(f, T) = f[x] + SumFunctionOnSet(f, U)
        /\ SumFunctionOnSet(g, T) = g[x] + SumFunctionOnSet(g, U)
    <3>1. \A y \in T : f[y] \in Int /\ g[y] \in Int /\ h[y] \in Int
      BY <2>2
    <3>. QED
      BY <2>2, <2>4, <3>1, SumWith
  <2>8. SumFunctionOnSet(f, U) \in Int /\ SumFunctionOnSet(g, U) \in Int
    <3>1. \A y \in U : f[y] \in Int /\ g[y] \in Int
      BY <2>5
    <3> HIDE DEF U
    <3>. QED
      BY <2>5, <3>1, SumIsInt
  <2>9. f[x] \in Int /\ g[x] \in Int /\ h[x] = f[x] - g[x]
    BY <2>5
  <2> HIDE DEF U
  <2>. QED
    BY <2>2, <2>6, <2>7, <2>8, <2>9
<1>2. CASE Bad = {}
  <2>1. S \in SUBSET S
    OBVIOUS
  <2>. QED
    BY <1>2, <2>1
<1>. QED
  BY <1>1, <1>2

(* What is smaller everywhere has the smaller sum.                         *)
LEMMA SumAtMost ==
  ASSUME NEW S, IsFiniteSet(S), NEW f, NEW g,
         \A x \in S : f[x] \in Int /\ g[x] \in Int /\ g[x] <= f[x]
  PROVE  SumFunctionOnSet(g, S) <= SumFunctionOnSet(f, S)
<1> DEFINE h == [x \in S |-> f[x] - g[x]]
<1>1. \A x \in S : h[x] = f[x] - g[x] /\ h[x] \in Nat
  OBVIOUS
<1> HIDE DEF h
<1>2. SumFunctionOnSet(h, S) \in Nat
  BY <1>1, SumIsNat
<1>3. SumFunctionOnSet(h, S) = SumFunctionOnSet(f, S) - SumFunctionOnSet(g, S)
  BY <1>1, SumMinus
<1>4. SumFunctionOnSet(f, S) \in Int /\ SumFunctionOnSet(g, S) \in Int
  BY SumIsInt
<1>. QED
  BY <1>2, <1>3, <1>4

(* What is zero outside a part has the sum over the part.                  *)
LEMMA SumOnPart ==
  ASSUME NEW S, IsFiniteSet(S), NEW P \in SUBSET S, NEW f,
         \A x \in S : f[x] \in Int /\ (x \notin P => f[x] = 0)
  PROVE  SumFunctionOnSet(f, S) = SumFunctionOnSet(f, P)
<1> DEFINE Bad == {T \in SUBSET S : P \subseteq T
                     /\ SumFunctionOnSet(f, T) # SumFunctionOnSet(f, P)}
<1>1. CASE Bad # {}
  <2>1. PICK T : IsSmallest(T, Bad)
    <3>1. Bad \in SUBSET SUBSET S
      OBVIOUS
    <3> HIDE DEF Bad
    <3>. QED
      BY <1>1, <3>1, SmallestSubset
  <2>2. /\ T \in SUBSET S /\ P \subseteq T /\ IsFiniteSet(T)
        /\ SumFunctionOnSet(f, T) # SumFunctionOnSet(f, P)
    BY <2>1, FS_Subset DEF IsSmallest
  <2>3. PICK x \in T : x \notin P
    BY <2>2
  <2> DEFINE U == T \ {x}
  <2>4. U \in SUBSET S /\ U # T /\ U \subseteq T /\ P \subseteq U /\ IsFiniteSet(U) /\ x \in S
    BY <2>2, <2>3, FS_Subset
  <2>5. SumFunctionOnSet(f, U) = SumFunctionOnSet(f, P)
    <3>1. U \notin Bad
      <4> HIDE DEF U, Bad
      <4>. QED
        BY <2>1, <2>4 DEF IsSmallest
    <3>. QED
      BY <2>4, <3>1
  <2>6. SumFunctionOnSet(f, T) = f[x] + SumFunctionOnSet(f, U)
    <3>1. \A y \in T : f[y] \in Int
      BY <2>2
    <3>. QED
      BY <2>2, <2>3, <3>1, SumWith
  <2>7. SumFunctionOnSet(f, U) \in Int
    <3>1. \A y \in U : f[y] \in Int
      BY <2>4
    <3> HIDE DEF U
    <3>. QED
      BY <2>4, <3>1, SumIsInt
  <2>8. f[x] = 0
    BY <2>3, <2>4
  <2> HIDE DEF U
  <2>. QED
    BY <2>2, <2>5, <2>6, <2>7, <2>8
<1>2. CASE Bad = {}
  <2>1. S \in SUBSET S /\ P \subseteq S
    OBVIOUS
  <2>. QED
    BY <1>2, <2>1
<1>. QED
  BY <1>1, <1>2

(* A quotient is the last one that fits.                                   *)
LEMMA DivIs ==
  ASSUME NEW a \in Nat, NEW n \in Nat, n > 0
  PROVE  /\ a \div n \in Nat
         /\ (a \div n) * n <= a /\ a < (a \div n) * n + n
<1>1. PICK k \in Int : k = a \div n
  OBVIOUS
<1>2. k * n <= a /\ a < k * n + n
  BY <1>1
<1>3. k >= 0
  BY <1>2
<1>. QED
  BY <1>1, <1>2, <1>3

(* What is smaller a positive number of times is smaller.                  *)
LEMMA TimesLess ==
  ASSUME NEW a \in Int, NEW b \in Int, NEW n \in Nat, n > 0, a * n < b * n
  PROVE  a < b
<1> SUFFICES ASSUME b <= a PROVE FALSE
  OBVIOUS
<1>1. PICK d \in Nat : a = b + d
  <2>1. a - b \in Nat /\ a = b + (a - b)
    OBVIOUS
  <2>. QED
    BY <2>1
<1>2. d * n >= 0
  OBVIOUS
<1>3. a * n = b * n + d * n
  BY <1>1
<1>. QED
  BY <1>2, <1>3

(* Shares that are rounded down are together not more than the whole.      *)
LEMMA SharesOfSum ==
  ASSUME NEW S, IsFiniteSet(S), NEW f, NEW g, NEW t \in Nat, NEW n \in Nat, n > 0,
         \A x \in S : f[x] \in Nat /\ g[x] = (f[x] * t) \div n
  PROVE  SumFunctionOnSet(g, S) * n <= SumFunctionOnSet(f, S) * t
<1>0. \A x \in S : f[x] \in Nat /\ g[x] \in Nat /\ g[x] * n <= f[x] * t
  <2>1. ASSUME NEW x \in S PROVE g[x] \in Nat /\ g[x] * n <= f[x] * t
    <3>1. f[x] * t \in Nat /\ g[x] = (f[x] * t) \div n
      OBVIOUS
    <3>. QED
      BY <3>1, DivIs
  <2>. QED
    BY <2>1
<1> DEFINE Fits(T) == SumFunctionOnSet(g, T) * n <= SumFunctionOnSet(f, T) * t
           Bad == {T \in SUBSET S : ~Fits(T)}
<1>1. CASE Bad # {}
  <2>1. PICK T : IsSmallest(T, Bad)
    <3>1. Bad \in SUBSET SUBSET S
      OBVIOUS
    <3> HIDE DEF Bad
    <3>. QED
      BY <1>1, <3>1, SmallestSubset
  <2>2. T \in SUBSET S /\ ~Fits(T) /\ IsFiniteSet(T)
    BY <2>1, FS_Subset DEF IsSmallest
  <2>3. T # {}
    <3>1. 0 * n <= 0 * t
      OBVIOUS
    <3>2. SumFunctionOnSet(f, {}) = 0 /\ SumFunctionOnSet(g, {}) = 0
      BY SumOfNone
    <3>3. Fits({})
      BY <3>1, <3>2
    <3>. QED
      BY <2>2, <3>3
  <2>4. PICK x \in T : TRUE
    BY <2>3
  <2> DEFINE U == T \ {x}
  <2>5. U \in SUBSET S /\ U # T /\ U \subseteq T /\ IsFiniteSet(U) /\ x \in S
    BY <2>2, <2>4, FS_Subset
  <2>6. Fits(U)
    <3>1. U \notin Bad
      <4> HIDE DEF U, Bad
      <4>. QED
        BY <2>1, <2>5 DEF IsSmallest
    <3>. QED
      BY <2>5, <3>1
  <2>7. /\ SumFunctionOnSet(f, T) = f[x] + SumFunctionOnSet(f, U)
        /\ SumFunctionOnSet(g, T) = g[x] + SumFunctionOnSet(g, U)
    <3>1. \A y \in T : f[y] \in Int /\ g[y] \in Int
      BY <1>0, <2>2
    <3>. QED
      BY <2>2, <2>4, <3>1, SumWith
  <2>8. SumFunctionOnSet(f, U) \in Int /\ SumFunctionOnSet(g, U) \in Int
    <3>1. \A y \in U : f[y] \in Int /\ g[y] \in Int
      BY <1>0, <2>5
    <3> HIDE DEF U
    <3>. QED
      BY <2>5, <3>1, SumIsInt
  <2>9. f[x] \in Nat /\ g[x] \in Nat /\ g[x] * n <= f[x] * t
    BY <1>0, <2>5
  <2> HIDE DEF U
  <2>10. PICK p \in Int, q \in Int : p = SumFunctionOnSet(f, U) /\ q = SumFunctionOnSet(g, U)
    BY <2>8
  <2>11. q * n <= p * t
    BY <2>6, <2>10
  <2>12. (g[x] + q) * n <= (f[x] + p) * t
    <3>1. (g[x] + q) * n = g[x] * n + q * n /\ (f[x] + p) * t = f[x] * t + p * t
      BY <2>9
    <3>. QED
      BY <2>9, <2>11, <3>1
  <2>. QED
    BY <2>2, <2>7, <2>10, <2>12
<1>2. CASE Bad = {}
  <2>1. S \in SUBSET S
    OBVIOUS
  <2>. QED
    BY <1>2, <2>1
<1>. QED
  BY <1>1, <1>2

---------------------------------------------------------------------------
(* The cache of the price files.                                           *)

(* Only the request that has the lock loads.                               *)
LoadsAlone == \A r \in Requests : request[r].pc = "loads" => cacheLock = r

(* Whatever is cached or being loaded has a generation noted for it, and   *)
(* that is not ahead of the file.                                          *)
Noted ==
  /\ generation <= files
  /\ built # NoFrame => built <= generation
  /\ \A p \in CacheParts : cache[p] # NoFrame => built # NoFrame
  /\ \A r \in Requests : request[r].pc = "loads" => built # NoFrame

CacheInv == CacheTypeOK /\ LoadsAlone /\ Noted /\ StaleIsSeen

LEMMA CacheStarts == CacheInit => CacheInv
BY CacheAssumption
   DEF CacheInit, CacheInv, CacheTypeOK, LoadsAlone, Noted, StaleIsSeen, Empty, NoFrame,
       CacheParts

LEMMA CacheStep == CacheInv /\ [CacheNext]_cacheVars => CacheInv'
<1> SUFFICES ASSUME CacheInv, [CacheNext]_cacheVars  PROVE CacheInv'
  OBVIOUS
<1> USE CacheAssumption DEF CacheInv, CacheTypeOK, NoFrame
<1>1. CASE WritesFile
  BY <1>1 DEF WritesFile, LoadsAlone, Noted, StaleIsSeen
<1>2. CASE Marks
  BY <1>2 DEF Marks, LoadsAlone, Noted, StaleIsSeen
<1>3. CASE Invalidates
  BY <1>3 DEF Invalidates, Drops, Empty, LoadsAlone, Noted, StaleIsSeen
<1>4. ASSUME NEW r \in Requests, Asks(r)  PROVE CacheInv'
  <2>1. PICK p \in CacheParts : request' = [request EXCEPT ![r] = [pc |-> "asked", part |-> p]]
    BY <1>4 DEF Asks
  <2>2. request' \in [Requests -> [pc : {"idle", "asked", "loads"}, part : CacheParts]]
    BY <2>1
  <2>3. \A q \in Requests : request'[q].pc = "loads" => request[q].pc = "loads"
    BY <2>1
  <2>4. CASE UNCHANGED <<cache, built, masked>>
    BY <1>4, <2>2, <2>3, <2>4 DEF Asks, LoadsAlone, Noted, StaleIsSeen
  <2>5. CASE cacheLock = "free" /\ Drops
    BY <1>4, <2>2, <2>3, <2>5 DEF Asks, Drops, Empty, LoadsAlone, Noted, StaleIsSeen
  <2> QED  BY <1>4, <2>4, <2>5 DEF Asks
<1>5. ASSUME NEW r \in Requests, Finds(r)  PROVE CacheInv'
  BY <1>5 DEF Finds, To, LoadsAlone, Noted, StaleIsSeen
<1>6. ASSUME NEW r \in Requests, RequestStarts(r)  PROVE CacheInv'
  <2>1. /\ built' \in Nat \cup {-1} /\ built' # -1 /\ built' <= generation
        /\ masked' \subseteq CacheParts
    BY <1>6 DEF RequestStarts, Noted
  <2>2. request' \in [Requests -> [pc : {"idle", "asked", "loads"}, part : CacheParts]]
    BY <1>6 DEF RequestStarts, To
  <2>3. LoadsAlone'
    BY <1>6 DEF RequestStarts, To, LoadsAlone
  <2>4. Noted'
    BY <1>6, <2>1 DEF RequestStarts, Noted
  <2>5. StaleIsSeen'
    <3>1. CASE built = NoFrame
      BY <1>6, <3>1 DEF RequestStarts, Noted, StaleIsSeen
    <3>2. CASE built # NoFrame /\ built' = built /\ masked' = masked
      BY <1>6, <3>2 DEF RequestStarts, StaleIsSeen
    <3>3. CASE built # generation /\ masked' = {p \in CacheParts : cache[p] # NoFrame}
      BY <1>6, <3>3 DEF RequestStarts, StaleIsSeen
    <3> QED  BY <1>6, <3>1, <3>2, <3>3 DEF RequestStarts
  <2> QED  BY <1>6, <2>1, <2>2, <2>3, <2>4, <2>5 DEF RequestStarts
<1>7. ASSUME NEW r \in Requests, Loaded(r)  PROVE CacheInv'
  <2>1. request' \in [Requests -> [pc : {"idle", "asked", "loads"}, part : CacheParts]]
    BY <1>7 DEF Loaded, To
  <2>2. LoadsAlone'
    BY <1>7 DEF Loaded, To, LoadsAlone
  <2>3. Noted' /\ StaleIsSeen'
    BY <1>7 DEF Loaded, To, Noted, StaleIsSeen
  <2> QED  BY <1>7, <2>1, <2>2, <2>3 DEF Loaded
<1>8. ASSUME NEW r \in Requests, LoadFails(r)  PROVE CacheInv'
  BY <1>8 DEF LoadFails, To, LoadsAlone, Noted, StaleIsSeen
<1>9. CASE UNCHANGED cacheVars
  BY <1>9 DEF cacheVars, LoadsAlone, Noted, StaleIsSeen
<1> QED
  BY <1>1, <1>2, <1>3, <1>4, <1>5, <1>6, <1>7, <1>8, <1>9 DEF CacheNext

(* A cached part that lacks a change of the files whose generation is on   *)
(* file is dropped by the next check (data_cache.py:51-66), although parts *)
(* are loaded at different times and by different functions.               *)
THEOREM StaleSeen == CacheSpec => []StaleIsSeen
<1>1. CacheInv => StaleIsSeen
  BY DEF CacheInv
<1> QED  BY CacheStarts, CacheStep, <1>1, PTL DEF CacheSpec

(* Type correctness of the cache. *)
THEOREM CacheTypeCorrect == CacheSpec => []CacheTypeOK
<1>1. CacheInv => CacheTypeOK
  BY DEF CacheInv
<1> QED  BY CacheStarts, CacheStep, <1>1, PTL DEF CacheSpec

---------------------------------------------------------------------------
(* The messages of the alarms.                                             *)

Flags == {"switch", "loss", "missing", "drift", "slippage"}

Settings == [switch : BOOLEAN, loss : BOOLEAN, missing : BOOLEAN,
             drift : BOOLEAN, slippage : BOOLEAN, streak : Nat]

AtWork == [at : 1..6, snap : Snapshots, seen : Settings]

AlertTypeOK ==
  /\ settings \in Settings
  /\ heard \subseteq Flags
  /\ check \in [Checks -> {Nothing} \cup AtWork]
  /\ overlapped \in BOOLEAN /\ unrecorded \in BOOLEAN
  /\ misread \subseteq Flags /\ repeated \subseteq {"misread", "plain"}

(* Without an overlap a check is alone, and has read what is committed.    *)
Alone == ~overlapped =>
  /\ \A c, d \in Checks : Busy(c) /\ Busy(d) => c = d
  /\ \A c \in Checks : Busy(c) => check[c].seen = settings

(* What the user has heard is on record if every message was recorded and  *)
(* no snapshot struck it off that does not speak of it.                    *)
OnRecord == ~overlapped /\ ~unrecorded =>
  /\ \A f \in heard \ misread : settings[f]
  /\ "plain" \notin repeated

AlertInv == AlertTypeOK /\ Alone /\ OnRecord

LEMMA AlertStarts == AlertInit => AlertInv
<1> SUFFICES ASSUME AlertInit  PROVE AlertInv
  OBVIOUS
<1>1. settings \in Settings
  BY DEF AlertInit, Settings
<1>2. \A c \in Checks : ~Busy(c)
  BY DEF AlertInit, Busy
<1>3. check \in [Checks -> {Nothing} \cup AtWork]
  BY DEF AlertInit
<1> QED  BY <1>1, <1>2, <1>3 DEF AlertInit, AlertInv, AlertTypeOK, Alone, OnRecord

(* The alarm that a check has reached, the field it is recorded in, and    *)
(* the flags that it leaves alone.                                         *)
LEMMA AlarmFields ==
  ASSUME NEW i \in 1..6
  PROVE  /\ Alarms[i] \in {"switch", "drawdown", "missing", "loss", "drift", "slippage"}
         /\ Field(Alarms[i]) \in Flags
         /\ Alarms[i] \notin {"drawdown"} => Field(Alarms[i]) = Alarms[i]
         /\ Alarms[i] = "drawdown" => Field(Alarms[i]) = "loss"
<1>1. i = 1 \/ i = 2 \/ i = 3 \/ i = 4 \/ i = 5 \/ i = 6
  OBVIOUS
<1> QED  BY <1>1 DEF Alarms, Field, Flags

(* Writing one flag keeps the other ones.                                  *)
LEMMA SetTrue ==
  ASSUME NEW s \in Settings, NEW f \in Flags, NEW t, t = [s EXCEPT ![f] = TRUE]
  PROVE  t \in Settings /\ t[f] /\ \A g \in Flags \ {f} : t[g] = s[g]
<1>1. CASE f = "switch"  BY <1>1 DEF Settings, Flags
<1>2. CASE f = "loss"  BY <1>2 DEF Settings, Flags
<1>3. CASE f = "missing"  BY <1>3 DEF Settings, Flags
<1>4. CASE f = "drift"  BY <1>4 DEF Settings, Flags
<1>5. CASE f = "slippage"  BY <1>5 DEF Settings, Flags
<1> QED  BY <1>1, <1>2, <1>3, <1>4, <1>5 DEF Flags

LEMMA SetFalse ==
  ASSUME NEW s \in Settings, NEW f \in Flags, NEW t, t = [s EXCEPT ![f] = FALSE]
  PROVE  t \in Settings /\ ~t[f] /\ \A g \in Flags \ {f} : t[g] = s[g]
<1>1. CASE f = "switch"  BY <1>1 DEF Settings, Flags
<1>2. CASE f = "loss"  BY <1>2 DEF Settings, Flags
<1>3. CASE f = "missing"  BY <1>3 DEF Settings, Flags
<1>4. CASE f = "drift"  BY <1>4 DEF Settings, Flags
<1>5. CASE f = "slippage"  BY <1>5 DEF Settings, Flags
<1> QED  BY <1>1, <1>2, <1>3, <1>4, <1>5 DEF Flags

(* What a step of check c does to its own state, whatever the alarm.       *)
LEMMA Advances ==
  ASSUME AlertTypeOK, NEW c \in Checks, Busy(c), NEW seen \in Settings,
         Advance(c, seen)
  PROVE  /\ check' \in [Checks -> {Nothing} \cup AtWork]
         /\ \A d \in Checks \ {c} : check'[d] = check[d]
         /\ check'[c] # Nothing => check'[c].seen = seen
<1>1. check[c] \in AtWork
  BY DEF AlertTypeOK, Busy
<1> DEFINE rest == {i \in DOMAIN Alarms : i > check[c].at /\ Concerns(check[c].snap, Alarms[i])}
           coming == [at |-> CHOOSE i \in rest : \A j \in rest : i <= j,
                      snap |-> check[c].snap, seen |-> seen]
<1>2. check' = [check EXCEPT ![c] = IF rest = {} THEN Nothing ELSE coming]
  BY DEF Advance
<1>3. rest \subseteq 1..6
  BY DEF Alarms
<1>4. CASE rest = {}
  <2>1. check' = [check EXCEPT ![c] = Nothing]
    BY <1>2, <1>4
  <2> QED  BY <2>1 DEF AlertTypeOK
<1>5. CASE rest # {}
  <2> HIDE DEF rest
  <2>1. \E i \in rest : \A j \in rest : i <= j
    <3>1. PICK k \in rest : TRUE
      BY <1>5
    <3>2. \/ 1 \in rest \/ 2 \in rest \/ 3 \in rest \/ 4 \in rest \/ 5 \in rest \/ 6 \in rest
      BY <1>3, <3>1
    <3> QED  BY <1>3, <3>2
  <2>2. (CHOOSE i \in rest : \A j \in rest : i <= j) \in 1..6
    BY <1>3, <2>1
  <2>3. coming \in AtWork /\ coming.seen = seen
    BY <1>1, <2>2 DEF AtWork
  <2> HIDE DEF coming
  <2>4. check' = [check EXCEPT ![c] = coming]
    BY <1>2, <1>5
  <2> QED  BY <2>3, <2>4 DEF AlertTypeOK
<1> QED  BY <1>4, <1>5

(* What an alarm commits: its own record at most, and what it tells.       *)
LEMMA Records ==
  ASSUME AlertTypeOK, NEW c \in Checks, Busy(c), NEW told \in BOOLEAN,
         told => Raises(c), settings' = Recorded(c, told),
         NEW alarm, alarm = Alarms[check[c].at],
         NEW f, f = Field(alarm)
  PROVE  /\ settings' \in Settings
         /\ \A g \in Flags \ {f} : settings'[g] = settings[g]
         /\ told /\ (alarm = "switch" => check[c].snap.ks = "active") => settings'[f]
<1> DEFINE s == check[c].snap
           set == [settings EXCEPT ![f] = (alarm # "switch" \/ s.ks = "active")]
<1>1. /\ check[c].at \in 1..6 /\ s \in Snapshots /\ check[c].seen \in Settings
      /\ settings \in Settings
  BY DEF AlertTypeOK, Busy, AtWork
<1>2. /\ alarm \in {"switch", "drawdown", "missing", "loss", "drift", "slippage"}
      /\ f \in Flags /\ (alarm # "drawdown" => f = alarm) /\ (alarm = "drawdown" => f = "loss")
  BY <1>1, AlarmFields
<1>3. s.ks \in {"active", "clear", "absent"} /\ s.missing \in BOOLEAN
  BY <1>1 DEF Snapshots
<1>4. /\ set \in Settings
      /\ set[f] <=> (alarm # "switch" \/ s.ks = "active")
      /\ \A g \in Flags \ {f} : set[g] = settings[g]
  <2>1. f \in Flags /\ settings \in Settings
    BY <1>1, <1>2
  <2>2. CASE alarm # "switch" \/ s.ks = "active"
    <3>1. set = [settings EXCEPT ![f] = TRUE]
      BY <2>2
    <3>2. (alarm # "switch" \/ s.ks = "active") = TRUE
      BY <2>2
    <3> HIDE DEF set
    <3>3. set \in Settings
      BY <2>1, <3>1, SetTrue
    <3>4. set[f]
      BY <2>1, <3>1, SetTrue
    <3>5. \A g \in Flags \ {f} : set[g] = settings[g]
      BY <2>1, <3>1, SetTrue
    <3> QED  BY <3>2, <3>3, <3>4, <3>5
  <2>3. CASE ~(alarm # "switch" \/ s.ks = "active")
    <3>1. set = [settings EXCEPT ![f] = FALSE]
      BY <2>3
    <3> HIDE DEF set
    <3>2. f \in DOMAIN settings /\ \A g \in Flags : g \in DOMAIN settings
      BY <2>1 DEF Settings, Flags
    <3>3. set[f] = FALSE /\ \A g \in Flags \ {f} : set[g] = settings[g]
      BY <3>1, <3>2
    <3>4. set \in Settings
      <4>1. CASE f = "switch"  BY <2>1, <3>1, <4>1 DEF Settings
      <4>2. CASE f = "loss"  BY <2>1, <3>1, <4>2 DEF Settings
      <4>3. CASE f = "missing"  BY <2>1, <3>1, <4>3 DEF Settings
      <4>4. CASE f = "drift"  BY <2>1, <3>1, <4>4 DEF Settings
      <4>5. CASE f = "slippage"  BY <2>1, <3>1, <4>5 DEF Settings
      <4> QED  BY <2>1, <4>1, <4>2, <4>3, <4>4, <4>5 DEF Flags
    <3> QED  BY <2>3, <3>3, <3>4
  <2> QED  BY <2>2, <2>3
<1>5. CASE alarm # "missing"
  <2>1. settings' = IF told THEN set ELSE settings
    BY <1>5 DEF Recorded
  <2> HIDE DEF set
  <2> QED  BY <1>1, <1>2, <1>4, <2>1
<1>6. CASE alarm = "missing"
  <2>1. CASE s.missing
    <3> DEFINE flag == IF told THEN set ELSE settings
    <3>1. settings' = [flag EXCEPT !.streak = Streak(c)]
      BY <1>6, <2>1 DEF Recorded
    <3>2. flag \in Settings /\ Streak(c) \in Nat
      BY <1>1, <1>4 DEF Streak, Settings
    <3>3. settings' \in Settings /\ \A g \in Flags : settings'[g] = flag[g]
      <4> HIDE DEF flag
      <4> QED  BY <3>1, <3>2 DEF Settings, Flags
    <3>4. told => flag[f]
      BY <1>4, <1>6
    <3>5. \A g \in Flags \ {f} : flag[g] = settings[g]
      BY <1>4
    <3> HIDE DEF flag
    <3> QED  BY <1>2, <3>3, <3>4, <3>5
  <2>2. CASE ~s.missing
    <3>1. ~told
      BY <1>6, <2>2 DEF Raises
    <3>2. settings' = settings \/ settings' = [settings EXCEPT !.streak = 0, !.missing = FALSE]
      BY <1>6, <2>2, <3>1 DEF Recorded
    <3>3. settings' \in Settings /\ \A g \in Flags \ {"missing"} : settings'[g] = settings[g]
      <4>1. CASE settings' = settings
        BY <1>1, <4>1
      <4>2. CASE settings' = [settings EXCEPT !.streak = 0, !.missing = FALSE]
        <5> DEFINE cut == [settings EXCEPT !.streak = 0]
        <5>1. cut \in Settings /\ \A g \in Flags : cut[g] = settings[g]
          BY <1>1 DEF Settings, Flags
        <5>2. settings' = [cut EXCEPT !["missing"] = FALSE]
          BY <4>2
        <5>3. "missing" \in Flags
          BY DEF Flags
        <5> HIDE DEF cut
        <5>4. settings' \in Settings
          BY <5>1, <5>2, <5>3, SetFalse
        <5>5. \A g \in Flags \ {"missing"} : settings'[g] = cut[g]
          BY <5>1, <5>2, <5>3, SetFalse
        <5> QED  BY <5>1, <5>4, <5>5
      <4> QED  BY <3>2, <4>1, <4>2
    <3> QED  BY <1>2, <1>6, <3>1, <3>3
  <2> QED  BY <1>3, <2>1, <2>2
<1> QED  BY <1>5, <1>6

(* Every message is of something that the check has read as not on record. *)
LEMMA RaisesUnrecorded ==
  ASSUME AlertTypeOK, NEW c \in Checks, Busy(c), Raises(c),
         NEW alarm, alarm = Alarms[check[c].at],
         alarm = "switch" => check[c].snap.ks = "active"
  PROVE  ~check[c].seen[Field(alarm)]
<1>1. /\ check[c].at \in 1..6 /\ check[c].seen \in Settings
  BY DEF AlertTypeOK, Busy, AtWork
<1>2. /\ alarm \in {"switch", "drawdown", "missing", "loss", "drift", "slippage"}
      /\ (alarm # "drawdown" => Field(alarm) = alarm)
  BY <1>1, AlarmFields
<1>3. CASE alarm = "switch"
  BY <1>1, <1>2, <1>3 DEF Raises, Settings
<1>4. CASE alarm = "missing"
  BY <1>2, <1>4 DEF Raises
<1>5. CASE alarm \notin {"switch", "missing"}
  BY <1>2, <1>5 DEF Raises
<1> QED  BY <1>3, <1>4, <1>5

(* What the user holds after an alarm is on record, if what he held before *)
(* was and the check has read what is committed; its types in any case.    *)
LEMMA HeardOnRecord ==
  ASSUME AlertTypeOK, NEW c \in Checks, Busy(c), NEW told \in BOOLEAN,
         told => Raises(c), Hears(c, told),
         NEW alarm, alarm = Alarms[check[c].at], NEW f, f = Field(alarm)
  PROVE  /\ heard' \subseteq Flags /\ misread' \subseteq Flags
         /\ repeated' \subseteq {"misread", "plain"}
         /\ (/\ \A g \in heard \ misread : settings[g]
             /\ "plain" \notin repeated
             /\ check[c].seen = settings
             /\ settings' = Recorded(c, told))
            => "plain" \notin repeated' /\ \A g \in heard' \ misread' : settings'[g]
<1> DEFINE news == News(c, told)
           struck == f \in heard /\ settings[f] /\ ~settings'[f]
<1>1. /\ check[c].at \in 1..6 /\ f \in Flags
      /\ heard \subseteq Flags /\ misread \subseteq Flags
      /\ repeated \subseteq {"misread", "plain"} /\ settings \in Settings
  <2>1. check[c].at \in 1..6
    BY DEF AlertTypeOK, Busy, AtWork
  <2> QED  BY <2>1, AlarmFields DEF AlertTypeOK
<1>2. /\ heard' = IF IsOver(c) THEN heard \ {f}
                  ELSE IF news THEN heard \cup {f} ELSE heard
      /\ misread' = IF IsOver(c) \/ news THEN misread \ {f}
                    ELSE IF struck THEN misread \cup {f} ELSE misread
      /\ repeated' = IF news /\ f \in heard
                     THEN repeated \cup {IF f \in misread THEN "misread" ELSE "plain"}
                     ELSE repeated
  BY DEF Hears
<1>3. IsOver(c) => ~news
  <2>1. CASE alarm = "switch"
    BY <2>1 DEF IsOver, News
  <2>2. CASE alarm = "missing"
    BY <2>2 DEF IsOver, News, Raises
  <2> QED  BY <2>1, <2>2 DEF IsOver, News
<1>4. /\ IsOver(c) => heard' = heard \ {f} /\ misread' = misread \ {f}
      /\ news => heard' = heard \cup {f} /\ misread' = misread \ {f}
      /\ ~IsOver(c) /\ ~news =>
           /\ heard' = heard
           /\ misread' = misread \/ misread' = misread \cup {f}
           /\ struck => misread' = misread \cup {f}
  <2> HIDE DEF news, struck
  <2>1. CASE IsOver(c)
    BY <1>2, <1>3, <2>1
  <2>2. CASE ~IsOver(c) /\ news
    BY <1>2, <2>2
  <2>3. CASE ~IsOver(c) /\ ~news
    <3>1. CASE struck
      BY <1>2, <2>3, <3>1
    <3>2. CASE ~struck
      BY <1>2, <2>3, <3>2
    <3> QED  BY <3>1, <3>2
  <2> QED  BY <1>3, <2>1, <2>2, <2>3
<1>5. heard' \subseteq Flags /\ misread' \subseteq Flags
  <2> HIDE DEF news, struck
  <2> QED  BY <1>1, <1>4
<1>6. repeated' \subseteq {"misread", "plain"}
  BY <1>1, <1>2
<1>7. ASSUME \A g \in heard \ misread : settings[g], "plain" \notin repeated,
             check[c].seen = settings, settings' = Recorded(c, told)
      PROVE  "plain" \notin repeated' /\ \A g \in heard' \ misread' : settings'[g]
  <2>1. /\ \A g \in Flags \ {f} : settings'[g] = settings[g]
        /\ news => settings'[f]
    <3>1. /\ \A g \in Flags \ {f} : settings'[g] = settings[g]
          /\ told /\ (alarm = "switch" => check[c].snap.ks = "active") => settings'[f]
      BY <1>7, Records
    <3> QED  BY <3>1 DEF News
  <2>2. news => ~settings[f]
    <3>1. CASE news
      <4>1. Raises(c) /\ (alarm = "switch" => check[c].snap.ks = "active")
        BY <3>1 DEF News
      <4>2. ~check[c].seen[Field(alarm)]
        BY <4>1, RaisesUnrecorded
      <4> QED  BY <1>7, <4>2
    <3> QED  BY <3>1
  <2>3. "plain" \notin repeated'
    <3> HIDE DEF news
    <3> QED  BY <1>2, <1>7, <2>2
  <2>4. struck <=> f \in heard /\ settings[f] /\ ~settings'[f]
    OBVIOUS
  <2>5. ASSUME NEW g \in heard' \ misread'  PROVE settings'[g]
    <3> HIDE DEF news, struck
    <3>1. CASE g # f
      BY <1>1, <1>4, <1>7, <2>1, <2>5, <3>1
    <3>2. CASE g = f
      BY <1>1, <1>4, <1>7, <2>1, <2>4, <2>5, <3>2
    <3> QED  BY <3>1, <3>2
  <2> QED  BY <2>3, <2>5
<1> QED  BY <1>5, <1>6, <1>7

LEMMA AlertStep == AlertInv /\ [AlertNext]_alertVars => AlertInv'
<1> SUFFICES ASSUME AlertInv, [AlertNext]_alertVars  PROVE AlertInv'
  OBVIOUS
<1>0. /\ AlertTypeOK /\ Alone /\ OnRecord
      /\ settings \in Settings /\ heard \subseteq Flags
      /\ check \in [Checks -> {Nothing} \cup AtWork]
      /\ overlapped \in BOOLEAN /\ unrecorded \in BOOLEAN
      /\ misread \subseteq Flags /\ repeated \subseteq {"misread", "plain"}
  BY DEF AlertInv, AlertTypeOK
<1>1. ASSUME NEW f \in Timed, CooldownPasses(f)  PROVE AlertInv'
  <2>1. settings' = [settings EXCEPT ![f] = FALSE] /\ f \in Flags
    BY <1>1 DEF CooldownPasses, Timed, Flags
  <2>2. settings' \in Settings
    BY <1>0, <2>1, SetFalse
  <2>3. \A g \in Flags \ {f} : settings'[g] = settings[g]
    BY <1>0, <2>1, SetFalse
  <2>4. heard' = heard \ {f} /\ UNCHANGED <<check, overlapped, unrecorded, misread, repeated>>
    BY <1>1 DEF CooldownPasses
  <2>5. Alone'
    BY <1>1, <2>4 DEF CooldownPasses, Alone, Busy
  <2>6. OnRecord'
    BY <1>0, <2>3, <2>4 DEF OnRecord
  <2> QED  BY <1>0, <2>2, <2>4, <2>5, <2>6 DEF AlertInv, AlertTypeOK
<1>2. ASSUME NEW c \in Checks, ServerReceives(c)  PROVE AlertInv'
  <2>1. PICK s \in Snapshots :
          check' = [check EXCEPT ![c] = [at |-> 1, snap |-> s, seen |-> settings]]
    BY <1>2 DEF ServerReceives
  <2>2. [at |-> 1, snap |-> s, seen |-> settings] \in AtWork
    BY <1>0 DEF AtWork
  <2>3. /\ check' \in [Checks -> {Nothing} \cup AtWork]
        /\ check'[c].seen = settings
        /\ \A d \in Checks \ {c} : check'[d] = check[d]
    BY <1>0, <2>1, <2>2
  <2>4. /\ overlapped' = (overlapped \/ \E d \in Checks \ {c} : Busy(d))
        /\ UNCHANGED <<settings, heard, unrecorded, misread, repeated>>
    BY <1>2 DEF ServerReceives
  <2>5. overlapped' \in BOOLEAN
    BY <1>0, <2>4
  <2>6. ASSUME ~overlapped'  PROVE \A d \in Checks \ {c} : check'[d] = Nothing
    BY <2>3, <2>4, <2>6 DEF Busy
  <2>7. Alone'
    BY <2>3, <2>4, <2>6 DEF Alone, Busy
  <2>8. OnRecord'
    BY <1>0, <2>4 DEF OnRecord
  <2> QED  BY <1>0, <2>3, <2>4, <2>5, <2>7, <2>8 DEF AlertInv, AlertTypeOK
<1>3. ASSUME NEW c \in Checks, ChecksAlarm(c)  PROVE AlertInv'
  <2>1. Busy(c) /\ UNCHANGED <<overlapped, unrecorded>>
    BY <1>3 DEF ChecksAlarm
  <2>2. PICK told \in BOOLEAN :
          /\ told => Raises(c)
          /\ settings' = Recorded(c, told)
          /\ Advance(c, IF Commits(c, told) THEN settings' ELSE check[c].seen)
          /\ Hears(c, told)
    BY <1>3 DEF ChecksAlarm
  <2>3. /\ settings' \in Settings /\ heard' \subseteq Flags /\ misread' \subseteq Flags
        /\ repeated' \subseteq {"misread", "plain"}
        /\ (/\ \A f \in heard \ misread : settings[f]
            /\ "plain" \notin repeated
            /\ check[c].seen = settings)
           => "plain" \notin repeated' /\ \A f \in heard' \ misread' : settings'[f]
    <3>1. settings' \in Settings
      BY <1>0, <2>1, <2>2, Records
    <3> QED  BY <1>0, <2>1, <2>2, <3>1, HeardOnRecord
  <2> DEFINE seen == IF Commits(c, told) THEN settings' ELSE check[c].seen
  <2>4. check[c].seen \in Settings
    BY <1>0, <2>1 DEF Busy, AtWork
  <2>5. seen \in Settings /\ Advance(c, seen)
    BY <2>2, <2>3, <2>4
  <2>6. check[c].seen = settings => seen = settings'
    BY <2>2 DEF Commits
  <2> HIDE DEF seen
  <2>7. /\ check' \in [Checks -> {Nothing} \cup AtWork]
        /\ \A d \in Checks \ {c} : check'[d] = check[d]
        /\ check'[c] # Nothing => check'[c].seen = seen
    BY <1>0, <2>1, <2>5, Advances
  <2>8. ASSUME ~overlapped'
        PROVE  check[c].seen = settings /\ \A d \in Checks \ {c} : check'[d] = Nothing
    BY <1>0, <2>1, <2>7, <2>8 DEF Alone, Busy
  <2>9. Alone'
    BY <2>6, <2>7, <2>8 DEF Alone, Busy
  <2>10. OnRecord'
    BY <1>0, <2>1, <2>3, <2>8 DEF OnRecord
  <2> QED  BY <1>0, <2>1, <2>3, <2>7, <2>9, <2>10 DEF AlertInv, AlertTypeOK
<1>4. ASSUME NEW c \in Checks, CommitFails(c)  PROVE AlertInv'
  <2>1. /\ check' = [check EXCEPT ![c] = Nothing] /\ unrecorded' = TRUE
        /\ UNCHANGED <<settings, overlapped>> /\ Hears(c, TRUE) /\ Busy(c)
    BY <1>4 DEF CommitFails
  <2>2. Raises(c)
    BY <1>4 DEF CommitFails
  <2>3. /\ heard' \subseteq Flags /\ misread' \subseteq Flags
        /\ repeated' \subseteq {"misread", "plain"}
    BY <1>0, <2>1, <2>2, HeardOnRecord
  <2>4. check' \in [Checks -> {Nothing} \cup AtWork]
    BY <1>0, <2>1
  <2>5. Alone'
    BY <1>0, <2>1 DEF Alone, Busy
  <2>6. OnRecord'
    BY <2>1 DEF OnRecord
  <2> QED  BY <1>0, <2>1, <2>3, <2>4, <2>5, <2>6 DEF AlertInv, AlertTypeOK
<1>5. CASE UNCHANGED alertVars
  BY <1>0, <1>5 DEF alertVars, AlertInv, AlertTypeOK, Alone, OnRecord, Busy
<1> QED
  BY <1>1, <1>2, <1>3, <1>4, <1>5 DEF AlertNext

(* The user hears an alarm again only after two checks overlapped, or a    *)
(* message could not be recorded, or a snapshot that does not speak of it  *)
(* was read as its end: a check alone reads what the checks before it      *)
(* committed (routers/sync.py:82-230).                                     *)
THEOREM ToldAgainForCause == AlertSpec => []ToldOnce
<1>1. AlertInv => ToldOnce
  BY DEF AlertInv, AlertTypeOK, OnRecord, ToldOnce
<1> QED  BY AlertStarts, AlertStep, <1>1, PTL DEF AlertSpec

---------------------------------------------------------------------------
(* The previews.                                                           *)

PreviewTypeOK ==
  /\ data \in Nat /\ announced \in Nat /\ duePreview \in BOOLEAN
  /\ row \in [id : Nat, prev : Nat]
  /\ build \in [Builders -> [pc : {"rest", "built", "merging"}, data : Nat, row : Nat]]
  /\ failed \in BOOLEAN /\ lateRows \in BOOLEAN /\ tagged \in BOOLEAN
  /\ web \in [id : Nat, prev : Nat]
  /\ cached \in Nat

(* A builder's data is not ahead of the dataset, nor its row of the latest *)
(* one; the job is never at work on data older than those announced, since *)
(* it builds in the same thread that refreshes them.                       *)
BuildersBehind ==
  /\ \A b \in Builders : /\ build[b].pc = "rest" <=> build[b] = Resting
                         /\ build[b].data <= data
                         /\ build[b].row <= row.id
                         /\ build[b].pc # "rest" => row.id # 0
  /\ build["job"].pc # "rest" => announced <= build["job"].data /\ ~duePreview
  /\ row.prev <= data /\ announced <= data
  /\ row.id = 0 => row.prev = 0

(* The latest row has a preview of the announced data or of newer ones, or *)
(* the builder that wrote it last was late, or the job is still to write   *)
(* it, or has failed.                                                      *)
RowAccounted ==
  row.prev # 0 =>
    \/ announced <= row.prev
    \/ lateRows
    \/ duePreview
    \/ build["job"].pc = "built"
    \/ build["job"].pc = "merging" /\ build["job"].row = row.id
    \/ build["job"].pc = "rest" /\ failed

PageLatest == tagged => web.id = row.id

PreviewInv == PreviewTypeOK /\ BuildersBehind /\ RowAccounted /\ PageLatest

Builder == [pc : {"rest", "built", "merging"}, data : Nat, row : Nat]

LEMMA PreviewStarts == PreviewInit => PreviewInv
<1> SUFFICES ASSUME PreviewInit  PROVE PreviewInv
  OBVIOUS
<1>1. "job" \in Builders /\ Resting \in Builder /\ Resting.pc = "rest"
  BY DEF Builders, Resting, Builder
<1>2. build \in [Builders -> Builder] /\ \A b \in Builders : build[b] = Resting
  BY <1>1 DEF PreviewInit
<1>3. PreviewTypeOK
  BY <1>2 DEF PreviewInit, PreviewTypeOK, Builder
<1>4. BuildersBehind
  BY <1>1, <1>2 DEF PreviewInit, BuildersBehind, Resting
<1> QED  BY <1>3, <1>4 DEF PreviewInit, PreviewInv, RowAccounted, PageLatest

(* The row after a builder's commit. *)
LEMMA Writes ==
  ASSUME PreviewInv, NEW b \in Builders, build[b].pc = "merging",
         WritesRow(b), UNCHANGED <<data, announced>>
  PROVE  /\ row' \in [id : Nat, prev : Nat] /\ lateRows' \in BOOLEAN
         /\ row'.id = row.id /\ row'.prev <= data
         /\ build[b].row = row.id => announced <= row'.prev \/ lateRows'
         /\ build[b].row # row.id => row' = row /\ lateRows' = lateRows
<1>1. /\ build[b].data \in Nat /\ build[b].data <= data /\ data \in Nat
      /\ announced \in Nat
      /\ row \in [id : Nat, prev : Nat] /\ lateRows \in BOOLEAN /\ row.prev <= data
  BY DEF PreviewInv, PreviewTypeOK, BuildersBehind
<1>2. CASE build[b].row = row.id
  <2>1. row' = [row EXCEPT !.prev = build[b].data] /\ lateRows' = (build[b].data < announced)
    BY <1>2 DEF WritesRow
  <2>2. row' \in [id : Nat, prev : Nat] /\ row'.id = row.id /\ row'.prev = build[b].data
    BY <1>1, <2>1
  <2>3. lateRows' \in BOOLEAN
    BY <2>1
  <2>4. announced <= build[b].data \/ lateRows'
    <3>1. CASE build[b].data < announced
      <4>1. lateRows' = TRUE
        BY <2>1, <3>1
      <4> QED  BY <4>1
    <3>2. CASE ~(build[b].data < announced)
      BY <1>1, <3>2
    <3> QED  BY <3>1, <3>2
  <2> QED  BY <1>1, <1>2, <2>2, <2>3, <2>4
<1>3. CASE build[b].row # row.id
  BY <1>1, <1>3 DEF WritesRow
<1> QED  BY <1>2, <1>3

LEMMA PreviewStep == PreviewInv /\ [PreviewNext]_previewVars => PreviewInv'
<1> SUFFICES ASSUME PreviewInv, [PreviewNext]_previewVars  PROVE PreviewInv'
  OBVIOUS
<1>0. /\ data \in Nat /\ announced \in Nat /\ duePreview \in BOOLEAN
      /\ row \in [id : Nat, prev : Nat]
      /\ build \in [Builders -> Builder]
      /\ failed \in BOOLEAN /\ lateRows \in BOOLEAN /\ tagged \in BOOLEAN
      /\ web \in [id : Nat, prev : Nat] /\ cached \in Nat
      /\ BuildersBehind /\ RowAccounted /\ PageLatest
      /\ "job" \in Builders /\ "pull" \in Builders
      /\ Resting \in Builder /\ Resting.pc = "rest" /\ Resting.data = 0 /\ Resting.row = 0
  BY DEF PreviewInv, PreviewTypeOK, Builder, Builders, Resting
<1>1. CASE DataRefreshes
  <2>1. /\ data' = data + 1 /\ announced' = data + 1 /\ duePreview' = TRUE
        /\ build["job"] = Resting
    BY <1>1 DEF DataRefreshes
  <2>2. BuildersBehind'
    BY <1>0, <1>1, <2>1 DEF DataRefreshes, BuildersBehind, Builder
  <2> QED  BY <1>0, <1>1, <2>1, <2>2
           DEF DataRefreshes, PreviewInv, PreviewTypeOK, RowAccounted, PageLatest, Builder
<1>14. CASE DataReplaced
  <2>1. /\ data' = data + 1
        /\ UNCHANGED <<announced, duePreview, row, build, failed, lateRows, web, tagged,
                       cached>>
    BY <1>14 DEF DataReplaced
  <2>2. BuildersBehind' /\ RowAccounted' /\ PageLatest'
    BY <1>0, <2>1 DEF BuildersBehind, RowAccounted, PageLatest, Builder
  <2> QED  BY <1>0, <2>1, <2>2 DEF PreviewInv, PreviewTypeOK, Builder
<1>2. CASE JobFails
  <2>1. build' = [build EXCEPT !["job"] = Resting] /\ failed' = TRUE
        /\ UNCHANGED <<data, announced, duePreview, row, lateRows, web, tagged, cached>>
        /\ build["job"].pc # "rest"
    BY <1>2 DEF JobFails
  <2>2. /\ build' \in [Builders -> Builder] /\ build'["job"] = Resting
        /\ \A b \in Builders \ {"job"} : build'[b] = build[b]
    BY <1>0, <2>1
  <2>3. BuildersBehind'
    BY <1>0, <2>1, <2>2 DEF BuildersBehind
  <2>4. RowAccounted' /\ PageLatest'
    BY <1>0, <2>1, <2>2 DEF RowAccounted, PageLatest
  <2> QED  BY <1>0, <2>1, <2>2, <2>3, <2>4 DEF PreviewInv, PreviewTypeOK, Builder
<1>3. ASSUME NEW b \in Builders, Builds(b)  PROVE PreviewInv'
  <2> DEFINE new == [pc |-> "built", data |-> data, row |-> 0]
  <2>1. /\ b \in {"job", "button"} /\ build[b] = Resting /\ (b = "job" => duePreview)
        /\ duePreview' = (duePreview /\ b # "job")
        /\ UNCHANGED <<data, announced, row, failed, lateRows, web, tagged, cached>>
    BY <1>3 DEF Builds
  <2>2. CASE row.id = 0
    <3>1. build' = build /\ row.prev <= data
      BY <1>0, <1>3, <2>2 DEF Builds, BuildersBehind
    <3>2. RowAccounted'
      BY <1>0, <2>1, <2>2 DEF RowAccounted, BuildersBehind
    <3> QED  BY <1>0, <2>1, <3>1, <3>2
             DEF PreviewInv, PreviewTypeOK, BuildersBehind, PageLatest, Builder
  <2>3. CASE row.id # 0
    <3>1. build' = [build EXCEPT ![b] = new] /\ new \in Builder
      BY <1>0, <1>3, <2>3 DEF Builds, Builder
    <3>2. /\ build' \in [Builders -> Builder] /\ build'[b] = new
          /\ \A d \in Builders \ {b} : build'[d] = build[d]
      BY <1>0, <3>1
    <3>3. /\ build'[b].pc = "built" /\ build'[b].data = data /\ build'[b].row = 0
          /\ build'[b] # Resting
      BY <1>0, <3>2
    <3>4. BuildersBehind'
      <4>1. /\ build'[b].data <= data' /\ build'[b].row <= row'.id /\ row'.id # 0
            /\ build'[b].pc # "rest"
        BY <1>0, <2>1, <2>3, <3>3
      <4>2. build'["job"].pc # "rest" => announced' <= build'["job"].data /\ ~duePreview'
        BY <1>0, <2>1, <3>2, <3>3 DEF BuildersBehind
      <4> QED  BY <1>0, <2>1, <3>2, <3>3, <4>1, <4>2 DEF BuildersBehind
    <3>5. RowAccounted' /\ PageLatest'
      BY <1>0, <2>1, <3>2, <3>3 DEF RowAccounted, PageLatest
    <3> QED  BY <1>0, <2>1, <3>2, <3>4, <3>5 DEF PreviewInv, PreviewTypeOK, Builder
  <2> QED  BY <2>2, <2>3
<1>4. ASSUME NEW b \in Builders, ReadsRow(b)  PROVE PreviewInv'
  <2>1. /\ build[b].pc = "built"
        /\ build' = [build EXCEPT ![b].pc = "merging", ![b].row = row.id]
        /\ UNCHANGED <<data, announced, duePreview, row, failed, lateRows, web, tagged, cached>>
    BY <1>4 DEF ReadsRow
  <2>2. /\ build'[b] = [build[b] EXCEPT !.pc = "merging", !.row = row.id]
        /\ \A d \in Builders \ {b} : build'[d] = build[d]
        /\ build' = [d \in Builders |-> build'[d]]
    BY <1>0, <2>1
  <2>3. build[b] \in Builder
    BY <1>0
  <2>4. /\ build'[b] \in Builder /\ build'[b].pc = "merging" /\ build'[b].row = row.id
        /\ build'[b].data = build[b].data
    BY <1>0, <2>2, <2>3 DEF Builder
  <2>5. build' \in [Builders -> Builder]
    BY <1>0, <2>2, <2>4
  <2>6. BuildersBehind'
    BY <1>0, <2>1, <2>2, <2>4, <2>5 DEF BuildersBehind, Builder
  <2>7. RowAccounted' /\ PageLatest'
    BY <1>0, <2>1, <2>2, <2>4 DEF RowAccounted, PageLatest
  <2> QED  BY <1>0, <2>1, <2>5, <2>6, <2>7 DEF PreviewInv, PreviewTypeOK, Builder
<1>5. ASSUME NEW b \in Builders, build[b].pc = "merging", WritesRow(b),
             build' = [build EXCEPT ![b] = Resting],
             UNCHANGED <<data, announced, duePreview, web, tagged>>, cached' \in Nat,
             failed' = failed \/ (b = "job" /\ failed' = FALSE)
      PROVE  PreviewInv'
  <2>1. /\ row' \in [id : Nat, prev : Nat] /\ lateRows' \in BOOLEAN
        /\ row'.id = row.id /\ row'.prev <= data
        /\ build[b].row = row.id => announced <= row'.prev \/ lateRows'
        /\ build[b].row # row.id => row' = row /\ lateRows' = lateRows
    BY <1>5, Writes
  <2>2. /\ build' \in [Builders -> Builder] /\ build'[b] = Resting
        /\ \A d \in Builders \ {b} : build'[d] = build[d]
    BY <1>0, <1>5
  <2>3. BuildersBehind'
    BY <1>0, <1>5, <2>1, <2>2 DEF BuildersBehind
  <2>4. RowAccounted'
    <3>1. CASE build[b].row = row.id
      BY <1>5, <2>1, <3>1 DEF RowAccounted
    <3>2. CASE build[b].row # row.id
      BY <1>0, <1>5, <2>1, <2>2, <3>2 DEF RowAccounted
    <3> QED  BY <3>1, <3>2
  <2>5. failed' \in BOOLEAN
    BY <1>0, <1>5
  <2> QED  BY <1>0, <1>5, <2>1, <2>2, <2>3, <2>4, <2>5
           DEF PreviewInv, PreviewTypeOK, PageLatest, Builder
<1>6. ASSUME NEW b \in Builders, Merges(b)  PROVE PreviewInv'
  <2>1. failed' = failed \/ (b = "job" /\ failed' = FALSE)
    BY <1>0, <1>6 DEF Merges
  <2> QED  BY <1>0, <1>5, <1>6, <2>1 DEF Merges
<1>7. CASE PullMerges
  <2>1. cached' \in Nat
    BY <1>0, <1>7 DEF PullMerges, Builder
  <2> QED  BY <1>0, <1>5, <1>7, <2>1 DEF PullMerges
<1>8. CASE PullBuilds
  <2> DEFINE new == [pc |-> "merging", data |-> data, row |-> row.id]
  <2>1. /\ build' = [build EXCEPT !["pull"] = new] /\ new \in Builder
        /\ UNCHANGED <<data, announced, duePreview, row, failed, lateRows, web, tagged, cached>>
    BY <1>0, <1>8 DEF PullBuilds, Builder
  <2>2. /\ build' \in [Builders -> Builder] /\ build'["pull"] = new
        /\ \A d \in Builders \ {"pull"} : build'[d] = build[d]
    BY <1>0, <2>1
  <2>3. BuildersBehind'
    <3>1. /\ build'["pull"].pc = "merging" /\ build'["pull"].data = data
          /\ build'["pull"].row = row.id /\ build'["pull"] # Resting /\ row.id # 0
      BY <1>0, <1>8, <2>2 DEF PullBuilds
    <3>2. build'["job"] = build["job"]
      BY <1>0, <2>2
    <3> QED  BY <1>0, <2>1, <2>2, <3>1, <3>2 DEF BuildersBehind
  <2>4. RowAccounted' /\ PageLatest'
    BY <1>0, <2>1, <2>2 DEF RowAccounted, PageLatest
  <2> QED  BY <1>0, <2>1, <2>2, <2>3, <2>4 DEF PreviewInv, PreviewTypeOK, Builder
<1>9. CASE PullFails
  <2>1. /\ build' = [build EXCEPT !["pull"] = Resting]
        /\ UNCHANGED <<data, announced, duePreview, row, failed, lateRows, web, tagged, cached>>
    BY <1>9 DEF PullFails
  <2>2. /\ build' \in [Builders -> Builder] /\ build'["pull"] = Resting
        /\ \A d \in Builders \ {"pull"} : build'[d] = build[d]
    BY <1>0, <2>1
  <2>3. BuildersBehind'
    BY <1>0, <2>1, <2>2 DEF BuildersBehind
  <2>4. RowAccounted' /\ PageLatest'
    BY <1>0, <2>1, <2>2 DEF RowAccounted, PageLatest
  <2> QED  BY <1>0, <2>1, <2>2, <2>3, <2>4 DEF PreviewInv, PreviewTypeOK, Builder
<1>10. CASE PullAnswers \/ CachedVoid
  BY <1>0, <1>10
     DEF PullAnswers, CachedVoid, PreviewInv, PreviewTypeOK, BuildersBehind, RowAccounted,
         PageLatest, Builder
<1>11. CASE RowArrives
  <2>1. row' = [id |-> row.id + 1, prev |-> 0] /\ row' \in [id : Nat, prev : Nat]
    BY <1>0, <1>11 DEF RowArrives
  <2>2. BuildersBehind'
    <3>1. /\ row'.id = row.id + 1 /\ row'.prev = 0 /\ row.id \in Nat
          /\ UNCHANGED <<data, announced, duePreview, build>>
      BY <1>0, <1>11, <2>1 DEF RowArrives
    <3>2. \A b \in Builders : build[b].row \in Nat /\ data \in Nat
      BY <1>0 DEF Builder
    <3> QED  BY <1>0, <3>1, <3>2 DEF BuildersBehind
  <2>3. RowAccounted' /\ PageLatest'
    BY <1>11, <2>1 DEF RowArrives, RowAccounted, PageLatest
  <2> QED  BY <1>0, <1>11, <2>1, <2>2, <2>3
           DEF RowArrives, PreviewInv, PreviewTypeOK, Builder
<1>12. CASE Heartbeats \/ WebPolls
  <2>1. /\ UNCHANGED <<data, announced, duePreview, row, build, failed, lateRows, cached>>
        /\ tagged' \in BOOLEAN /\ web' \in [id : Nat, prev : Nat]
    BY <1>0, <1>12 DEF Heartbeats, WebPolls
  <2>2. BuildersBehind' /\ RowAccounted'
    BY <1>0, <2>1 DEF BuildersBehind, RowAccounted
  <2>3. PageLatest'
    BY <1>0, <1>12 DEF Heartbeats, WebPolls, PageLatest
  <2> QED  BY <1>0, <2>1, <2>2, <2>3 DEF PreviewInv, PreviewTypeOK, Builder
<1>13. CASE UNCHANGED previewVars
  BY <1>0, <1>13
     DEF previewVars, PreviewInv, PreviewTypeOK, BuildersBehind, RowAccounted, PageLatest,
         Builder
<1> QED
  BY <1>1, <1>2, <1>3, <1>4, <1>6, <1>7, <1>8, <1>9, <1>10, <1>11, <1>12, <1>13,
     <1>14 DEF PreviewNext

(* The preview of the latest row is of the data of the last refresh that   *)
(* triggers previews, or newer, except after a job that failed or a late   *)
(* builder that wrote last, although the job, the button and the pull      *)
(* merge into whatever row is the latest by then (preview_engine.py:469-   *)
(* 512, routers/sync.py:279-326) and other jobs replace the data without a *)
(* trigger (main.py:161-169); and a page that is answered "not modified"   *)
(* shows the latest row.                                                   *)
THEOREM PreviewsAreCurrent == PreviewSpec => []PreviewCurrent
<1>1. PreviewInv => PreviewCurrent
  <2> SUFFICES ASSUME PreviewInv  PROVE PreviewCurrent
    OBVIOUS
  <2>1. "job" \in Builders /\ Resting.pc = "rest"
    BY DEF Builders, Resting
  <2> QED  BY <2>1 DEF PreviewInv, RowAccounted, PageLatest, PreviewCurrent
<1> QED  BY PreviewStarts, PreviewStep, <1>1, PTL DEF PreviewSpec

---------------------------------------------------------------------------
(* The timeline.                                                           *)

(* Every snapshot came before now, and one of a run that went to its end   *)
(* names its market and the day on which it came.                          *)
TimeInv ==
  /\ clock \in Nat
  /\ \A s \in came :
       /\ s.at \in Nat /\ s.at <= clock
       /\ s.what \in {"cycle", "settle"} => s.market /\ s.day = DayOf(s.at)

(* The timeline begins empty.                                              *)
LEMMA TimeStarts == TimeInit => TimeInv
BY DEF TimeInit, TimeInv

(* Runs, snapshots and the clock keep what is known of the snapshots.      *)
LEMMA TimeSteps == TimeInv /\ [TimeNext]_timeVars => TimeInv'
<1> SUFFICES ASSUME TimeInv, [TimeNext]_timeVars PROVE TimeInv'
  OBVIOUS
<1> USE DEF TimeInv
<1>1. CASE Passes
  BY <1>1 DEF Passes, DayOf
<1>2. ASSUME NEW what, NEW of, UNCHANGED clock, Comes(what, TRUE, of),
             what \in {"cycle", "settle"} => of = DayOf(clock)
      PROVE  TimeInv'
  BY <1>2 DEF Comes, DayOf
<1>3. CASE CycleRuns
  BY <1>2, <1>3 DEF CycleRuns, DayOf
<1>4. CASE CycleFails
  BY <1>2, <1>4 DEF CycleFails
<1>5. CASE SettlementRuns
  BY <1>2, <1>5 DEF SettlementRuns, DayOf
<1>6. CASE NoticeComes
  BY <1>6 DEF NoticeComes, Comes, DayOf
<1>7. CASE HeartbeatComes \/ PreviewMade
  BY <1>7 DEF HeartbeatComes, PreviewMade, DayOf
<1>8. CASE UNCHANGED timeVars
  BY <1>8 DEF timeVars, DayOf
<1>. QED
  BY <1>1, <1>3, <1>4, <1>5, <1>6, <1>7, <1>8 DEF TimeNext

(* The snapshot of a run is found by its market and day.                   *)
LEMMA ShownAsDone == TimeInv => RanIsShown
<1> SUFFICES ASSUME TimeInv, NEW s \in came, NEW kind \in {"cycle", "settle"},
                    s.what = kind, DayOf(s.at) = DayOf(Time[kind]),
                    Time[kind] <= clock, InWindow(Time[kind]),
                    ~(s.at < clock - Day)
             PROVE  Shown(kind) = "done"
  BY DEF RanIsShown
<1>1. Time[kind] \in Int /\ Day \in Nat
  BY TimelineAssumption DEF Time
<1>2. s \in Snaps
  BY <1>1 DEF TimeInv, Snaps, InWindow
<1>3. s \in MatchSnapshot(Time[kind])
  BY <1>2 DEF TimeInv, MatchSnapshot
<1>4. ~(Time[kind] > clock)
  BY <1>1 DEF TimeInv
<1>. QED
  BY <1>3, <1>4 DEF Shown, Scheduled

(* What ran on its day and was pushed is shown as done for as long as it   *)
(* is in view, but for the run that came before its scheduled time.        *)
THEOREM RunsAreShown == TimeSpec => []RanIsShown
BY TimeStarts, TimeSteps, ShownAsDone, PTL DEF TimeSpec

---------------------------------------------------------------------------
(* The table of stocks.                                                    *)

(* The types of the variables.                                             *)
ScreenTypeOK ==
  /\ screenDay \in Nat
  /\ lastJob \in {"morning", "krx", "naver", "technical"}
  /\ table \in [id : Nat, day : Nat \cup {NoScreen},
                fields : [ScreenJobs -> Nat \cup {NoScreen}]]
  /\ jobRun \in [ScreenJobs -> [pc : {"idle", "empty", "reads", "writes"},
                                to : Nat, day : Nat \cup {NoScreen}]]
  /\ excused \subseteq ScreenJobs

(* A job that runs has begun today.                                        *)
RunsToday == \A j \in ScreenJobs : jobRun[j].pc # "idle" => jobRun[j].day = screenDay

(* A job that is to write into the table of today.                         *)
Writing(j) == \/ jobRun[j].pc = "reads"
              \/ jobRun[j].pc = "writes" /\ jobRun[j].to = table.id

(* Of a job without an excuse the table is of today, and has its fields    *)
(* once it has begun, or will have them.                                   *)
ComesToday ==
  \A j \in ScreenJobs \ excused :
    /\ lastJob # "morning" => table.day = screenDay
    /\ j \in Begun => table.fields[j] = screenDay \/ Writing(j)

(* The inductive invariant of the table.                                   *)
ScreenInv == ScreenTypeOK /\ RunsToday /\ ComesToday

(* The invariant holds on the first morning.                               *)
LEMMA ScreenStartsUp == ScreenInit => ScreenInv
BY DEF ScreenInit, ScreenInv, ScreenTypeOK, RunsToday, ComesToday, IdleRun,
       NoFields, ScreenJobs, NoScreen

(* The jobs that have begun by the last one that was due.                  *)
LEMMA BegunJobs ==
  /\ lastJob \in {"morning", "krx"} => Begun = {}
  /\ lastJob = "naver" => Begun = {"naver"}
  /\ lastJob = "technical" => Begun = ScreenJobs
BY DEF Begun

(* A new table, which no job without an excuse has begun to write into.    *)
LEMMA TableReplaced ==
  ASSUME ScreenInv, table'.day = screenDay', UNCHANGED <<screenDay, jobRun>>,
         table' \in [id : Nat, day : Nat \cup {NoScreen},
                     fields : [ScreenJobs -> Nat \cup {NoScreen}]],
         excused' \subseteq ScreenJobs,
         lastJob' \in {"morning", "krx", "naver", "technical"},
         \A j \in ScreenJobs \ excused' : j \notin Begun'
  PROVE  ScreenInv'
BY DEF ScreenInv, ScreenTypeOK, RunsToday, ComesToday

(* The table after the morning job is of today and has no fields.          *)
LEMMA NewTable ==
  ASSUME ScreenInv, Refreshed
  PROVE  /\ table'.day = screenDay
         /\ table' \in [id : Nat, day : Nat \cup {NoScreen},
                        fields : [ScreenJobs -> Nat \cup {NoScreen}]]
BY DEF ScreenInv, ScreenTypeOK, Refreshed, NoFields

(* All jobs are excused.                                                   *)
LEMMA AllExcused ==
  ASSUME ScreenTypeOK', RunsToday', excused' = ScreenJobs
  PROVE  ScreenInv'
BY DEF ScreenInv, ComesToday

(* A job begins.                                                           *)
LEMMA JobBegins ==
  ASSUME ScreenInv, NEW k \in ScreenJobs, ScreenStarts(k), jobRun[k].pc = "idle",
         UNCHANGED <<screenDay, table, excused>>,
         \/ lastJob' = lastJob /\ k \in excused
         \/ lastJob # "morning" /\ lastJob' \in {"naver", "technical"}
            /\ Begun' \subseteq Begun \cup {k}
  PROVE  ScreenInv'
<1> USE DEF ScreenInv
<1> DEFINE r == [pc |-> IF table.day = NoScreen THEN "empty" ELSE "reads",
                 to |-> 0, day |-> screenDay]
<1>1. jobRun' = [jobRun EXCEPT ![k] = r]
  BY DEF ScreenStarts
<1>2. r \in [pc : {"idle", "empty", "reads", "writes"}, to : Nat,
             day : Nat \cup {NoScreen}]
  BY DEF ScreenTypeOK
<1>3. ScreenTypeOK'
  BY <1>1, <1>2 DEF ScreenTypeOK
<1>4. RunsToday'
  BY <1>1 DEF RunsToday, ScreenTypeOK
<1>5. \A j \in ScreenJobs : j # k => jobRun'[j] = jobRun[j]
  BY <1>1 DEF ScreenTypeOK
<1>6. jobRun'[k] = r
  BY <1>1 DEF ScreenTypeOK
<1>7. ASSUME NEW j \in ScreenJobs \ excused
      PROVE  /\ lastJob' # "morning" => table'.day = screenDay'
             /\ j \in Begun' => table'.fields[j] = screenDay' \/ Writing(j)'
  <2>1. CASE lastJob' = lastJob /\ k \in excused
    <3>1. Begun' = Begun /\ j # k
      BY <2>1 DEF Begun
    <3>. QED
      BY <2>1, <3>1, <1>5, <1>7 DEF ComesToday, Writing
  <2>2. CASE lastJob # "morning" /\ Begun' \subseteq Begun \cup {k}
    <3>1. table.day = screenDay /\ screenDay # NoScreen
      BY <2>2, <1>7 DEF ComesToday, ScreenTypeOK, NoScreen
    <3>2. CASE j = k
      BY <3>1, <3>2, <1>6 DEF Writing
    <3>3. CASE j # k
      BY <2>2, <3>1, <3>3, <1>5, <1>7 DEF ComesToday, Writing
    <3>. QED
      BY <3>2, <3>3
  <2>. QED
    BY <2>1, <2>2
<1>. QED
  BY <1>3, <1>4, <1>7 DEF ComesToday

(* The hours of the day keep the invariant.                                *)
LEMMA ClockSteps ==
  ASSUME ScreenInv, KrxRuns \/ NaverRuns \/ TechnicalRuns \/ NextDay
  PROVE  ScreenInv'
<1>1. CASE KrxRuns
  <2>1. lastJob' = "krx" /\ UNCHANGED <<screenDay, jobRun>>
    BY <1>1 DEF KrxRuns
  <2>2. CASE Refreshed /\ excused' = {}
    <3>1. Begun' = {}
      BY <2>1 DEF Begun
    <3>. QED
      BY <2>1, <2>2, <3>1, NewTable, TableReplaced
  <2>3. CASE excused' = ScreenJobs /\ UNCHANGED table
    BY <2>1, <2>3, AllExcused DEF ScreenInv, ScreenTypeOK, RunsToday
  <2>. QED
    BY <1>1, <2>2, <2>3 DEF KrxRuns
<1>2. CASE NaverRuns
  <2>1. Begun' = {"naver"}
    BY <1>2 DEF NaverRuns, Begun
  <2>. QED
    BY <1>2, <2>1, JobBegins DEF NaverRuns, ScreenJobs
<1>3. CASE TechnicalRuns
  <2>1. Begun' = ScreenJobs /\ Begun = {"naver"}
    BY <1>3 DEF TechnicalRuns, Begun
  <2>. QED
    BY <1>3, <2>1, JobBegins DEF TechnicalRuns, ScreenJobs
<1>4. CASE NextDay
  <2>1. Begun' = {}
    BY <1>4 DEF NextDay, Begun
  <2>. QED
    BY <1>4, <2>1 DEF NextDay, ScreenInv, ScreenTypeOK, RunsToday, ComesToday
<1>. QED
  BY <1>1, <1>2, <1>3, <1>4

(* So do the steps of a job.                                               *)
LEMMA JobSteps ==
  ASSUME ScreenInv, NEW k \in ScreenJobs,
         Reads(k) \/ WritesScreen(k) \/ WritesNothing(k) \/ StartRuns(k)
  PROVE  ScreenInv'
<1>1. CASE Reads(k)
  <2>1. /\ jobRun[k].pc = "reads" /\ UNCHANGED <<screenDay, lastJob, table, excused>>
        /\ jobRun' = [jobRun EXCEPT ![k].pc = "writes", ![k].to = table.id]
    BY <1>1 DEF Reads
  <2>2. ScreenTypeOK'
    BY <2>1 DEF ScreenInv, ScreenTypeOK
  <2>3. /\ jobRun'[k].pc = "writes" /\ jobRun'[k].to = table.id
        /\ jobRun'[k].day = jobRun[k].day
        /\ \A j \in ScreenJobs : j # k => jobRun'[j] = jobRun[j]
    BY <2>1 DEF ScreenInv, ScreenTypeOK
  <2>4. RunsToday'
    BY <2>1, <2>3 DEF ScreenInv, RunsToday
  <2>5. ComesToday'
    BY <2>1, <2>3 DEF ScreenInv, ComesToday, Writing, Begun
  <2>. QED
    BY <2>2, <2>4, <2>5 DEF ScreenInv
<1>2. CASE WritesScreen(k)
  <2>1. /\ jobRun[k].pc = "writes" /\ UNCHANGED <<screenDay, lastJob, excused>>
        /\ jobRun' = [jobRun EXCEPT ![k] = IdleRun]
        /\ table' = IF jobRun[k].to = table.id
                    THEN [table EXCEPT !.fields[k] = jobRun[k].day] ELSE table
    BY <1>2 DEF WritesScreen
  <2>2. ScreenTypeOK'
    BY <2>1 DEF ScreenInv, ScreenTypeOK, IdleRun
  <2>3. /\ jobRun'[k] = IdleRun
        /\ \A j \in ScreenJobs : j # k => jobRun'[j] = jobRun[j]
        /\ table'.id = table.id /\ table'.day = table.day
        /\ \A j \in ScreenJobs : j # k => table'.fields[j] = table.fields[j]
        /\ jobRun[k].day = screenDay
    BY <2>1 DEF ScreenInv, ScreenTypeOK, RunsToday
  <2>4. Writing(k) \/ table.fields[k] = screenDay => table'.fields[k] = screenDay
    BY <2>1, <2>3 DEF ScreenInv, ScreenTypeOK, Writing
  <2>5. RunsToday'
    BY <2>1, <2>3 DEF ScreenInv, RunsToday, IdleRun
  <2>6. ComesToday'
    BY <2>1, <2>3, <2>4 DEF ScreenInv, ComesToday, Writing, Begun
  <2>. QED
    BY <2>2, <2>5, <2>6 DEF ScreenInv
<1>3. CASE WritesNothing(k)
  <2>1. /\ UNCHANGED <<screenDay, lastJob, table>> /\ excused' = excused \cup {k}
        /\ jobRun' = [jobRun EXCEPT ![k] = IdleRun]
    BY <1>3 DEF WritesNothing
  <2>2. ScreenTypeOK'
    BY <2>1 DEF ScreenInv, ScreenTypeOK, IdleRun
  <2>3. /\ jobRun'[k] = IdleRun
        /\ \A j \in ScreenJobs : j # k => jobRun'[j] = jobRun[j]
    BY <2>1 DEF ScreenInv, ScreenTypeOK
  <2>4. RunsToday'
    BY <2>1, <2>3 DEF ScreenInv, RunsToday, IdleRun
  <2>5. ComesToday'
    BY <2>1, <2>3 DEF ScreenInv, ComesToday, Writing, Begun
  <2>. QED
    BY <2>2, <2>4, <2>5 DEF ScreenInv
<1>4. CASE StartRuns(k)
  BY <1>4, JobBegins DEF StartRuns
<1>. QED
  BY <1>1, <1>2, <1>3, <1>4

(* So does a start of the server, and a job that is run by hand.           *)
LEMMA StartSteps ==
  ASSUME ScreenInv, RefreshByHand \/ ServerStarts \/ StartRefreshes
  PROVE  ScreenInv'
<1>1. CASE RefreshByHand
  <2>1. /\ Refreshed /\ UNCHANGED <<screenDay, lastJob, jobRun>>
        /\ excused' = IF lastJob = "morning" THEN ScreenJobs ELSE excused \cup Begun
    BY <1>1 DEF RefreshByHand
  <2>2. Begun' = Begun /\ Begun \subseteq ScreenJobs
    BY <2>1 DEF Begun, ScreenJobs
  <2>. QED
    BY <2>1, <2>2, NewTable, TableReplaced DEF ScreenInv, ScreenTypeOK
<1>2. CASE ServerStarts
  <2>1. ScreenTypeOK' /\ RunsToday' /\ excused' = ScreenJobs
    BY <1>2 DEF ServerStarts, ScreenInv, ScreenTypeOK, RunsToday, NoFields, IdleRun
  <2>. QED
    BY <2>1, AllExcused
<1>3. CASE StartRefreshes
  <2>1. /\ table.day = NoScreen /\ Refreshed
        /\ UNCHANGED <<screenDay, lastJob, jobRun, excused>>
    BY <1>3 DEF StartRefreshes
  <2>2. ASSUME NEW j \in ScreenJobs \ excused PROVE j \notin Begun'
    <3>1. lastJob = "morning"
      BY <2>1, <2>2 DEF ScreenInv, ScreenTypeOK, ComesToday, NoScreen
    <3>. QED
      BY <2>1, <3>1 DEF Begun
  <2>. QED
    BY <2>1, <2>2, NewTable, TableReplaced DEF ScreenInv, ScreenTypeOK
<1>. QED
  BY <1>1, <1>2, <1>3

(* Every step keeps the invariant.                                         *)
LEMMA ScreenSteps == ScreenInv /\ [ScreenNext]_screenVars => ScreenInv'
<1> SUFFICES ASSUME ScreenInv, [ScreenNext]_screenVars PROVE ScreenInv'
  OBVIOUS
<1>1. CASE UNCHANGED screenVars
  BY <1>1 DEF screenVars, ScreenInv, ScreenTypeOK, RunsToday, ComesToday,
              Writing, Begun
<1>. QED
  BY <1>1, ClockSteps, JobSteps, StartSteps DEF ScreenNext

(* When all jobs are done the invariant says what the evening needs.       *)
LEMMA CompleteInTheEvening == ScreenInv => EveningComplete
BY BegunJobs DEF ScreenInv, ComesToday, Writing, EveningComplete

(* When the jobs of the day have ended, the table is of the day and has    *)
(* the fields of the day from each of them that has no excuse.             *)
THEOREM EveningsAreComplete == ScreenSpec => []EveningComplete
BY ScreenStartsUp, ScreenSteps, CompleteInTheEvening, PTL DEF ScreenSpec

---------------------------------------------------------------------------
(* The freshness of the candidates.                                        *)

(* The types of the variables.                                             *)
FreshnessTypeOK ==
  /\ sessions \in [Markets -> SUBSET (1..LastTradeDay)]
  /\ winter \in BOOLEAN
  /\ today \in Nat /\ part \in 0..5
  /\ lastDate \in [Markets -> Nat]
  /\ selected \subseteq Markets

(* No data are of a session that is not over yet.                          *)
DataOfThePast == \A m \in Markets : lastDate[m] <= ClosedDays(m)

(* The inductive invariant of the freshness.                               *)
FreshnessInv == FreshnessTypeOK /\ DataOfThePast /\ NothingStale

(* The last session up to a day, and that up to a later one.               *)
LEMMA LastSessionIs ==
  ASSUME FreshnessTypeOK, NEW m \in Markets, NEW upto \in Int
  PROVE  /\ LastSession(m, upto) \in {0} \cup {d \in sessions[m] : d <= upto}
         /\ \A d \in sessions[m] : d <= upto => d <= LastSession(m, upto)
         /\ LastSession(m, upto) \in Nat
<1> DEFINE S == {0} \cup {d \in sessions[m] : d <= upto}
<1>1. S \subseteq 0..LastTradeDay /\ S # {}
  BY FreshnessAssumption DEF FreshnessTypeOK
<1>2. IsFiniteSet(S)
  <2> HIDE DEF S
  <2>1. IsFiniteSet(0..LastTradeDay)
    BY FS_Interval, FreshnessAssumption
  <2>2. S \in SUBSET (0..LastTradeDay)
    BY <1>1
  <2>. QED
    BY <2>1, <2>2, FS_Subset
<1>3. Max(S) \in S /\ \A x \in S : Max(S) >= x
  <2> HIDE DEF S
  <2>1. S \subseteq Int
    BY <1>1
  <2>. QED
    BY <1>1, <1>2, <2>1, MaxIsThere
<1>4. LastSession(m, upto) = Max(S)
  BY DEF LastSession
<1>. QED
  BY <1>1, <1>3, <1>4

(* The last session up to a later day is no earlier.                       *)
LEMMA LastSessionGrows ==
  ASSUME FreshnessTypeOK, NEW m \in Markets, NEW n1 \in Int, NEW n2 \in Int, n1 <= n2
  PROVE  LastSession(m, n1) <= LastSession(m, n2)
<1>1. LastSession(m, n2) \in Nat
  BY LastSessionIs
<1>2. CASE LastSession(m, n1) = 0
  BY <1>1, <1>2
<1>3. CASE LastSession(m, n1) \in sessions[m] /\ LastSession(m, n1) <= n1
  <2>1. LastSession(m, n1) \in Nat
    BY LastSessionIs
  <2>2. LastSession(m, n1) <= n2
    BY <1>3, <2>1
  <2>. QED
    BY <1>3, <2>2, LastSessionIs
<1>. QED
  BY <1>2, <1>3, LastSessionIs

(* The day up to which the sessions of a market are over.                  *)
Upto(m) == IF m = "KR" THEN (IF part >= 4 THEN today ELSE today - 1)
           ELSE IF part > (IF winter THEN 1 ELSE 0) THEN today - 1 ELSE today - 2

(* The days that are closed, by that day.                                  *)
LEMMA ClosedUpto ==
  ASSUME FreshnessTypeOK, NEW m \in Markets
  PROVE  ClosedDays(m) = LastSession(m, Upto(m)) /\ Upto(m) \in Int
BY DEF ClosedDays, Upto, FreshnessTypeOK

(* The invariant holds before any data are there.                          *)
LEMMA FreshnessStarts == FreshnessInit => FreshnessInv
<1> SUFFICES ASSUME FreshnessInit PROVE FreshnessInv
  OBVIOUS
<1>1. FreshnessTypeOK
  BY DEF FreshnessInit, FreshnessTypeOK
<1>2. \A m \in Markets : ClosedDays(m) \in Nat
  BY <1>1, ClosedUpto, LastSessionIs
<1>. QED
  BY <1>1, <1>2 DEF FreshnessInit, FreshnessInv, DataOfThePast, NothingStale

(* As time passes more sessions are over.                                  *)
LEMMA PassingTime == FreshnessInv /\ TimePasses => FreshnessInv'
<1> SUFFICES ASSUME FreshnessInv, TimePasses PROVE FreshnessInv'
  OBVIOUS
<1>1. UNCHANGED <<sessions, winter, lastDate, selected, dear, preview>>
  BY DEF TimePasses
<1>2. FreshnessTypeOK'
  BY DEF FreshnessInv, FreshnessTypeOK, TimePasses
<1>3. ASSUME NEW m \in Markets PROVE lastDate'[m] <= ClosedDays(m)'
  <2>1. Upto(m) <= Upto(m)' /\ Upto(m) \in Int /\ Upto(m)' \in Int
    BY <1>1 DEF TimePasses, Upto, FreshnessInv, FreshnessTypeOK
  <2>2. LastSession(m, Upto(m)) <= LastSession(m, Upto(m)')
    BY <2>1, LastSessionGrows DEF FreshnessInv
  <2>3. /\ ClosedDays(m) = LastSession(m, Upto(m))
        /\ ClosedDays(m)' = LastSession(m, Upto(m)')
    BY <1>1, <1>2, ClosedUpto DEF FreshnessInv, ClosedDays, Upto, LastSession
  <2>4. ClosedDays(m) \in Nat /\ ClosedDays(m)' \in Nat
    BY <2>1, <2>3, LastSessionIs DEF FreshnessInv
  <2>. QED
    BY <1>1, <2>2, <2>3, <2>4 DEF FreshnessInv, FreshnessTypeOK, DataOfThePast
<1>. QED
  BY <1>1, <1>2, <1>3 DEF FreshnessInv, DataOfThePast, NothingStale

(* A collection brings the data of a market up to its last session.        *)
LEMMA Collecting ==
  ASSUME FreshnessInv, NEW k \in Markets, Collects(k)
  PROVE  FreshnessInv'
<1>1. /\ UNCHANGED <<sessions, winter, today, part, selected, dear, preview>>
      /\ lastDate' = [lastDate EXCEPT ![k] = ClosedDays(k)]
  BY DEF Collects
<1>2. \A m \in Markets : ClosedDays(m) \in Nat
  BY ClosedUpto, LastSessionIs DEF FreshnessInv
<1>3. \A m \in Markets : ClosedDays(m)' = ClosedDays(m)
  BY <1>1 DEF ClosedDays, LastSession
<1>. QED
  BY <1>1, <1>2, <1>3
     DEF FreshnessInv, FreshnessTypeOK, DataOfThePast, NothingStale

(* What is fresh is of the last session that is over.                      *)
LEMMA FreshIsCurrent ==
  ASSUME FreshnessInv, NEW m \in Markets, DataFresh(m)
  PROVE  lastDate[m] # 0 /\ lastDate[m] = ClosedDays(m)
<1>1. Upto(m) \in Int /\ today - DaysBack(m) \in Int /\ Upto(m) <= today - DaysBack(m)
  BY DEF Upto, DaysBack, FreshnessInv, FreshnessTypeOK, Markets
<1>2. ClosedDays(m) = LastSession(m, Upto(m))
  BY ClosedUpto DEF FreshnessInv
<1>3. ClosedDays(m) <= LastSession(m, today - DaysBack(m))
  BY <1>1, <1>2, LastSessionGrows DEF FreshnessInv
<1>4. LastSession(m, today - DaysBack(m)) \in Nat /\ ClosedDays(m) \in Nat
  BY <1>1, <1>2, LastSessionIs DEF FreshnessInv
<1>. QED
  BY <1>3, <1>4 DEF FreshnessInv, FreshnessTypeOK, DataOfThePast, DataFresh

(* A preview takes the candidates of the markets whose data are fresh.     *)
LEMMA Building == FreshnessInv /\ BuildsPreview => FreshnessInv'
<1> SUFFICES ASSUME FreshnessInv, BuildsPreview PROVE FreshnessInv'
  OBVIOUS
<1>1. UNCHANGED <<sessions, winter, today, part, lastDate, selected, dear>>
  BY DEF BuildsPreview
<1>2. FreshnessTypeOK'
  BY <1>1 DEF FreshnessInv, FreshnessTypeOK
<1>3. DataOfThePast'
  BY <1>1 DEF FreshnessInv, DataOfThePast, ClosedDays, LastSession
<1>4. \A m \in Candidates : m \in Markets /\ lastDate[m] # 0
                            /\ lastDate[m] = ClosedDays(m)
  BY FreshIsCurrent DEF Candidates, FreshnessInv, FreshnessTypeOK
<1>5. preview'.in \subseteq preview'.current
  BY <1>4 DEF BuildsPreview
<1>. QED
  BY <1>2, <1>3, <1>5 DEF FreshnessInv, NothingStale

(* Every step keeps the invariant.                                         *)
LEMMA FreshnessSteps == FreshnessInv /\ [FreshnessNext]_freshnessVars => FreshnessInv'
<1> SUFFICES ASSUME FreshnessInv, [FreshnessNext]_freshnessVars PROVE FreshnessInv'
  OBVIOUS
<1>1. CASE UNCHANGED freshnessVars
  BY <1>1 DEF freshnessVars, FreshnessInv, FreshnessTypeOK, DataOfThePast,
              NothingStale, ClosedDays, LastSession
<1>. QED
  BY <1>1, PassingTime, Collecting, Building DEF FreshnessNext

(* No candidate of a preview is of data older than the last session that   *)
(* was over when it was built, at whatever hour, season and holiday.       *)
THEOREM NoCandidateIsStale == FreshnessSpec => []NothingStale
<1>1. FreshnessInv => NothingStale
  BY DEF FreshnessInv
<1>. QED
  BY <1>1, FreshnessStarts, FreshnessSteps, PTL DEF FreshnessSpec

---------------------------------------------------------------------------
(* The daily prices of a symbol.                                           *)

(* The candles of a file, by date.                                         *)
CandleFiles == [Dates -> {"none", "live", "final"}]

(* The types of the variables.                                             *)
FetchingTypeOK ==
  /\ feed \in {"yfinance", "fdr", "korean", "overseas", "bitcoin", "lagged"}
  /\ candleDay \in Nat /\ candleDay > 0
  /\ hour \in {"session", "late", "closed"}
  /\ candleFile \in CandleFiles
  /\ settled \in Nat /\ settled <= candleDay
  /\ behind \in Nat

(* The feeds that ask for the last days again.                             *)
AsksAgain == feed \in {"overseas", "lagged"}

(* No candle is of a day to come.                                          *)
NoneToCome == \A d \in Dates : candleFile[d] # "none" => d <= candleDay

(* A file without a gap.                                                   *)
Whole(f) == \A d \in Dates : d < LastIn(f) => f[d] # "none"

(* The file has no gap, unless an overseas pass came too late.             *)
IsWhole == (feed = "overseas" => behind <= Recent + 1) => Whole(candleFile)

(* Before the last day on which a pass went well after the close the       *)
(* candles are finished, and before today once today's is there.           *)
IsFinal ==
  AsksAgain =>
    \A d \in Dates :
      \/ d < settled /\ d >= settled - Recent
      \/ /\ feed = "overseas" /\ Existing = candleDay
         /\ d < candleDay /\ d >= candleDay - Recent
      => candleFile[d] # "live"

(* The inductive invariant of the price file of a symbol.                  *)
FetchingInv == FetchingTypeOK /\ NoneToCome /\ IsWhole /\ IsFinal

(* The last date of a file is one of a candle, and no candle is later.     *)
LEMMA LastInIs ==
  ASSUME NEW f \in CandleFiles
  PROVE  /\ LastIn(f) \in {0} \cup {d \in Dates : f[d] # "none"}
         /\ LastIn(f) \in Nat
         /\ \A d \in Dates : f[d] # "none" => d <= LastIn(f)
<1> DEFINE S == {0} \cup {d \in Dates : f[d] # "none"}
<1>1. S \in SUBSET (0..LastDate) /\ S # {} /\ S \subseteq Int
  BY FetchingAssumption DEF Dates
<1>2. Max(S) \in S /\ \A x \in S : Max(S) >= x
  <2> HIDE DEF S
  <2>1. IsFiniteSet(0..LastDate)
    BY FS_Interval, FetchingAssumption
  <2>2. IsFiniteSet(S)
    BY <1>1, <2>1, FS_Subset
  <2>. QED
    BY <1>1, <2>2, MaxIsThere
<1>3. LastIn(f) = Max(S)
  BY DEF LastIn
<1>. QED
  BY <1>1, <1>2, <1>3

(* A file gets candles for the days from a start, which leaves no gap, to  *)
(* an end.                                                                 *)
LEMMA MergedIs ==
  ASSUME NEW f \in CandleFiles, NEW start \in Int, NEW till \in Int,
         NEW new \in CandleFiles,
         \A d \in Dates : new[d] # "none" <=> start <= d /\ d <= till
  PROVE  /\ Merged(f, new) \in CandleFiles
         /\ \A d \in Dates : Merged(f, new)[d] =
              IF start <= d /\ d <= till THEN new[d] ELSE f[d]
         /\ Whole(f) /\ start <= LastIn(f) + 1 => Whole(Merged(f, new))
<1> DEFINE g == Merged(f, new)
<1>1. g \in CandleFiles
  BY DEF Merged, CandleFiles
<1>2. \A d \in Dates : g[d] = IF start <= d /\ d <= till THEN new[d] ELSE f[d]
  BY DEF Merged
<1>3. ASSUME Whole(f), start <= LastIn(f) + 1, NEW d \in Dates, d < LastIn(g)
      PROVE  g[d] # "none"
  <2>1. /\ LastIn(g) \in {0} \cup {e \in Dates : g[e] # "none"}
        /\ LastIn(g) \in Nat /\ LastIn(f) \in Nat /\ d \in Nat /\ d > 0
        /\ \A e \in Dates : f[e] # "none" => e <= LastIn(f)
    BY <1>1, LastInIs DEF Dates
  <2>2. LastIn(g) \in Dates /\ g[LastIn(g)] # "none"
    BY <1>3, <2>1
  <2>3. CASE start <= d /\ d <= till
    BY <1>2, <2>3
  <2>4. CASE d < start
    <3>1. g[d] = f[d]
      BY <1>2, <2>1, <2>4
    <3>2. CASE d < LastIn(f)
      BY <1>3, <3>1, <3>2 DEF Whole
    <3>3. CASE d = LastIn(f)
      BY <2>1, <3>1, <3>3, LastInIs
    <3>. QED
      BY <1>3, <2>1, <2>4, <3>2, <3>3
  <2>5. CASE till < d
    <3>1. g[d] = f[d] /\ g[LastIn(g)] = f[LastIn(g)]
      BY <1>2, <1>3, <2>1, <2>2, <2>5
    <3>2. d < LastIn(f)
      BY <1>3, <2>1, <2>2, <3>1
    <3>. QED
      BY <1>3, <3>1, <3>2 DEF Whole
  <2>. QED
    BY <2>1, <2>3, <2>4, <2>5
<1>. QED
  BY <1>1, <1>2, <1>3 DEF Whole
(* A pass stores the candles of the days from a start to yesterday or      *)
(* today, or fewer of bitcoin.                                             *)
PassStored(start, till, new) ==
  /\ new \in CandleFiles
  /\ \A d \in Dates : /\ new[d] # "none" <=> start <= d /\ d <= till
                      /\ feed # "bitcoin" /\ d < candleDay => new[d] # "live"
  /\ candleFile' = Merged(candleFile, new)
  /\ behind' = Max({behind, candleDay - Existing})
  /\ GoesWell

(* A pass that stores such candles keeps the invariant.                    *)
LEMMA Storing ==
  ASSUME FetchingInv, UNCHANGED <<feed, candleDay, hour>>,
         NEW start \in Int, NEW till \in Int, NEW new, PassStored(start, till, new),
         till <= candleDay, feed # "bitcoin" => till >= candleDay - 1,
         feed # "overseas" => start <= Existing + 1,
         feed = "overseas" => start = RecentStart,
         feed = "lagged" => start = 1
  PROVE  FetchingInv'
<1> USE DEF FetchingInv, FetchingTypeOK
<1>1. /\ candleFile' \in CandleFiles
      /\ \A d \in Dates : candleFile'[d] =
           IF start <= d /\ d <= till THEN new[d] ELSE candleFile[d]
      /\ Whole(candleFile) /\ start <= LastIn(candleFile) + 1 => Whole(candleFile')
  BY MergedIs DEF PassStored
<1>2. /\ Existing \in Nat /\ Existing = LastIn(candleFile)
      /\ Existing \in {0} \cup {d \in Dates : candleFile[d] # "none"}
  BY LastInIs DEF Existing
<1>3. /\ behind' \in {behind, candleDay - Existing}
      /\ behind' >= behind /\ behind' >= candleDay - Existing
  <2>1. behind \in Int /\ candleDay - Existing \in Int
    BY <1>2
  <2>. QED
    BY <2>1, MaxOfTwo DEF PassStored
<1>4. FetchingTypeOK'
  <2>1. settled' = IF hour = "closed" THEN candleDay ELSE settled
    BY DEF PassStored, GoesWell
  <2>2. behind' \in Nat
    BY <1>2, <1>3
  <2>. QED
    BY <1>1, <2>1, <2>2
<1>5. NoneToCome'
  BY <1>1 DEF NoneToCome, PassStored, Dates
<1>6. IsWhole'
  <2> SUFFICES ASSUME feed = "overseas" => behind' <= Recent + 1
               PROVE  Whole(candleFile')
    BY DEF IsWhole
  <2>1. start <= Existing + 1
    BY <1>2, <1>3, FetchingAssumption DEF RecentStart
  <2>2. Whole(candleFile)
    BY <1>2, <1>3, FetchingAssumption DEF IsWhole
  <2>. QED
    BY <1>1, <1>2, <2>1, <2>2
<1>7. IsFinal'
  <2> SUFFICES ASSUME AsksAgain, NEW d \in Dates,
                      \/ d < settled' /\ d >= settled' - Recent
                      \/ d < candleDay /\ d >= candleDay - Recent
               PROVE  candleFile'[d] # "live"
    BY DEF IsFinal, AsksAgain
  <2>1. /\ d \in Nat /\ d > 0 /\ candleDay \in Nat /\ Recent \in Nat
        /\ settled' \in Nat /\ settled' <= candleDay
    <3>1. settled' \in Nat /\ settled' <= candleDay'
      BY <1>4
    <3>. QED
      BY <3>1, FetchingAssumption DEF Dates
  <2>2. d < candleDay
    <3> HIDE DEF FetchingInv, FetchingTypeOK
    <3>1. CASE d < settled'
      BY <2>1, <3>1
    <3>2. CASE d < candleDay
      BY <3>2
    <3>. QED
      BY <3>1, <3>2
  <2>3. new[d] # "live"
    BY <2>2 DEF PassStored, AsksAgain
  <2>4. CASE start <= d
    BY <1>1, <2>1, <2>2, <2>3, <2>4 DEF AsksAgain
  <2>5. CASE d < start
    <3>1. feed = "overseas" /\ ~(d >= candleDay - Recent)
      BY <2>1, <2>5 DEF AsksAgain, RecentStart
    <3>2. settled' = settled /\ candleFile'[d] = candleFile[d]
      BY <1>1, <2>1, <2>5, <3>1 DEF PassStored, GoesWell
    <3>. QED
      BY <3>1, <3>2 DEF IsFinal
  <2>. QED
    BY <2>1, <2>4, <2>5
<1>. QED
  BY <1>4, <1>5, <1>6, <1>7

(* The answer of a feed has a candle for each day from the start to        *)
(* yesterday or today.                                                     *)
LEMMA AnswersAre ==
  ASSUME FetchingInv, NEW start \in Int, NEW new \in Answers(start)
  PROVE  \E till \in {candleDay - 1, candleDay} :
           /\ new \in CandleFiles
           /\ \A d \in Dates :
                /\ new[d] # "none" <=> start <= d /\ d <= till
                /\ feed # "bitcoin" /\ d < candleDay => new[d] # "live"
<1>1. PICK till \in {candleDay - 1, candleDay} :
        new = [d \in Dates |-> IF d \in start..till THEN Candle(d) ELSE "none"]
  BY DEF Answers
<1>2. \A d \in Dates : Candle(d) \in {"live", "final"}
                      /\ (feed # "bitcoin" /\ d < candleDay => Candle(d) = "final")
  BY DEF Candle
<1>. QED
  BY <1>1, <1>2 DEF CandleFiles, FetchingInv, FetchingTypeOK, Dates

(* A pass that stores an answer keeps the invariant.                       *)
LEMMA StoringFrom ==
  ASSUME FetchingInv, UNCHANGED <<feed, candleDay, hour>>,
         NEW start \in Int, StoresFrom(start),
         feed # "bitcoin",
         feed # "overseas" => start <= Existing + 1,
         feed = "overseas" => start = RecentStart,
         feed = "lagged" => start = 1
  PROVE  FetchingInv'
<1>1. PICK new \in Answers(start) : SavesCandles(new) /\ GoesWell
  BY DEF StoresFrom
<1>2. PICK till \in {candleDay - 1, candleDay} :
        /\ new \in CandleFiles
        /\ \A d \in Dates :
             /\ new[d] # "none" <=> start <= d /\ d <= till
             /\ feed # "bitcoin" /\ d < candleDay => new[d] # "live"
  BY AnswersAre
<1>3. PassStored(start, till, new)
  BY <1>1, <1>2 DEF SavesCandles, PassStored
<1>4. till \in Int /\ till <= candleDay /\ till >= candleDay - 1
  BY DEF FetchingInv, FetchingTypeOK
<1>. QED
  BY <1>3, <1>4, Storing

(* A pass that finds nothing to do.                                        *)
LEMMA Skipping ==
  ASSUME FetchingInv, UNCHANGED <<feed, candleDay, hour>>, Skips,
         feed # "lagged", feed = "overseas" => UpToDate
  PROVE  FetchingInv'
<1> USE DEF FetchingInv, FetchingTypeOK
<1>1. /\ UNCHANGED <<candleFile, behind>>
      /\ settled' = IF hour = "closed" THEN candleDay ELSE settled
  BY DEF Skips, GoesWell
<1>2. Existing' = Existing
  BY <1>1 DEF Existing
<1>3. feed = "overseas" /\ hour = "closed" => Existing = candleDay
  <2>1. Existing \in {0} \cup {d \in Dates : candleFile[d] # "none"} /\ Existing \in Nat
    BY LastInIs DEF Existing
  <2>. QED
    BY <2>1 DEF UpToDate, LastClosedDate, NoneToCome
<1>4. FetchingTypeOK'
  BY <1>1
<1>5. IsFinal'
  BY <1>1, <1>2, <1>3 DEF IsFinal, AsksAgain
<1>. QED
  BY <1>1, <1>4, <1>5 DEF NoneToCome, IsWhole, Whole, LastIn

(* The invariant holds before the first pass.                              *)
LEMMA FetchingStarts == FetchingInit => FetchingInv
<1> SUFFICES ASSUME FetchingInit PROVE FetchingInv
  OBVIOUS
<1>1. candleFile \in CandleFiles /\ \A d \in Dates : candleFile[d] = "none"
  BY DEF FetchingInit, CandleFiles
<1>2. LastIn(candleFile) = 0
  BY <1>1, LastInIs
<1>3. Whole(candleFile)
  BY <1>2 DEF Whole, Dates
<1>. QED
  BY <1>1, <1>3
     DEF FetchingInit, FetchingInv, FetchingTypeOK, NoneToCome, IsWhole, IsFinal

(* The hours of a day keep it.                                             *)
LEMMA ClockStep == FetchingInv /\ Clock => FetchingInv'
<1> SUFFICES ASSUME FetchingInv, Clock PROVE FetchingInv'
  OBVIOUS
<1> USE DEF FetchingInv, FetchingTypeOK
<1>1. /\ UNCHANGED <<feed, candleFile, settled, behind>>
      /\ candleDay' = candleDay \/ candleDay' = candleDay + 1
  BY DEF Clock
<1>2. FetchingTypeOK'
  BY <1>1 DEF Clock
<1>3. Existing' = Existing /\ Existing \in Nat /\ Existing <= candleDay
  BY <1>1, LastInIs DEF Existing, NoneToCome
<1>4. NoneToCome'
  BY <1>1 DEF NoneToCome, Dates
<1>5. IsFinal'
  BY <1>1, <1>3 DEF IsFinal, AsksAgain
<1>. QED
  BY <1>1, <1>2, <1>4, <1>5 DEF IsWhole, Whole, LastIn

(* So do the passes of all feeds.                                          *)
LEMMA FetchStep == FetchingInv /\ Fetches => FetchingInv'
<1> SUFFICES ASSUME FetchingInv, Fetches PROVE FetchingInv'
  OBVIOUS
<1>1. UNCHANGED <<feed, candleDay, hour>>
  BY DEF Fetches
<1>2. Existing \in Nat /\ RecentStart \in Int /\ candleDay \in Nat
  BY LastInIs, FetchingAssumption
     DEF Existing, FetchingInv, FetchingTypeOK, RecentStart
<1>3. CASE FetchYfinance
  BY <1>1, <1>2, <1>3, Skipping, StoringFrom DEF FetchYfinance
<1>4. CASE FetchFdr
  BY <1>1, <1>2, <1>4, StoringFrom DEF FetchFdr
<1>5. CASE FetchKorean
  BY <1>1, <1>2, <1>5, Skipping, StoringFrom DEF FetchKorean
<1>6. CASE FetchOverseas
  BY <1>1, <1>2, <1>6, Skipping, StoringFrom DEF FetchOverseas
<1>7. CASE FetchBitcoin
  <2>1. PICK new \in Answers(Existing + 1), end \in Dates :
          SavesCandles([d \in Dates |-> IF d <= end THEN new[d] ELSE "none"])
    BY <1>7 DEF FetchBitcoin
  <2> DEFINE cut == [d \in Dates |-> IF d <= end THEN new[d] ELSE "none"]
  <2>2. PICK till \in {candleDay - 1, candleDay} :
          /\ new \in CandleFiles
          /\ \A d \in Dates : new[d] # "none" <=> Existing + 1 <= d /\ d <= till
    BY <1>2, AnswersAre
  <2>3. PICK upto \in Int : /\ upto <= candleDay
                            /\ \A d \in Dates : d <= till /\ d <= end <=> d <= upto
    <3>1. till \in Int /\ end \in Int /\ till <= candleDay /\ Dates \subseteq Int
      BY <1>2 DEF Dates
    <3>2. CASE till <= end
      <4>1. \A d \in Dates : d <= till /\ d <= end <=> d <= till
        BY <3>1, <3>2
      <4>. QED
        BY <3>1, <4>1
    <3>3. CASE end < till
      <4>1. \A d \in Dates : d <= till /\ d <= end <=> d <= end
        BY <3>1, <3>3
      <4>2. end <= candleDay
        BY <1>2, <3>1, <3>3
      <4>. QED
        BY <3>1, <4>1, <4>2
    <3>. QED
      BY <3>1, <3>2, <3>3
  <2>4. cut \in CandleFiles
        /\ \A d \in Dates : cut[d] # "none" <=> Existing + 1 <= d /\ d <= upto
    BY <2>2, <2>3 DEF CandleFiles
  <2>5. PassStored(Existing + 1, upto, cut)
    BY <1>7, <2>1, <2>4 DEF PassStored, SavesCandles, FetchBitcoin
  <2>. QED
    BY <1>1, <1>2, <1>7, <2>3, <2>5, Storing DEF FetchBitcoin
<1>8. CASE FetchFred
  BY <1>1, <1>2, <1>8, StoringFrom DEF FetchFred
<1>. QED
  BY <1>3, <1>4, <1>5, <1>6, <1>7, <1>8 DEF Fetches

(* Every step keeps the invariant.                                         *)
LEMMA FetchingSteps == FetchingInv /\ [FetchingNext]_fetchingVars => FetchingInv'
<1> SUFFICES ASSUME FetchingInv, [FetchingNext]_fetchingVars PROVE FetchingInv'
  OBVIOUS
<1>1. CASE UNCHANGED fetchingVars
  BY <1>1 DEF fetchingVars, FetchingInv, FetchingTypeOK, NoneToCome, IsWhole,
              Whole, IsFinal, AsksAgain, Existing, LastIn
<1>. QED
  BY <1>1, ClockStep, FetchStep DEF FetchingNext

(* The file of a symbol is whole and final, whichever feed collects it and *)
(* whatever passes failed or were not made.                                *)
THEOREM FilesAreWhole == FetchingSpec => []FileWhole
<1>1. FetchingInv => FileWhole
  BY DEF FetchingInv, IsWhole, Whole, IsFinal, AsksAgain, Existing, FileWhole
<1>. QED
  BY <1>1, FetchingStarts, FetchingSteps, PTL DEF FetchingSpec

---------------------------------------------------------------------------
(* The backtest of a strategy that buys on a signal.                       *)

(* The types of the variables, as far as the argument needs them.          *)
EnginePosition ==
  [shares : Nat, entry : Nat, since : Nat, fired : BOOLEAN]

(* The types of the variables.                                             *)
EngineTypeOK ==
  /\ fillPlan \in
       [fill : {"next_open", "typical"}, part : {1, 2}, slice : {1, 2}]
  /\ eventDay \in Nat
  /\ step \in {"open", "buy", "close", "night", "end"}
  /\ bar \in [EventSymbols -> [close : Nat, trade : Nat]]
  /\ eventCash \in Nat /\ budget \in Nat
  /\ book \in [EventSymbols -> EnginePosition]

(* A stop that is done is one that sold a part, or nothing.                *)
FiredIsKnown == \A s \in Held : book[s].fired => s \in partial \cup unfilled

(* A position that closed beyond its stop, which was never tried.          *)
BeyondStop(s) ==
  /\ s \in Held \ (partial \cup unfilled)
  /\ bar[s].close # NoEntry /\ bar[s].close <= book[s].entry - Loss

(* Once the day has closed such a position is about to be sold for it, or  *)
(* was bought since.                                                       *)
StopsSeen ==
  /\ Deferred /\ step = "night" =>
       \A s \in EventSymbols : BeyondStop(s) => sells[s] = "stop"
  /\ ~Deferred /\ step \in {"buy", "night"} =>
       \A s \in EventSymbols : BeyondStop(s) => book[s].since = eventDay

(* Only a run that is filled at the open trades there.                     *)
DeferredOpens == step = "open" => Deferred

(* Only symbols of the universe are bought.                                *)
BuysKnown == buys \in Seq(EventSymbols)

(* The list of what is to be bought names symbols of the universe.         *)
LEMMA WantedIsKnown ==
  ASSUME NEW signals \in SUBSET EventSymbols
  PROVE  Wanted(signals) \in Seq(EventSymbols)
<1> DEFINE T == signals \ Held
<1>1. IsFiniteSet(T)
  BY EngineAssumption, FS_Subset
<1>2. Cardinality(T) \in Nat
  BY <1>1, FS_CardinalityType
<1>3. PICK f \in [1..Cardinality(T) -> T] : IsInjective(f)
  <2>1. PICK f \in Bijection(1..Cardinality(T), T) : TRUE
    BY <1>1, FS_CardinalityType DEF ExistsBijection
  <2>2. /\ f \in [1..Cardinality(T) -> T]
        /\ \A a, b \in 1..Cardinality(T) : f[a] = f[b] => a = b
    BY <2>1 DEF Bijection, Injection, IsInjective
  <2>. QED
    BY <2>2 DEF IsInjective
<1>4. SetToSeq(T) \in [1..Cardinality(T) -> T]
  BY <1>3 DEF SetToSeq
<1>5. SetToSeq(T) \in [1..Cardinality(T) -> EventSymbols]
  <2>1. T \subseteq EventSymbols
    OBVIOUS
  <2> HIDE DEF T
  <2>. QED
    BY <1>4, <2>1
<1> HIDE DEF T
<1>6. SetToSeq(T) \in Seq(EventSymbols)
  BY <1>2, <1>5
<1>. QED
  BY <1>6 DEF Wanted, T

(* That holds before the first day.                                        *)
LEMMA BuysStart == EngineInit => BuysKnown
BY DEF EngineInit, BuysKnown

(* No step breaks it.                                                      *)
LEMMA BuysStep == BuysKnown /\ [EngineNext]_engineVars => BuysKnown'
<1> SUFFICES ASSUME BuysKnown, [EngineNext]_engineVars PROVE BuysKnown'
  OBVIOUS
<1>1. CASE BuysAtOpen
  <2>1. buys # <<>> /\ buys' = Tail(buys)
    BY <1>1 DEF BuysAtOpen
  <2>. QED
    BY <2>1 DEF BuysKnown
<1>2. CASE ClosesDay
  <2>1. PICK signals \in SUBSET EventSymbols :
          \/ buys' = Wanted(signals)
          \/ buys' = Wanted({s \in signals : bar[s].close # NoEntry})
    BY <1>2 DEF ClosesDay
  <2>2. {s \in signals : bar[s].close # NoEntry} \in SUBSET EventSymbols
    OBVIOUS
  <2>. QED
    BY <2>1, <2>2, WantedIsKnown DEF BuysKnown
<1>3. CASE NextEventDay \/ SellsAtOpen \/ BuysDone \/ Ends \/ UNCHANGED engineVars
  BY <1>3 DEF BuysKnown, NextEventDay, SellsAtOpen, BuysDone, Ends, engineVars
<1>. QED
  BY <1>1, <1>2, <1>3 DEF EngineNext

(* The inductive invariant of the backtest.                                *)
EngineInv == EngineTypeOK /\ FiredIsKnown /\ DeferredOpens /\ StopsSeen

(* The invariant holds before the first day.                               *)
LEMMA EngineStarts == EngineInit => EngineInv
<1> SUFFICES ASSUME EngineInit PROVE EngineInv
  OBVIOUS
<1>1. EngineTypeOK
  BY EngineAssumption
     DEF EngineInit, EngineTypeOK, EnginePosition, NoPosition, NoEntry
<1>2. Held = {}
  BY DEF EngineInit, Held, NoPosition
<1>. QED
  BY <1>1, <1>2 DEF EngineInit, EngineInv, FiredIsKnown, DeferredOpens, StopsSeen, BeyondStop

(* No more of a position is sold than there is.                            *)
LEMMA SoldIs ==
  ASSUME EngineTypeOK, NEW s \in EventSymbols
  PROVE  Sold(s) \in Nat /\ Sold(s) <= book[s].shares
<1>1. book[s].shares \in Nat /\ fillPlan.part \in {1, 2}
  BY DEF EngineTypeOK, EnginePosition
<1>2. book[s].shares \div fillPlan.part \in Nat
      /\ book[s].shares \div fillPlan.part <= book[s].shares
  BY <1>1, Divided
<1>. QED
  BY <1>1, <1>2 DEF Sold

(* What the sale of positions leaves: of those that are still there the    *)
(* entry, and in the sets those whose stop was tried.                      *)
LEMMA SellAllLeaves ==
  ASSUME EngineTypeOK, NEW why, SellAll(why)
  PROVE  /\ eventCash' \in Nat
         /\ book' \in [EventSymbols -> EnginePosition]
         /\ \A s \in Held' :
              /\ s \in Held
              /\ s \in partial \cup unfilled => s \in partial' \cup unfilled'
              /\ why[s] = "stop" => s \in partial' \cup unfilled'
              /\ book'[s].entry = book[s].entry
              /\ book'[s].fired => book[s].fired \/ why[s] = "stop"
<1> DEFINE out == {s \in Held : why[s] # "none"}
           closed == {s \in out : Sold(s) = book[s].shares}
           stoppedOut == {s \in out \ closed : why[s] = "stop"}
<1>1. /\ book' = [s \in EventSymbols |-> IF s \in out THEN Left(s, why[s]) ELSE book[s]]
      /\ partial' = (partial \ closed) \cup {s \in stoppedOut : Sold(s) > 0}
      /\ unfilled' = (unfilled \ closed) \cup {s \in stoppedOut : Sold(s) = 0}
      /\ eventCash' = eventCash + SumFunction([s \in out |-> Sold(s) * bar[s].trade])
  BY DEF SellAll
<1>2. eventCash' \in Nat
  <2> DEFINE f == [s \in out |-> Sold(s) * bar[s].trade]
  <2>1. out \in SUBSET EventSymbols
    BY DEF Held
  <2>2. \A s \in out : f[s] \in Nat
    <3> SUFFICES ASSUME NEW s \in out PROVE Sold(s) * bar[s].trade \in Nat
      OBVIOUS
    <3>1. Sold(s) \in Nat /\ bar[s].trade \in Nat
      BY <2>1, SoldIs DEF EngineTypeOK
    <3>. QED
      BY <3>1
  <2>3. SumFunctionOnSet(f, out) \in Nat
    <3>1. IsFiniteSet(out)
      BY <2>1, EngineAssumption, FS_Subset
    <3> HIDE DEF f, out
    <3>. QED
      BY <2>2, <3>1, SumIsNat
  <2>4. SumFunction(f) = SumFunctionOnSet(f, out)
    BY DEF SumFunction
  <2> HIDE DEF f
  <2>5. eventCash' = eventCash + SumFunction(f)
    BY <1>1 DEF f
  <2>. QED
    BY <2>3, <2>4, <2>5 DEF EngineTypeOK
<1>3. ASSUME NEW s \in EventSymbols
      PROVE  /\ book'[s] \in EnginePosition
             /\ s \notin closed => /\ book'[s].entry = book[s].entry
                                   /\ book'[s].fired => book[s].fired \/ why[s] = "stop"
             /\ s \in closed => book'[s].shares = 0
             /\ s \notin out => book'[s] = book[s]
  <2>0. book[s] \in EnginePosition
    BY DEF EngineTypeOK
  <2>1. CASE s \notin out
    BY <1>1, <2>0, <2>1
  <2>2. CASE s \in closed
    <3>1. book'[s] = NoPosition
      BY <1>1, <2>2 DEF Left
    <3>. QED
      BY <2>2, <3>1 DEF NoPosition, EnginePosition
  <2>3. CASE s \in out \ closed
    <3>1. book'[s] = [book[s] EXCEPT !.shares = @ - Sold(s),
                                     !.fired = @ \/ why[s] = "stop"]
      BY <1>1, <2>3 DEF Left
    <3>2. book[s].shares - Sold(s) \in Nat /\ book[s].fired \in BOOLEAN
      BY <2>0, SoldIs DEF EnginePosition
    <3>. QED
      BY <2>0, <2>3, <3>1, <3>2 DEF EnginePosition
  <2>. QED
    BY <2>1, <2>2, <2>3
<1>4. book' \in [EventSymbols -> EnginePosition]
  BY <1>1, <1>3
<1>5. ASSUME NEW s \in EventSymbols, s \in Held'
      PROVE  s \in Held /\ s \notin closed
  BY <1>3, <1>5 DEF Held
<1>6. ASSUME NEW s \in EventSymbols, s \in stoppedOut
      PROVE  s \in partial' \cup unfilled'
  <2>1. Sold(s) > 0 \/ Sold(s) = 0
    BY SoldIs
  <2>. QED
    BY <1>1, <1>6, <2>1
<1>7. ASSUME NEW s \in Held'
      PROVE  /\ s \in Held
             /\ s \in partial \cup unfilled => s \in partial' \cup unfilled'
             /\ why[s] = "stop" => s \in partial' \cup unfilled'
             /\ book'[s].entry = book[s].entry
             /\ book'[s].fired => book[s].fired \/ why[s] = "stop"
  <2>1. s \in EventSymbols /\ s \in Held /\ s \notin closed
    BY <1>5 DEF Held
  <2>2. s \in partial \cup unfilled => s \in partial' \cup unfilled'
    BY <1>1, <2>1
  <2>3. why[s] = "stop" => s \in partial' \cup unfilled'
    BY <1>6, <2>1
  <2>. QED
    BY <1>3, <2>1, <2>2, <2>3
<1>. QED
  BY <1>2, <1>4, <1>7

(* The sales of a morning.                                                 *)
LEMMA OpenSales == EngineInv /\ SellsAtOpen => EngineInv'
<1> SUFFICES ASSUME EngineInv, SellsAtOpen PROVE EngineInv'
  OBVIOUS
<1>1. /\ UNCHANGED <<fillPlan, eventDay, bar>> /\ SellAll(sells)
      /\ step = "open" /\ step' = "buy"
      /\ budget' = eventCash' \div fillPlan.slice
  BY DEF SellsAtOpen
<1>2. EngineTypeOK
  BY DEF EngineInv
<1>3. /\ eventCash' \in Nat /\ book' \in [EventSymbols -> EnginePosition]
      /\ \A s \in Held' :
           /\ s \in Held
           /\ s \in partial \cup unfilled => s \in partial' \cup unfilled'
           /\ sells[s] = "stop" => s \in partial' \cup unfilled'
           /\ book'[s].fired => book[s].fired \/ sells[s] = "stop"
  BY <1>1, <1>2, SellAllLeaves
<1>4. EngineTypeOK'
  <2>1. budget' \in Nat
    BY <1>1, <1>2, <1>3, Divided DEF EngineTypeOK
  <2>. QED
    BY <1>1, <1>2, <1>3, <2>1 DEF EngineTypeOK
<1>5. FiredIsKnown'
  BY <1>3 DEF EngineInv, FiredIsKnown
<1>6. Deferred'
  BY <1>1 DEF EngineInv, DeferredOpens, Deferred
<1>. QED
  BY <1>1, <1>4, <1>5, <1>6 DEF EngineInv, StopsSeen, DeferredOpens

(* A purchase at the price of the day.                                     *)
LEMMA OpenPurchase == EngineInv /\ BuysKnown /\ BuysAtOpen => EngineInv'
<1> SUFFICES ASSUME EngineInv, BuysKnown, BuysAtOpen PROVE EngineInv'
  OBVIOUS
<1> DEFINE s == Head(buys)
           bought == [shares |-> Affordable(s), entry |-> bar[s].trade,
                      since |-> eventDay, fired |-> FALSE]
<1>1. /\ UNCHANGED <<fillPlan, eventDay, step, bar, sells, budget, partial, unfilled>>
      /\ step = "buy"
  BY DEF BuysAtOpen
<1>2. CASE UNCHANGED <<eventCash, book>>
  BY <1>1, <1>2
     DEF EngineInv, EngineTypeOK, FiredIsKnown, DeferredOpens, StopsSeen, BeyondStop,
         Deferred, Held
<1>3. CASE /\ s \notin Held /\ Affordable(s) # 0
           /\ eventCash' = eventCash - Affordable(s) * bar[s].trade
           /\ book' = [book EXCEPT ![s] = bought]
  <2>0. s \in EventSymbols
    BY DEF BuysAtOpen, BuysKnown
  <2>1. bar[s].trade \in Nat /\ bar[s].trade > 0
    BY <1>3, <2>0 DEF EngineInv, EngineTypeOK, Affordable, NoEntry
  <2>2. /\ Affordable(s) \in Nat
        /\ Affordable(s) * bar[s].trade <= eventCash
    <3> DEFINE m == Min({budget, eventCash})
    <3>1. m \in Nat /\ m <= eventCash /\ eventCash \in Nat
      <4>1. budget \in Nat /\ eventCash \in Nat
        BY DEF EngineInv, EngineTypeOK
      <4>2. budget \in Int /\ eventCash \in Int
        BY <4>1
      <4>3. Min({budget, eventCash}) \in {budget, eventCash}
            /\ Min({budget, eventCash}) <= eventCash
        BY <4>2, MaxOfTwo
      <4>. QED
        BY <4>1, <4>3
    <3>2. Affordable(s) = m \div bar[s].trade
      BY <1>3 DEF Affordable
    <3> HIDE DEF m
    <3>3. m \div bar[s].trade \in Nat /\ (m \div bar[s].trade) * bar[s].trade <= m
      BY <2>1, <3>1, Divided
    <3>4. (m \div bar[s].trade) * bar[s].trade \in Nat
      BY <2>1, <3>3
    <3>. QED
      BY <3>1, <3>2, <3>3, <3>4
  <2>3. eventCash' \in Nat
    <3>1. Affordable(s) * bar[s].trade \in Nat
      BY <2>1, <2>2
    <3>. QED
      BY <1>3, <2>2, <3>1 DEF EngineInv, EngineTypeOK
  <2>4. bought \in EnginePosition
    BY <2>1, <2>2 DEF EngineInv, EngineTypeOK, EnginePosition
  <2>5. EngineTypeOK'
    <3> HIDE DEF bought, s
    <3>. QED
      BY <1>1, <1>3, <2>0, <2>3, <2>4 DEF EngineInv, EngineTypeOK
  <2>6. \A t \in EventSymbols : IF t = s THEN book'[t] = bought ELSE book'[t] = book[t]
    <3> HIDE DEF bought, s
    <3>. QED
      BY <1>3, <2>0 DEF EngineInv, EngineTypeOK
  <2>7. FiredIsKnown'
    BY <1>1, <2>6 DEF EngineInv, FiredIsKnown, Held
  <2>8. StopsSeen'
    BY <1>1, <2>6 DEF EngineInv, StopsSeen, BeyondStop, Held, Deferred
  <2>. QED
    BY <1>1, <2>5, <2>7, <2>8 DEF EngineInv, DeferredOpens
<1>. QED
  BY <1>2, <1>3 DEF BuysAtOpen

(* The close of a day: what is beyond its stop is sold for it, or noted.   *)
LEMMA DayCloses == EngineInv /\ ClosesDay => EngineInv'
<1> SUFFICES ASSUME EngineInv, ClosesDay PROVE EngineInv'
  OBVIOUS
<1>1. /\ UNCHANGED <<fillPlan, eventDay, bar>> /\ step = "close"
  BY DEF ClosesDay
<1>2. PICK why \in [EventSymbols -> {"none", "stop", "signal"}],
           signals \in SUBSET EventSymbols :
        /\ \A s \in EventSymbols : why[s] \in Reasons(s)
        /\ IF Deferred
           THEN /\ sells' = why
                /\ step' = "night"
                /\ UNCHANGED <<eventCash, book, budget, partial, unfilled>>
           ELSE /\ SellAll(why)
                /\ budget' = eventCash' \div fillPlan.slice
                /\ step' = "buy"
  BY DEF ClosesDay
<1>3. EngineTypeOK /\ FiredIsKnown
  BY DEF EngineInv
<1>4. \A s \in Held : /\ bar[s].close # NoEntry
                      /\ bar[s].close <= book[s].entry - Loss
                      /\ ~book[s].fired
                      => why[s] = "stop"
  BY <1>2 DEF Reasons, Held
<1>5. CASE Deferred
  <2>1. /\ sells' = why /\ step' = "night" /\ Deferred'
        /\ UNCHANGED <<eventCash, book, budget, partial, unfilled>>
    BY <1>1, <1>2, <1>5 DEF Deferred
  <2>2. EngineTypeOK' /\ FiredIsKnown'
    BY <1>1, <1>3, <2>1 DEF EngineTypeOK, FiredIsKnown, Held
  <2>3. \A s \in EventSymbols : BeyondStop(s)' => sells'[s] = "stop"
    BY <1>1, <1>3, <1>4, <2>1 DEF BeyondStop, Held, FiredIsKnown
  <2>. QED
    BY <2>1, <2>2, <2>3 DEF EngineInv, StopsSeen, DeferredOpens
<1>6. CASE ~Deferred
  <2>1. /\ SellAll(why) /\ step' = "buy" /\ ~Deferred'
        /\ budget' = eventCash' \div fillPlan.slice
    BY <1>1, <1>2, <1>6 DEF Deferred
  <2>2. /\ eventCash' \in Nat /\ book' \in [EventSymbols -> EnginePosition]
        /\ \A s \in Held' :
             /\ s \in Held
             /\ s \in partial \cup unfilled => s \in partial' \cup unfilled'
             /\ why[s] = "stop" => s \in partial' \cup unfilled'
             /\ book'[s].entry = book[s].entry
             /\ book'[s].fired => book[s].fired \/ why[s] = "stop"
    BY <1>3, <2>1, SellAllLeaves
  <2>3. EngineTypeOK'
    <3>1. budget' \in Nat
      BY <1>3, <2>1, <2>2, Divided DEF EngineTypeOK
    <3>. QED
      BY <1>1, <1>3, <2>1, <2>2, <3>1 DEF EngineTypeOK
  <2>4. FiredIsKnown'
    BY <1>3, <2>2 DEF FiredIsKnown
  <2>5. \A s \in EventSymbols : ~BeyondStop(s)'
    <3> SUFFICES ASSUME NEW s \in EventSymbols, BeyondStop(s)' PROVE FALSE
      OBVIOUS
    <3>1. s \in Held' /\ s \notin partial' \cup unfilled'
      BY DEF BeyondStop
    <3>2. s \in Held /\ ~book[s].fired /\ why[s] # "stop" /\ book'[s].entry = book[s].entry
      BY <1>3, <2>2, <3>1 DEF FiredIsKnown
    <3>. QED
      BY <1>1, <1>4, <3>2 DEF BeyondStop
  <2>. QED
    BY <2>1, <2>3, <2>4, <2>5 DEF EngineInv, StopsSeen, DeferredOpens
<1>. QED
  BY <1>5, <1>6

(* Every step keeps the invariant.                                         *)
LEMMA EngineSteps == EngineInv /\ BuysKnown /\ [EngineNext]_engineVars => EngineInv'
<1> SUFFICES ASSUME EngineInv, BuysKnown, [EngineNext]_engineVars PROVE EngineInv'
  OBVIOUS
<1>1. CASE NextEventDay
  <2>1. /\ UNCHANGED <<fillPlan, eventCash, book, sells, buys, budget, partial, unfilled>>
        /\ eventDay' = eventDay + 1
        /\ bar' \in [EventSymbols -> Bars]
        /\ step' = IF Deferred THEN "open" ELSE "close"
    BY <1>1 DEF NextEventDay
  <2>2. Bars \subseteq [close : Nat, trade : Nat]
    <3>1. (IF Deferred THEN EventPrices ELSE EventPrices \cup {NoEntry}) \subseteq Nat
      BY EngineAssumption DEF NoEntry
    <3>2. 0 \in Nat /\ EventPrices \subseteq Nat
      BY EngineAssumption
    <3>3. ASSUME NEW T, T \subseteq Nat
          PROVE  {[close |-> 0, trade |-> 0]} \cup [close : EventPrices, trade : T]
                   \subseteq [close : Nat, trade : Nat]
      <4>1. [close |-> 0, trade |-> 0] \in [close : Nat, trade : Nat]
        OBVIOUS
      <4>2. ASSUME NEW r \in [close : EventPrices, trade : T]
            PROVE  r \in [close : Nat, trade : Nat]
        BY <3>2, <3>3
      <4>. QED
        BY <4>1, <4>2
    <3>. QED
      BY <3>1, <3>3 DEF Bars, NoEntry
  <2>3. bar' \in [EventSymbols -> [close : Nat, trade : Nat]]
    BY <2>1, <2>2
  <2>4. EngineTypeOK'
    BY <2>1, <2>3 DEF EngineInv, EngineTypeOK
  <2>. QED
    BY <2>1, <2>4
       DEF EngineInv, FiredIsKnown, Held, DeferredOpens, StopsSeen, Deferred
<1>2. CASE BuysDone
  <2>1. /\ UNCHANGED <<fillPlan, eventDay, bar, eventCash, book, sells, buys, budget,
                       partial, unfilled>>
        /\ step = "buy" /\ step' = IF Deferred THEN "close" ELSE "night"
    BY <1>2 DEF BuysDone
  <2>2. EngineTypeOK'
    BY <2>1 DEF EngineInv, EngineTypeOK
  <2>. QED
    BY <2>1, <2>2
       DEF EngineInv, FiredIsKnown, Held, DeferredOpens, StopsSeen, BeyondStop, Deferred
<1>3. CASE Ends
  <2>1. PICK last \in [EventSymbols -> EventPrices] :
          eventCash' = eventCash + SumFunction([s \in Held |-> book[s].shares * last[s]])
    BY <1>3 DEF Ends
  <2>2. /\ UNCHANGED <<fillPlan, eventDay, bar, sells, buys, budget>>
        /\ book' = [s \in EventSymbols |-> NoPosition] /\ step' = "end"
    BY <1>3 DEF Ends
  <2>3. eventCash' \in Nat
    <3> DEFINE f == [s \in Held |-> book[s].shares * last[s]]
    <3>1. \A s \in Held : f[s] \in Nat
      <4> SUFFICES ASSUME NEW s \in Held PROVE book[s].shares * last[s] \in Nat
        OBVIOUS
      <4>1. book[s].shares \in Nat /\ last[s] \in Nat
        BY EngineAssumption DEF Held, EngineInv, EngineTypeOK, EnginePosition
      <4>. QED
        BY <4>1
    <3>2. IsFiniteSet(Held)
      <4>1. Held \in SUBSET EventSymbols
        BY DEF Held
      <4>. QED
        BY <4>1, EngineAssumption, FS_Subset
    <3>3. SumFunction(f) = SumFunctionOnSet(f, Held)
      BY DEF SumFunction
    <3>4. eventCash' = eventCash + SumFunction(f)
      BY <2>1
    <3> HIDE DEF f
    <3>5. SumFunctionOnSet(f, Held) \in Nat
      BY <3>1, <3>2, SumIsNat
    <3>. QED
      BY <3>3, <3>4, <3>5 DEF EngineInv, EngineTypeOK
  <2>4. EngineTypeOK'
    BY <2>2, <2>3 DEF EngineInv, EngineTypeOK, NoPosition, EnginePosition
  <2>5. Held' = {}
    BY <2>2 DEF Held, NoPosition
  <2>. QED
    BY <2>2, <2>4, <2>5 DEF EngineInv, FiredIsKnown, DeferredOpens, StopsSeen
<1>4. CASE UNCHANGED engineVars
  BY <1>4 DEF engineVars, EngineInv, EngineTypeOK, FiredIsKnown, Held, DeferredOpens,
              StopsSeen, BeyondStop, Deferred
<1>. QED
  BY <1>1, <1>2, <1>3, <1>4, OpenSales, OpenPurchase, DayCloses DEF EngineNext

(* No position passes a night beyond its stop without being sold for it    *)
(* the next day, unless it was bought after the check of the day, or its   *)
(* stop was tried before.                                                  *)
THEOREM StopsAreHeld == EngineSpec => []StopsHeld
<1>1. EngineInv => StopsHeld
  BY DEF EngineInv, EngineTypeOK, StopsSeen, BeyondStop, StopsHeld, Held
<1>. QED
  BY <1>1, EngineStarts, EngineSteps, BuysStart, BuysStep, PTL DEF EngineSpec

---------------------------------------------------------------------------
(* The backtest of a strategy that is rebalanced.                          *)

(* The types of the variables, as far as the argument needs them.          *)
RebalanceTypeOK ==
  /\ plan \in [deferred : BOOLEAN, leverage : {1, 2}, refill : BOOLEAN,
               direction : {"long", "short", "long_short"}]
  /\ phase \in {"night", "sell", "buy", "decide"}
  /\ close \in [Universe -> Prices] /\ trade \in [Universe -> Prices]
  /\ cash \in Int /\ floor \in Int
  /\ shares \in [Universe -> Int]
  /\ weights \in {None} \cup [Universe -> Int]
  /\ next \in Nat \ {0}
  /\ excluded \subseteq Universe

(* A run without leverage and shorts.                                      *)
LongOnly == plan.leverage = 1 /\ plan.direction = "long"

(* What such a run has and wants is not negative.                          *)
Solvent ==
  LongOnly =>
    /\ cash >= 0
    /\ \A s \in Universe : shares[s] >= 0
    /\ weights # None => \A s \in Universe : weights[s] >= 0
    /\ phase = "buy" => floor = 0

(* There is a target while it is executed, and none when one is set.       *)
TargetThere ==
  /\ phase \in {"sell", "buy"} => weights # None
  /\ phase = "decide" => weights = None

(* Of a symbol that was exited none is wanted; once the target is executed *)
(* none is held, and meanwhile a short position of it is being covered, in *)
(* the order of the names.                                                 *)
NoneWanted ==
  /\ weights # None => \A s \in excluded : weights[s] = 0
  /\ weights = None => \A s \in excluded : shares[s] = 0
  /\ phase = "buy" =>
       \A i \in DOMAIN Order : Order[i] \in excluded =>
         /\ shares[Order[i]] <= 0
         /\ i < next => shares[Order[i]] = 0

(* The inductive invariant of the rebalanced strategy.                     *)
RebalanceInv == RebalanceTypeOK /\ Solvent /\ TargetThere /\ NoneWanted

(* Prices are positive.                                                    *)
LEMMA PricesAre == \A p \in Prices : p \in Nat /\ p > 0
<1>1. Prices \subseteq Nat \ {0}
  BY RebalanceAssumption
<1>. QED
  BY <1>1

(* The symbols are those of the sequence, finitely many.                   *)
LEMMA UniverseIs ==
  /\ IsFiniteSet(Universe)
  /\ \A i \in DOMAIN Order : Order[i] \in Universe
  /\ \A s \in Universe : \E i \in DOMAIN Order : Order[i] = s
  /\ DOMAIN Order = 1..Len(Order) /\ Len(Order) \in Nat
<1>1. /\ DOMAIN Order = 1..Len(Order) /\ Len(Order) \in Nat
  BY RebalanceAssumption
<1>2. /\ \A i \in DOMAIN Order : Order[i] \in Universe
      /\ \A s \in Universe : \E i \in DOMAIN Order : Order[i] = s
  BY DEF Universe, Range
<1>3. Order \in Surjection(1..Len(Order), Universe)
  BY <1>1, <1>2, RebalanceAssumption DEF Surjection, Universe
<1>4. IsFiniteSet(1..Len(Order))
  BY <1>1, FS_Interval
<1>. QED
  BY <1>1, <1>2, <1>3, <1>4, FS_Surjection

(* The worth of the account is an integer; what is held is worth something *)
(* and, without shorts, no more than the account.                          *)
LEMMA WorthIs ==
  ASSUME RebalanceTypeOK
  PROVE  /\ Worth(close) \in Int /\ Gross \in Nat
         /\ Holding # {} => Gross > 0
         /\ (\A s \in Universe : shares[s] >= 0) => Worth(close) = cash + Gross
<1> DEFINE f == [s \in Universe |-> shares[s] * close[s]]
           g == [s \in Universe |-> Size(shares[s]) * close[s]]
<1>1. ASSUME NEW s \in Universe
      PROVE  /\ shares[s] \in Int /\ close[s] \in Nat /\ close[s] > 0
             /\ Size(shares[s]) \in Nat /\ (shares[s] # 0 => Size(shares[s]) > 0)
             /\ (shares[s] >= 0 => Size(shares[s]) = shares[s])
  <2>1. shares[s] \in Int /\ close[s] \in Nat /\ close[s] > 0
    <3>1. close[s] \in Prices /\ shares[s] \in Int
      BY DEF RebalanceTypeOK
    <3>. QED
      BY <3>1, PricesAre
  <2>. QED
    BY <2>1 DEF Size
<1>2. \A s \in Universe : /\ f[s] \in Int /\ g[s] \in Nat
                          /\ (shares[s] # 0 => g[s] > 0)
                          /\ (shares[s] >= 0 => f[s] = g[s])
  <2> SUFFICES ASSUME NEW s \in Universe
               PROVE  /\ shares[s] * close[s] \in Int
                      /\ Size(shares[s]) * close[s] \in Nat
                      /\ (shares[s] # 0 => Size(shares[s]) * close[s] > 0)
                      /\ (shares[s] >= 0 => shares[s] * close[s] = Size(shares[s]) * close[s])
    OBVIOUS
  <2>1. \A m \in Nat, n \in Nat : m > 0 /\ n > 0 => m * n > 0
    OBVIOUS
  <2>. QED
    BY <1>1, <2>1
<1>3. SumFunctionOnSet(f, Universe) \in Int /\ SumFunctionOnSet(g, Universe) \in Nat
  <2> HIDE DEF f, g
  <2>. QED
    BY <1>2, UniverseIs, SumIsInt, SumIsNat
<1>4. Worth(close) = cash + SumFunctionOnSet(f, Universe)
      /\ Gross = SumFunctionOnSet(g, Universe)
  BY DEF Worth, Gross, SumFunction
<1>5. ASSUME Holding # {} PROVE SumFunctionOnSet(g, Universe) > 0
  <2>1. PICK s \in Universe : shares[s] # 0
    BY <1>5 DEF Holding
  <2> HIDE DEF f, g
  <2>2. SumFunctionOnSet(g, Universe) = g[s] + SumFunctionOnSet(g, Universe \ {s})
    <3>1. \A u \in Universe : g[u] \in Int
      BY <1>2
    <3>. QED
      BY <3>1, UniverseIs, SumWith
  <2>3. SumFunctionOnSet(g, Universe \ {s}) \in Nat
    <3>1. IsFiniteSet(Universe \ {s}) /\ \A u \in Universe \ {s} : g[u] \in Nat
      BY <1>2, UniverseIs, FS_Subset
    <3>. QED
      BY <3>1, SumIsNat
  <2>. QED
    BY <1>2, <2>1, <2>2, <2>3
<1>6. ASSUME \A s \in Universe : shares[s] >= 0
      PROVE  SumFunctionOnSet(f, Universe) = SumFunctionOnSet(g, Universe)
  <2> HIDE DEF f, g
  <2>. QED
    BY <1>2, <1>6, UniverseIs, SumOfSame
<1>. QED
  <2> HIDE DEF f, g
  <2>. QED
    BY <1>3, <1>4, <1>5, <1>6 DEF RebalanceTypeOK

(* A purchase: of what was exited it covers all, and without leverage and  *)
(* shorts it costs no more than there is.                                  *)
LEMMA BoughtIs ==
  ASSUME RebalanceTypeOK, weights # None, NEW s \in Universe
  PROVE  /\ Bought(s) \in Int
         /\ weights[s] = 0 /\ shares[s] <= 0 => shares[s] + Bought(s) = 0
         /\ weights[s] >= 0 /\ shares[s] >= 0 /\ floor = 0 /\ cash >= 0 =>
              Bought(s) >= 0 /\ Bought(s) * trade[s] <= cash
<1> DEFINE W == weights[s]
           H == shares[s]
           p == trade[s]
           cover == Min({Size(Min({0, H})), W - H})
           room == (cash - cover * p - floor) \div p
<1>1. /\ W \in Int /\ H \in Int /\ p \in Nat /\ p > 0 /\ cash \in Int /\ floor \in Int
  <2>1. weights \in [Universe -> Int] /\ trade[s] \in Prices
    BY DEF RebalanceTypeOK
  <2>2. trade[s] \in Nat /\ trade[s] > 0
    BY <2>1, PricesAre
  <2>. QED
    BY <2>1, <2>2 DEF RebalanceTypeOK
<1>2. Bought(s) = IF W <= H THEN 0 ELSE cover + Max({0, Min({W - H - cover, room})})
  BY DEF Bought
<1>3. /\ cover \in Int
      /\ H >= 0 /\ W > H => cover = 0
      /\ W = 0 /\ H < 0 => cover = -H
  <2> HIDE DEF W, H
  <2>1. Min({0, H}) \in {0, H} /\ Min({0, H}) <= 0 /\ Min({0, H}) <= H
    BY <1>1, 0 \in Int, MaxOfTwo
  <2>2. /\ Size(Min({0, H})) \in Int
        /\ H >= 0 => Size(Min({0, H})) = 0
        /\ H < 0 => Size(Min({0, H})) = -H
    BY <1>1, <2>1 DEF Size
  <2> DEFINE z == Size(Min({0, H}))
  <2>3. z \in Int /\ W - H \in Int
    BY <1>1, <2>2
  <2> HIDE DEF z
  <2>4. Min({z, W - H}) \in {z, W - H} /\ Min({z, W - H}) <= z /\ Min({z, W - H}) <= W - H
    BY <2>3, MaxOfTwo
  <2>. QED
    BY <1>1, <2>2, <2>3, <2>4 DEF z
<1>4. room \in Int /\ (cash >= 0 /\ floor = 0 /\ cover = 0 => room >= 0 /\ room * p <= cash)
  <2> HIDE DEF cover, p
  <2>1. cash - cover * p - floor \in Int
    BY <1>1, <1>3
  <2>2. \A n \in Int : n \div p \in Int
    BY <1>1
  <2>3. ASSUME cash >= 0, floor = 0, cover = 0
        PROVE  room >= 0 /\ room * p <= cash
    <3>1. cash - cover * p - floor = cash /\ cash \in Nat
      BY <1>1, <2>3
    <3>2. cash \div p \in Nat /\ (cash \div p) * p <= cash
      BY <1>1, <3>1, Divided
    <3>. QED
      BY <3>1, <3>2
  <2>. QED
    BY <2>1, <2>2, <2>3
<1> DEFINE least == Min({W - H - cover, room})
<1>5. least \in Int /\ least <= W - H - cover /\ least <= room
  <2> HIDE DEF cover, room, W, H
  <2>1. W - H - cover \in Int
    BY <1>1, <1>3
  <2>. QED
    BY <1>4, <2>1, MaxOfTwo
<1>6. /\ Max({0, least}) \in {0, least} /\ Max({0, least}) >= 0 /\ Max({0, least}) >= least
  <2> HIDE DEF least
  <2>. QED
    BY <1>5, 0 \in Int, MaxOfTwo
<1> DEFINE more == Max({0, least})
<1>7. Bought(s) = IF W <= H THEN 0 ELSE cover + more
  BY <1>2
<1> HIDE DEF cover, room, W, H, p, least, more
<1>8. more \in Int /\ more >= 0
  BY <1>5, <1>6 DEF more
<1>9. Bought(s) \in Int
  BY <1>3, <1>7, <1>8
<1>10. ASSUME W = 0, H <= 0 PROVE H + Bought(s) = 0
  <2>1. CASE H = 0
    BY <1>7, <1>10, <2>1
  <2>2. CASE H < 0
    <3>1. cover = -H /\ least <= 0
      BY <1>1, <1>3, <1>5, <1>10, <2>2
    <3>2. more = 0
      BY <1>5, <1>6, <3>1 DEF more
    <3>. QED
      BY <1>1, <1>7, <1>10, <2>2, <3>1, <3>2
  <2>. QED
    BY <1>1, <1>10, <2>1, <2>2
<1>11. ASSUME W >= 0, H >= 0, floor = 0, cash >= 0
       PROVE  Bought(s) >= 0 /\ Bought(s) * p <= cash
  <2>1. CASE W <= H
    BY <1>1, <1>7, <1>11, <2>1
  <2>2. CASE W > H
    <3>1. cover = 0 /\ Bought(s) = more
      BY <1>1, <1>3, <1>7, <1>8, <1>11, <2>2
    <3>2. room >= 0 /\ room * p <= cash /\ room \in Int
      BY <1>4, <1>11, <3>1
    <3>3. more <= room
      BY <1>5, <1>6, <3>2 DEF more
    <3>4. \A m, n \in Nat : m <= n => m * p <= n * p
      BY <1>1
    <3>5. more * p <= room * p /\ more * p \in Int /\ room * p \in Int
      BY <1>1, <1>8, <3>2, <3>3, <3>4
    <3>. QED
      BY <1>1, <1>8, <3>1, <3>2, <3>5
  <2>. QED
    BY <1>1, <2>1, <2>2
<1>. QED
  BY <1>9, <1>10, <1>11 DEF W, H, p
(* The invariant holds before the first day.                               *)
LEMMA RebalanceStarts == RebalanceInit => RebalanceInv
<1> SUFFICES ASSUME RebalanceInit PROVE RebalanceInv
  OBVIOUS
<1>1. RebalanceTypeOK
  BY RebalanceAssumption DEF RebalanceInit, RebalanceTypeOK, Zero, None
<1>. QED
  BY <1>1, RebalanceAssumption
     DEF RebalanceInit, RebalanceInv, Solvent, TargetThere, NoneWanted, Zero

(* The sales of a target.                                                  *)
LEMMA TargetSales == RebalanceInv /\ Sells => RebalanceInv'
<1> SUFFICES ASSUME RebalanceInv, Sells PROVE RebalanceInv'
  OBVIOUS
<1> DEFINE out == {s \in Universe : weights[s] < shares[s]}
           f == [s \in out |-> (shares[s] - weights[s]) * trade[s]]
<1>1. /\ UNCHANGED <<plan, close, trade, weights, excluded>>
      /\ phase = "sell" /\ phase' = "buy" /\ next' = 1
      /\ cash' = cash + SumFunctionOnSet(f, out)
      /\ shares' = [s \in Universe |-> IF s \in out THEN weights[s] ELSE shares[s]]
      /\ floor' = Worth(close) * (1 - plan.leverage)
  BY DEF Sells, SumFunction
<1>2. RebalanceTypeOK
  BY DEF RebalanceInv
<1>3. weights \in [Universe -> Int] /\ shares \in [Universe -> Int] /\ weights # None
  BY <1>1, <1>2 DEF RebalanceTypeOK, RebalanceInv, TargetThere
<1>4. SumFunctionOnSet(f, out) \in Nat
  <2>1. \A s \in out : f[s] \in Nat
    <3> SUFFICES ASSUME NEW s \in out PROVE (shares[s] - weights[s]) * trade[s] \in Nat
      OBVIOUS
    <3>1. shares[s] - weights[s] \in Nat
      BY <1>3
    <3>2. trade[s] \in Nat
      BY <1>2, PricesAre DEF RebalanceTypeOK
    <3>. QED
      BY <3>1, <3>2
  <2>2. IsFiniteSet(out)
    BY UniverseIs, FS_Subset
  <2> HIDE DEF f, out
  <2>. QED
    BY <2>1, <2>2, SumIsNat
<1>5. floor' \in Int /\ (LongOnly => floor' = 0)
  <2>1. Worth(close) \in Int /\ plan.leverage \in {1, 2}
    BY <1>2, WorthIs DEF RebalanceTypeOK
  <2>2. floor' = Worth(close) * (1 - plan.leverage)
    BY <1>1
  <2>3. CASE plan.leverage = 1
    BY <2>1, <2>2, <2>3
  <2>4. CASE plan.leverage = 2
    BY <2>1, <2>2, <2>4 DEF LongOnly
  <2>. QED
    BY <2>1, <2>3, <2>4
<1>6. cash' \in Int /\ cash \in Int /\ cash' >= cash
  <2> HIDE DEF f, out
  <2>. QED
    BY <1>1, <1>2, <1>4 DEF RebalanceTypeOK
<1>7. \A s \in Universe : /\ shares'[s] \in {weights[s], shares[s]}
                          /\ shares'[s] <= weights[s]
  BY <1>1, <1>3
<1>8. RebalanceTypeOK'
  <2>1. shares' \in [Universe -> Int]
    BY <1>1, <1>3
  <2> HIDE DEF f, out
  <2>. QED
    BY <1>1, <1>2, <1>5, <1>6, <2>1 DEF RebalanceTypeOK
<1>9. Solvent'
  <2> HIDE DEF f, out
  <2>. QED
    BY <1>1, <1>3, <1>5, <1>6, <1>7 DEF RebalanceInv, Solvent, LongOnly
<1>10. NoneWanted'
  <2> HIDE DEF f, out
  <2>1. \A s \in excluded : weights[s] = 0
    BY <1>3 DEF RebalanceInv, NoneWanted
  <2>2. \A i \in DOMAIN Order : ~(i < 1)
    BY UniverseIs
  <2>. QED
    BY <1>1, <1>3, <1>7, <2>1, <2>2, UniverseIs DEF NoneWanted
<1>. QED
  BY <1>1, <1>3, <1>8, <1>9, <1>10 DEF RebalanceInv, TargetThere

(* A purchase for a target.                                                *)
LEMMA TargetPurchase == RebalanceInv /\ Buys => RebalanceInv'
<1> SUFFICES ASSUME RebalanceInv, Buys PROVE RebalanceInv'
  OBVIOUS
<1>0. PICK s \in Universe : s = Order[next] /\ next \in DOMAIN Order
  <2>1. next \in DOMAIN Order
    BY UniverseIs DEF Buys, RebalanceInv, RebalanceTypeOK
  <2>. QED
    BY <2>1, UniverseIs
<1>1. /\ UNCHANGED <<plan, phase, close, trade, weights, floor, excluded>>
      /\ phase = "buy" /\ next' = next + 1
      /\ cash' = cash - Bought(s) * trade[s]
      /\ shares' = [shares EXCEPT ![s] = @ + Bought(s)]
  BY <1>0 DEF Buys
<1>2. RebalanceTypeOK /\ weights # None
  BY <1>1 DEF RebalanceInv, TargetThere
<1>3. /\ Bought(s) \in Int /\ trade[s] \in Nat /\ shares[s] \in Int
      /\ weights[s] = 0 /\ shares[s] <= 0 => shares[s] + Bought(s) = 0
      /\ weights[s] >= 0 /\ shares[s] >= 0 /\ floor = 0 /\ cash >= 0 =>
           Bought(s) >= 0 /\ Bought(s) * trade[s] <= cash
  BY <1>2, BoughtIs, PricesAre DEF RebalanceTypeOK
<1>4. Bought(s) * trade[s] \in Int /\ cash \in Int
  BY <1>2, <1>3 DEF RebalanceTypeOK
<1>5. \A u \in Universe : shares'[u] = IF u = s THEN shares[s] + Bought(s) ELSE shares[u]
  BY <1>1, <1>2 DEF RebalanceTypeOK
<1>6. RebalanceTypeOK'
  <2>1. shares' \in [Universe -> Int]
    BY <1>1, <1>2, <1>3 DEF RebalanceTypeOK
  <2>2. cash' \in Int
    BY <1>1, <1>4
  <2>. QED
    BY <1>1, <1>2, <2>1, <2>2 DEF RebalanceTypeOK
<1>7. Solvent'
  <2> SUFFICES ASSUME LongOnly
               PROVE  cash' >= 0 /\ \A u \in Universe : shares'[u] >= 0
    BY <1>1 DEF RebalanceInv, Solvent, LongOnly
  <2>1. /\ weights[s] >= 0 /\ floor = 0 /\ cash >= 0
        /\ \A u \in Universe : shares[u] >= 0
    BY <1>1, <1>2 DEF RebalanceInv, Solvent
  <2>2. Bought(s) >= 0 /\ Bought(s) * trade[s] <= cash
    BY <1>3, <2>1
  <2>3. cash' >= 0
    BY <1>1, <1>4, <2>2
  <2>4. shares[s] + Bought(s) >= 0
    BY <1>3, <2>1, <2>2
  <2>. QED
    BY <1>5, <2>1, <2>3, <2>4
<1>8. NoneWanted'
  <2>1. \A u \in excluded : weights[u] = 0
    BY <1>2 DEF RebalanceInv, NoneWanted
  <2>2. ASSUME NEW i \in DOMAIN Order, Order[i] \in excluded
        PROVE  shares'[Order[i]] <= 0 /\ (i < next + 1 => shares'[Order[i]] = 0)
    <3>1. /\ shares[Order[i]] <= 0 /\ Order[i] \in Universe
          /\ i < next => shares[Order[i]] = 0
      BY <1>1, <2>2, UniverseIs DEF RebalanceInv, NoneWanted
    <3>2. CASE Order[i] = s
      BY <1>3, <1>5, <2>1, <2>2, <3>1, <3>2
    <3>3. CASE Order[i] # s
      <4>1. shares'[Order[i]] = shares[Order[i]] /\ i # next
        BY <1>0, <1>5, <3>1, <3>3
      <4>2. i \in Nat /\ next \in Nat
        BY <1>2, UniverseIs DEF RebalanceTypeOK
      <4>. QED
        BY <3>1, <4>1, <4>2
    <3>. QED
      BY <3>2, <3>3
  <2>. QED
    BY <1>1, <1>2, <2>1, <2>2 DEF NoneWanted
<1>. QED
  BY <1>1, <1>2, <1>6, <1>7, <1>8 DEF RebalanceInv, TargetThere

(* A target that is set.                                                   *)
LEMMA TargetSet ==
  ASSUME RebalanceInv, NEW t \in {None} \cup [Universe -> Int], Decides(t),
         excluded' \subseteq Universe,
         LongOnly /\ t # None => \A s \in Universe : t[s] >= 0,
         t # None => \A s \in excluded' : t[s] = 0,
         t = None => excluded' \subseteq excluded
  PROVE  RebalanceInv'
<1>1. /\ UNCHANGED <<plan, close, trade, cash, shares, floor, next>>
      /\ phase = "decide" /\ weights' = t
      /\ phase' \in {"sell", "night"} /\ (phase' = "sell" => t # None)
  BY DEF Decides
<1>2. RebalanceTypeOK'
  BY <1>1 DEF RebalanceInv, RebalanceTypeOK
<1>3. Solvent'
  BY <1>1 DEF RebalanceInv, Solvent, LongOnly
<1>4. NoneWanted'
  BY <1>1 DEF RebalanceInv, TargetThere, NoneWanted
<1>. QED
  BY <1>1, <1>2, <1>3, <1>4 DEF RebalanceInv, TargetThere

(* Decided for longs without leverage, a margin call has no cause.         *)
LEMMA CallForMargin == RebalanceInv /\ MarginCall => RebalanceInv'
<1> SUFFICES ASSUME RebalanceInv, MarginCall PROVE RebalanceInv'
  OBVIOUS
<1> DEFINE worth == Max({0, Worth(close)})
           most == Min({Gross, worth * plan.leverage})
           kept(n) == (n * most) \div Gross
           t == [s \in Universe |-> IF shares[s] >= 0 THEN kept(shares[s])
                                    ELSE -kept(-shares[s])]
<1>1. CallDue /\ Decides(t) /\ excluded' = excluded /\ phase = "decide"
  BY DEF MarginCall, Decides
<1>2. RebalanceTypeOK
  BY DEF RebalanceInv
<1>3. /\ Worth(close) \in Int /\ Gross \in Nat /\ Gross > 0
      /\ (\A s \in Universe : shares[s] >= 0) => Worth(close) = cash + Gross
  BY <1>1, <1>2, WorthIs DEF CallDue
<1>4. ~LongOnly
  <2> SUFFICES ASSUME LongOnly PROVE FALSE
    OBVIOUS
  <2>1. cash >= 0 /\ \A s \in Universe : shares[s] >= 0
    BY DEF RebalanceInv, Solvent
  <2>2. Worth(close) = cash + Gross /\ 4 * Worth(close) < Gross
    BY <1>1, <1>3, <2>1 DEF CallDue
  <2>. QED
    BY <1>2, <1>3, <2>1, <2>2 DEF RebalanceTypeOK
<1>5. most \in Int
  <2>1. worth \in Int
    <3>1. worth \in {0, Worth(close)}
      BY <1>3, 0 \in Int, MaxOfTwo
    <3>. QED
      BY <1>3, <3>1
  <2>2. worth * plan.leverage \in Int
    <3>1. plan.leverage \in {1, 2}
      BY <1>2 DEF RebalanceTypeOK
    <3> HIDE DEF worth
    <3>2. CASE plan.leverage = 1
      BY <2>1, <3>2
    <3>3. CASE plan.leverage = 2
      BY <2>1, <3>3
    <3>. QED
      BY <3>1, <3>2, <3>3
  <2> DEFINE x == worth * plan.leverage
  <2> HIDE DEF worth
  <2>3. x \in Int /\ Gross \in Int
    BY <1>3, <2>2
  <2> HIDE DEF x
  <2>4. Min({Gross, x}) \in {Gross, x}
    BY <2>3, MaxOfTwo
  <2>. QED
    BY <2>3, <2>4 DEF x
<1>6. t \in [Universe -> Int] /\ \A s \in Universe : shares[s] = 0 => t[s] = 0
  <2> HIDE DEF most
  <2>1. \A n \in Int : kept(n) \in Int
    BY <1>3, <1>5
  <2>2. kept(0) = 0
    BY <1>3, <1>5
  <2>3. \A s \in Universe : shares[s] \in Int
    BY <1>2 DEF RebalanceTypeOK
  <2> HIDE DEF kept
  <2>. QED
    BY <2>1, <2>2, <2>3
<1>7. \A s \in excluded : s \in Universe /\ shares[s] = 0
  BY <1>1, <1>2 DEF RebalanceInv, TargetThere, NoneWanted, RebalanceTypeOK
<1>8. excluded' \subseteq Universe /\ excluded' \subseteq excluded
  BY <1>1, <1>2 DEF RebalanceTypeOK
<1>9. \A s \in excluded' : t[s] = 0
  BY <1>1, <1>6, <1>7
<1> HIDE DEF t
<1>. QED
  BY <1>1, <1>4, <1>6, <1>8, <1>9, TargetSet

(* The share of a symbol that is selected: without shorts it is not        *)
(* negative.                                                               *)
LEMMA WeighedIs ==
  ASSUME RebalanceTypeOK, NEW sel \in Selections, NEW s \in Universe
  PROVE  /\ Weighed(sel, s) \in Int
         /\ plan.direction = "long" => Weighed(sel, s) >= 0
<1> DEFINE sides == IF sel.longs # {} /\ sel.shorts # {} THEN 2 ELSE 1
           worth == Max({0, Worth(close)})
           each(side) == (worth * plan.leverage)
                           \div (sides * Cardinality(side) * close[s])
<1>1. Weighed(sel, s) = IF s \in sel.shorts THEN -each(sel.shorts)
                        ELSE IF s \in sel.longs THEN each(sel.longs) ELSE 0
  BY DEF Weighed
<1>2. /\ sel.longs \subseteq Universe /\ sel.shorts \subseteq Universe
      /\ plan.direction = "long" => sel.shorts = {}
  BY DEF Selections
<1>3. worth * plan.leverage \in Nat
  <2>1. Worth(close) \in Int
    BY WorthIs
  <2>2. worth \in {0, Worth(close)} /\ worth >= 0
    BY <2>1, 0 \in Int, MaxOfTwo
  <2>3. plan.leverage \in {1, 2}
    BY DEF RebalanceTypeOK
  <2>4. worth \in Nat
    BY <2>1, <2>2
  <2> HIDE DEF worth
  <2>5. CASE plan.leverage = 1
    BY <2>4, <2>5
  <2>6. CASE plan.leverage = 2
    BY <2>4, <2>6
  <2>. QED
    BY <2>3, <2>5, <2>6
<1>4. ASSUME NEW side, side \subseteq Universe, s \in side
      PROVE  each(side) \in Nat
  <2>1. Cardinality(side) \in Nat /\ Cardinality(side) > 0
    <3>1. IsFiniteSet(side) /\ side # {}
      BY <1>4, UniverseIs, FS_Subset
    <3>2. Cardinality(side) \in Nat /\ Cardinality(side) # 0
      BY <3>1, FS_CardinalityType, FS_EmptySet
    <3>. QED
      BY <3>2
  <2>2. close[s] \in Nat /\ close[s] > 0
    BY PricesAre DEF RebalanceTypeOK
  <2>3. sides \in {1, 2}
    OBVIOUS
  <2> DEFINE n == Cardinality(side)
             p == close[s]
             d == sides * n * p
             w == worth * plan.leverage
  <2> HIDE DEF worth
  <2>4. w \in Nat
    BY <1>3
  <2>5. d \in Nat /\ d > 0
    <3>1. n \in Nat /\ n > 0 /\ p \in Nat /\ p > 0
      BY <2>1, <2>2
    <3> HIDE DEF n, p, sides
    <3>2. \A i, j \in Nat : i > 0 /\ j > 0 => i * j \in Nat /\ i * j > 0
      OBVIOUS
    <3>3. sides * n \in Nat /\ sides * n > 0
      BY <2>3, <3>1, <3>2
    <3>. QED
      BY <3>1, <3>2, <3>3
  <2> HIDE DEF w, d
  <2>6. w \div d \in Nat
    BY <2>4, <2>5, Divided
  <2>. QED
    BY <2>6 DEF w, d, n, p
<1> HIDE DEF each
<1>5. s \in sel.shorts => each(sel.shorts) \in Nat
  BY <1>2, <1>4
<1>6. s \in sel.longs => each(sel.longs) \in Nat
  BY <1>2, <1>4
<1>. QED
  BY <1>1, <1>2, <1>5, <1>6

(* A rebalance.                                                            *)
LEMMA TargetOfRebalance == RebalanceInv /\ Rebalances => RebalanceInv'
<1> SUFFICES ASSUME RebalanceInv, Rebalances PROVE RebalanceInv'
  OBVIOUS
<1>1. PICK sel \in Selections : Decides([s \in Universe |-> Weighed(sel, s)])
  BY DEF Rebalances
<1>2. RebalanceTypeOK /\ excluded' = {}
  BY DEF RebalanceInv, Rebalances
<1> DEFINE t == [s \in Universe |-> Weighed(sel, s)]
<1>3. /\ t \in [Universe -> Int]
      /\ LongOnly => \A s \in Universe : t[s] >= 0
  BY <1>2, WeighedIs DEF LongOnly
<1>4. Decides(t)
  BY <1>1
<1> HIDE DEF t
<1>. QED
  BY <1>2, <1>3, <1>4, TargetSet

(* The exits of a day, and what takes their places.                        *)
LEMMA TargetOfExits == RebalanceInv /\ Exits => RebalanceInv'
<1> SUFFICES ASSUME RebalanceInv, Exits PROVE RebalanceInv'
  OBVIOUS
<1>1. PICK exits \in (SUBSET Holding) \ {{}}, by \in [Universe -> Universe] :
        LET freed == {s \in exits : shares[s] > 0}
            filled == IF plan.refill
                      THEN {s \in freed : by[s] \in Eligible(exits)} ELSE {}
        IN /\ Decides([u \in Universe |->
                IF \E s \in filled : by[s] = u
                THEN LET s == CHOOSE v \in filled : by[v] = u
                     IN (shares[s] * close[s]) \div close[u]
                ELSE IF u \in exits THEN 0 ELSE shares[u]])
           /\ excluded' = excluded \cup exits
  BY DEF Exits
<1> DEFINE freed == {s \in exits : shares[s] > 0}
           filled == IF plan.refill
                     THEN {s \in freed : by[s] \in Eligible(exits)} ELSE {}
           for(u) == CHOOSE v \in filled : by[v] = u
           t == [u \in Universe |->
                   IF \E s \in filled : by[s] = u
                   THEN (shares[for(u)] * close[for(u)]) \div close[u]
                   ELSE IF u \in exits THEN 0 ELSE shares[u]]
<1>2. Decides(t) /\ excluded' = excluded \cup exits
  BY <1>1
<1>3. /\ RebalanceTypeOK /\ exits \subseteq Universe /\ exits # {}
      /\ phase = "decide" /\ weights = None
  <2>1. exits \subseteq Universe /\ exits # {}
    BY <1>1 DEF Holding
  <2> HIDE DEF t
  <2>2. phase = "decide"
    BY <1>2 DEF Decides
  <2>. QED
    BY <2>1, <2>2 DEF RebalanceInv, TargetThere
<1>4. ASSUME NEW u \in Universe, \E s \in filled : by[s] = u
      PROVE  /\ t[u] \in Nat /\ u \notin excluded \cup exits
  <2>1. for(u) \in filled /\ by[for(u)] = u
    BY <1>4
  <2>2. for(u) \in exits /\ shares[for(u)] > 0 /\ u \in Eligible(exits)
    BY <2>1
  <2> DEFINE n == shares[for(u)]
             p == close[for(u)]
             q == close[u]
  <2>3. /\ n \in Nat /\ p \in Nat /\ q \in Nat /\ q > 0
    <3>1. for(u) \in Universe
      BY <1>3, <2>2
    <3>2. shares[for(u)] \in Int /\ close[for(u)] \in Prices /\ close[u] \in Prices
      BY <1>3, <3>1 DEF RebalanceTypeOK
    <3>. QED
      BY <2>2, <3>2, PricesAre
  <2>4. t[u] = (n * p) \div q
    BY <1>4
  <2> HIDE DEF n, p, q, t, for
  <2>5. n * p \in Nat
    BY <2>3
  <2> DEFINE m == n * p
  <2>6. m \in Nat
    BY <2>5
  <2> HIDE DEF m
  <2>7. m \div q \in Nat
    BY <2>3, <2>6, Divided
  <2>. QED
    BY <2>2, <2>4, <2>7 DEF m, Eligible
<1>5. ASSUME NEW u \in Universe, ~\E s \in filled : by[s] = u
      PROVE  t[u] = IF u \in exits THEN 0 ELSE shares[u]
  BY <1>5
<1>6. t \in [Universe -> Int]
  <2>1. \A u \in Universe : t[u] \in Int
    BY <1>3, <1>4, <1>5 DEF RebalanceTypeOK
  <2>. QED
    BY <2>1
<1>7. t # None
  <2>1. DOMAIN t # {}
    BY <1>3
  <2>2. DOMAIN None = {}
    BY DEF None
  <2>. QED
    BY <2>1, <2>2
<1>8. LongOnly => \A s \in Universe : t[s] >= 0
  <2> SUFFICES ASSUME LongOnly, NEW s \in Universe PROVE t[s] >= 0
    OBVIOUS
  <2>1. shares[s] >= 0
    BY DEF RebalanceInv, Solvent
  <2> HIDE DEF t
  <2>. QED
    BY <1>4, <1>5, <2>1
<1>9. \A s \in excluded' : t[s] = 0
  <2> SUFFICES ASSUME NEW s \in excluded \cup exits PROVE t[s] = 0
    BY <1>2
  <2>1. s \in Universe /\ (s \in exits \/ shares[s] = 0)
    BY <1>3 DEF RebalanceInv, NoneWanted, RebalanceTypeOK
  <2> HIDE DEF t
  <2>. QED
    BY <1>4, <1>5, <2>1
<1>10. excluded' \subseteq Universe
  BY <1>2, <1>3 DEF RebalanceTypeOK
<1> HIDE DEF t
<1>. QED
  BY <1>2, <1>6, <1>7, <1>8, <1>9, <1>10, TargetSet

(* Every step of the rebalanced strategy keeps the invariant.              *)
LEMMA RebalanceSteps == RebalanceInv /\ [RebalanceNext]_rebalanceVars => RebalanceInv'
<1> SUFFICES ASSUME RebalanceInv, [RebalanceNext]_rebalanceVars PROVE RebalanceInv'
  OBVIOUS
<1>1. CASE NewDay
  <2>1. /\ UNCHANGED <<plan, cash, shares, weights, floor, next, excluded>>
        /\ close' \in [Universe -> Prices] /\ trade' \in [Universe -> Prices]
        /\ phase' = IF weights # None THEN "sell" ELSE "decide"
    BY <1>1 DEF NewDay
  <2>2. RebalanceTypeOK'
    BY <2>1 DEF RebalanceInv, RebalanceTypeOK
  <2>3. Solvent'
    BY <2>1 DEF RebalanceInv, Solvent, LongOnly
  <2>4. TargetThere' /\ NoneWanted'
    BY <2>1 DEF RebalanceInv, TargetThere, NoneWanted
  <2>. QED
    BY <2>2, <2>3, <2>4 DEF RebalanceInv
<1>2. CASE Sells
  BY <1>2, TargetSales
<1>3. CASE Buys
  BY <1>3, TargetPurchase
<1>4. CASE Executed
  <2>1. /\ UNCHANGED <<plan, close, trade, cash, shares, floor, next, excluded>>
        /\ phase = "buy" /\ next > Len(Order) /\ weights' = None
        /\ phase' \in {"decide", "night"}
    BY <1>4 DEF Executed
  <2>2. RebalanceTypeOK'
    BY <2>1 DEF RebalanceInv, RebalanceTypeOK
  <2>3. \A s \in excluded : shares[s] = 0
    <3> SUFFICES ASSUME NEW s \in excluded PROVE shares[s] = 0
      OBVIOUS
    <3>1. PICK i \in DOMAIN Order : Order[i] = s
      BY UniverseIs DEF RebalanceInv, RebalanceTypeOK
    <3>2. i < next
      BY <2>1, UniverseIs DEF RebalanceInv, RebalanceTypeOK
    <3>. QED
      BY <2>1, <3>1, <3>2 DEF RebalanceInv, NoneWanted
  <2>4. Solvent'
    BY <2>1 DEF RebalanceInv, Solvent, LongOnly
  <2>5. TargetThere' /\ NoneWanted'
    BY <2>1, <2>3 DEF TargetThere, NoneWanted
  <2>. QED
    BY <2>2, <2>4, <2>5 DEF RebalanceInv
<1>5. CASE MarginCall
  BY <1>5, CallForMargin
<1>6. CASE Rebalances
  BY <1>6, TargetOfRebalance
<1>7. CASE Exits
  BY <1>7, TargetOfExits
<1>8. CASE Holds
  <2>1. Decides(None) /\ excluded' = excluded
    BY <1>8 DEF Holds
  <2>2. excluded \subseteq Universe
    BY DEF RebalanceInv, RebalanceTypeOK
  <2>. QED
    BY <2>1, <2>2, TargetSet
<1>9. CASE UNCHANGED rebalanceVars
  <2>1. UNCHANGED <<plan, phase, close, trade, cash, shares, weights, floor,
                    next, excluded>>
    BY <1>9 DEF rebalanceVars
  <2>. QED
    BY <2>1 DEF RebalanceInv, RebalanceTypeOK, Solvent, LongOnly, TargetThere,
                NoneWanted
<1>. QED
  BY <1>1, <1>2, <1>3, <1>4, <1>5, <1>6, <1>7, <1>8, <1>9 DEF RebalanceNext

(* In every state of the rebalanced strategy its invariant holds.          *)
LEMMA RebalanceHolds == RebalanceSpec => []RebalanceInv
BY RebalanceStarts, RebalanceSteps, PTL DEF RebalanceSpec

(* A strategy without leverage and shorts never spends more than it has:   *)
(* whatever is decided at one price and bought at another, the purchases   *)
(* of ir_engine/backtest.py stop at the cash that is there.                *)
THEOREM LongRunsNeverBorrow == RebalanceSpec => []NeverBorrows
<1>1. RebalanceInv => NeverBorrows
  BY DEF RebalanceInv, Solvent, LongOnly, NeverBorrows
<1>. QED
  BY <1>1, RebalanceHolds, PTL

(* A symbol that was exited is neither held nor wanted again before the    *)
(* next rebalance: neither a refill nor a margin call brings it back.      *)
THEOREM ExitsStayOut == RebalanceSpec => []ExitedStaysOut
<1>1. RebalanceInv => ExitedStaysOut
  BY DEF RebalanceInv, NoneWanted, ExitedStaysOut
<1>. QED
  BY <1>1, RebalanceHolds, PTL

---------------------------------------------------------------------------
(* Account: what the settlement deducts.                                   *)

AccountTyped ==
  /\ held \in [Tickers -> Nat] /\ sold \in [Tickers -> Nat]
  /\ deducted \in [Tickers -> Int] /\ checked \in [Tickers -> Int]
  /\ ledger \in [Entries -> [symbol : Tickers, qty : Nat]]
  /\ settle \in [pc : {"rest", "domestic", "read"}, seen : [Tickers -> Int]]

(* The symbols that the settlement has read so far.                        *)
ReadAlready == IF settle.pc = "read" THEN Tickers
               ELSE IF settle.pc = "domestic" THEN Domestic ELSE {}

(* What the entries of a symbol have, or had before it was deducted.       *)
Kept(s) == Total(s) + deducted[s]

(* What was the entries' is at KIS, or was sold by hand; and so it is with *)
(* what was read, as sales by hand are never taken back.                   *)
AccountInv ==
  /\ AccountTyped
  /\ \A s \in ReadAlready : settle.seen[s] >= 0
  /\ \A s \in Tickers : Kept(s) <= held[s] + sold[s]
  /\ \A s \in ReadAlready \ unread : Kept(s) <= settle.seen[s] + sold[s]
  /\ \A s \in Tickers \ (unread \cup split) : deducted[s] <= sold[s]
  /\ checked # Unread => \A s \in Tickers : Total(s) <= checked[s]

(* The entries of a symbol are finitely many, and their shares a number.   *)
LEMMA HoldersAre ==
  ASSUME AccountTyped, NEW s \in Tickers
  PROVE  /\ IsFiniteSet(Holders(s)) /\ Holders(s) \subseteq Entries
         /\ \A i \in Holders(s) : ledger[i].qty \in Nat \ {0} /\ ledger[i].symbol = s
         /\ Total(s) = SumFunctionOnSet([i \in Holders(s) |-> ledger[i].qty], Holders(s))
         /\ Total(s) \in Nat
<1>1. IsFiniteSet(Entries)
  <2>1. NumEntries \in Int /\ 1 \in Int
    BY AccountAssumption
  <2>. QED
    BY <2>1, FS_Interval DEF Entries
<1>2. /\ IsFiniteSet(Holders(s)) /\ Holders(s) \subseteq Entries
      /\ \A i \in Holders(s) : ledger[i].qty \in Nat \ {0} /\ ledger[i].symbol = s
  <2>1. Holders(s) \subseteq Entries
    BY DEF Holders
  <2>2. IsFiniteSet(Holders(s))
    BY <1>1, <2>1, FS_Subset
  <2>3. \A i \in Entries : ledger[i].qty \in Nat
    BY DEF AccountTyped
  <2>. QED
    BY <2>1, <2>2, <2>3 DEF Holders
<1> DEFINE H == Holders(s)
           f == [i \in H |-> ledger[i].qty]
<1>3. Total(s) = SumFunctionOnSet(f, H)
  BY DEF Total, SumFunction
<1>4. \A i \in H : f[i] \in Nat
  BY <1>2
<1>5. SumFunctionOnSet(f, H) \in Nat
  <2> HIDE DEF f
  <2>. QED
    BY <1>2, <1>4, SumIsNat
<1>. QED
  BY <1>2, <1>3, <1>5

(* The entry that the rest is planned for is one of those of the symbol.   *)
LEMMA SmallestHolds ==
  ASSUME AccountTyped, NEW s \in Tickers, Holders(s) # {}
  PROVE  Smallest(s) \in Holders(s)
<1> DEFINE H == Holders(s)
           Below(i) == {j \in H : \/ ledger[j].qty < ledger[i].qty
                                  \/ ledger[j].qty = ledger[i].qty /\ j >= i}
           All == {Below(i) : i \in H}
<1>1. IsFiniteSet(H) /\ \A i \in H : i \in Int /\ ledger[i].qty \in Nat
  <2>1. /\ IsFiniteSet(Holders(s)) /\ Holders(s) \subseteq Entries
        /\ \A i \in Holders(s) : ledger[i].qty \in Nat \ {0}
    BY HoldersAre
  <2>2. Entries \subseteq Int
    BY AccountAssumption DEF Entries
  <2>. QED
    BY <2>1, <2>2
<1>2. PICK T : IsSmallest(T, All)
  <2>1. All \in SUBSET SUBSET H /\ All # {}
    OBVIOUS
  <2> HIDE DEF All, H
  <2>. QED
    BY <1>1, <2>1, SmallestSubset
<1>3. PICK i \in H : T = Below(i)
  BY <1>2 DEF IsSmallest
<1>4. ASSUME NEW j \in H
      PROVE  \/ ledger[i].qty < ledger[j].qty
             \/ ledger[i].qty = ledger[j].qty /\ i >= j
  <2> SUFFICES ASSUME ~ \/ ledger[i].qty < ledger[j].qty
                        \/ ledger[i].qty = ledger[j].qty /\ i >= j
               PROVE  FALSE
    OBVIOUS
  <2>1. /\ i \in Int /\ j \in Int /\ ledger[i].qty \in Nat /\ ledger[j].qty \in Nat
    BY <1>1
  <2>2. ledger[j].qty < ledger[i].qty \/ (ledger[j].qty = ledger[i].qty /\ j > i)
    BY <2>1
  <2>3. ASSUME NEW k \in Below(j)
        PROVE  k \in Below(i)
    <3>1. k \in H /\ (\/ ledger[k].qty < ledger[j].qty
                      \/ ledger[k].qty = ledger[j].qty /\ k >= j)
      OBVIOUS
    <3>2. k \in Int /\ ledger[k].qty \in Nat
      BY <1>1, <3>1
    <3> HIDE DEF H
    <3>3. \/ ledger[k].qty < ledger[i].qty
          \/ ledger[k].qty = ledger[i].qty /\ k >= i
      BY <2>1, <2>2, <3>1, <3>2
    <3>. QED
      BY <3>1, <3>3
  <2>4. i \in Below(i) /\ i \notin Below(j)
    BY <2>1, <2>2
  <2>5. Below(j) \in All
    OBVIOUS
  <2> HIDE DEF Below, All
  <2>. QED
    BY <1>2, <1>3, <2>3, <2>4, <2>5 DEF IsSmallest
<1>. QED
  BY <1>4 DEF Smallest

(* The plan for a symbol of which KIS has fewer shares than the ledger is  *)
(* for all of them; with two entries none is planned more than it has.     *)
LEMMA PlanFits ==
  ASSUME AccountTyped, NEW s \in Tickers, NEW t \in Nat, t < Total(s)
  PROVE  /\ \A i \in Holders(s) : /\ LeftTo(i, t) \in Nat
                                  /\ LeftTo(i, t) <= ledger[i].qty
         /\ SumFunctionOnSet([i \in Holders(s) |-> LeftTo(i, t)], Holders(s)) <= t
         /\ Cardinality(Holders(s)) <= 2 =>
              SumFunctionOnSet([i \in Holders(s) |-> LeftTo(i, t)], Holders(s)) = t
<1> DEFINE H == Holders(s)
           n == Total(s)
           m == Smallest(s)
           O == H \ {m}
           f == [i \in H |-> ledger[i].qty]
           g == [i \in H |-> ShareOf(i, t)]
           p == [i \in H |-> Planned(i, t)]
           l == [i \in H |-> LeftTo(i, t)]
           others == SumFunctionOnSet(g, O)
<1>1. /\ IsFiniteSet(H) /\ n \in Nat /\ n > 0 /\ n = SumFunctionOnSet(f, H)
      /\ \A i \in H : f[i] = ledger[i].qty /\ f[i] \in Nat /\ ledger[i].symbol = s
  BY HoldersAre
<1>2. H # {}
  <2> HIDE DEF f, n, H
  <2>. QED
    BY <1>1, SumOfNone
<1>3. m \in H /\ IsFiniteSet(O) /\ O \subseteq H
  BY <1>1, <1>2, SmallestHolds, FS_Subset
<1>4. \A i \in H : g[i] = (f[i] * t) \div n
  BY <1>1 DEF ShareOf
<1>5. \A i \in H : g[i] \in Nat /\ g[i] * n <= f[i] * t /\ f[i] * t < g[i] * n + n
  <2>1. ASSUME NEW i \in H
        PROVE  g[i] \in Nat /\ g[i] * n <= f[i] * t /\ f[i] * t < g[i] * n + n
    <3>1. f[i] * t \in Nat /\ g[i] = (f[i] * t) \div n
      BY <1>1, <1>4
    <3> HIDE DEF f, g, n
    <3>. QED
      BY <1>1, <3>1, DivIs
  <2>. QED
    BY <2>1
<1>6. \A i \in H : Planned(i, t) = IF i = m THEN IF t > others THEN t - others ELSE 0
                                            ELSE g[i]
  <2>1. SumFunction([j \in O |-> ShareOf(j, t)]) = others
    <3> DEFINE go == [j \in O |-> ShareOf(j, t)]
    <3>1. SumFunction(go) = SumFunctionOnSet(go, O)
      BY DEF SumFunction
    <3>2. \A j \in O : go[j] = g[j]
      BY <1>3
    <3> HIDE DEF go, g, O
    <3>3. SumFunctionOnSet(go, O) = SumFunctionOnSet(g, O)
      BY <1>3, <3>2, SumOfSame
    <3>. QED
      BY <3>1, <3>3 DEF go
  <2>. QED
    BY <1>1, <2>1 DEF Planned
<1>7. others \in Nat /\ others <= t /\ n = f[m] + SumFunctionOnSet(f, O)
  <2> HIDE DEF H, O, f, g, n, m
  <2>1. others \in Nat /\ SumFunctionOnSet(f, O) \in Nat
    BY <1>1, <1>3, <1>5, SumIsNat
  <2>2. others * n <= SumFunctionOnSet(f, O) * t
    BY <1>1, <1>3, <1>4, SharesOfSum
  <2>3. n = f[m] + SumFunctionOnSet(f, O)
    BY <1>1, <1>3, SumWith DEF O
  <2>4. SumFunctionOnSet(f, O) * t <= n * t
    <3>1. n * t = f[m] * t + SumFunctionOnSet(f, O) * t
      BY <1>1, <1>3, <2>1, <2>3
    <3>2. f[m] * t \in Nat
      BY <1>1, <1>3
    <3>3. SumFunctionOnSet(f, O) * t \in Nat
      BY <2>1
    <3>. QED
      BY <3>1, <3>2, <3>3
  <2>5. others * n < (t + 1) * n
    <3>1. (t + 1) * n = n * t + n
      BY <1>1
    <3>2. others * n \in Nat /\ n * t \in Nat /\ SumFunctionOnSet(f, O) * t \in Nat
      BY <1>1, <2>1
    <3>. QED
      BY <1>1, <2>2, <2>4, <3>1, <3>2
  <2>6. others < t + 1
    BY <1>1, <2>1, <2>5, TimesLess
  <2>. QED
    BY <2>1, <2>3, <2>6
<1>8. /\ \A i \in H : p[i] = IF i = m THEN t - others ELSE g[i]
      /\ \A i \in H : p[i] \in Nat
  <2>1. \A i \in H : p[i] = Planned(i, t)
    OBVIOUS
  <2> HIDE DEF p, g, others, H, m
  <2>2. \A i \in H : p[i] = IF i = m THEN t - others ELSE g[i]
    BY <1>6, <1>7, <2>1
  <2>. QED
    BY <1>5, <1>7, <2>2
<1>9. SumFunctionOnSet(p, H) = t
  <2>1. \A i \in O : p[i] = g[i]
    BY <1>3, <1>8
  <2>2. p[m] = t - others
    BY <1>3, <1>8
  <2> HIDE DEF p, g, f, n, H
  <2>3. SumFunctionOnSet(p, O) = others
    BY <1>3, <2>1, SumOfSame
  <2>4. SumFunctionOnSet(p, H) = p[m] + SumFunctionOnSet(p, O)
    BY <1>1, <1>3, <1>8, SumWith
  <2> HIDE DEF others, O, m
  <2>. QED
    BY <1>7, <2>2, <2>3, <2>4
<1>10. \A i \in H : /\ l[i] = LeftTo(i, t) /\ l[i] \in Nat /\ l[i] <= p[i] /\ l[i] <= f[i]
                    /\ p[i] <= f[i] => l[i] = p[i]
  <2>1. \A i \in H : l[i] = IF p[i] < f[i] THEN p[i] ELSE f[i]
    BY <1>1 DEF LeftTo
  <2>2. \A i \in H : l[i] = LeftTo(i, t)
    OBVIOUS
  <2> HIDE DEF l, p, f, H
  <2>. QED
    BY <1>1, <1>8, <2>1, <2>2
<1>11. SumFunctionOnSet(l, H) <= t
  <2> HIDE DEF l, p, f, g, n, m, O, others, H
  <2>1. SumFunctionOnSet(l, H) <= SumFunctionOnSet(p, H)
    BY <1>1, <1>8, <1>10, SumAtMost
  <2>. QED
    BY <1>9, <2>1
<1>12. ASSUME Cardinality(H) <= 2 PROVE SumFunctionOnSet(l, H) = t
  <2>1. ASSUME NEW i \in O PROVE p[i] <= f[i]
    <3>1. i \in H /\ p[i] = g[i]
      BY <1>3, <1>8
    <3> HIDE DEF p, f, g, n, H, m, O
    <3>2. PICK a \in Nat, b \in Nat : a = g[i] /\ b = f[i]
      BY <1>1, <1>5, <3>1
    <3>3. a * n <= b * t
      BY <1>5, <3>1, <3>2
    <3>4. b * t <= b * n
      <4>1. PICK d \in Nat : n = t + d
        <5>1. n - t \in Nat /\ n = t + (n - t)
          BY <1>1 DEF n
        <5>. QED
          BY <5>1
      <4>2. b * n = b * t + b * d /\ b * d >= 0
        BY <4>1
      <4>. QED
        BY <4>2
    <3>5. a * n < (b + 1) * n
      <4>1. (b + 1) * n = b * n + n
        BY <1>1
      <4>2. a * n \in Int /\ b * t \in Int /\ b * n \in Int
        BY <1>1
      <4>. QED
        BY <1>1, <3>3, <3>4, <4>1, <4>2
    <3>6. a < b + 1
      BY <1>1, <3>5, TimesLess
    <3>. QED
      BY <3>1, <3>2, <3>6
  <2>2. p[m] <= f[m]
    <3>1. p[m] = t - others
      BY <1>3, <1>8
    <3>2. CASE O = {}
      <4>1. others = 0 /\ SumFunctionOnSet(f, O) = 0
        <5> HIDE DEF f, g, O
        <5>. QED
          BY <3>2, SumOfNone
      <4> HIDE DEF f, g, O, p, others, m
      <4>. QED
        BY <1>1, <1>3, <1>7, <3>1, <4>1 DEF n
    <3>3. CASE O # {}
      <4>1. PICK j \in O : TRUE
        BY <3>3
      <4>2. O = {j}
        <5> HIDE DEF H, m
        <5>1. Cardinality(O) = Cardinality(H) - 1 /\ Cardinality(H) \in Nat
          BY <1>1, <1>3, FS_RemoveElement, FS_CardinalityType
        <5>2. IsFiniteSet(O \ {j}) /\ Cardinality(O \ {j}) = Cardinality(O) - 1
          <6> HIDE DEF O
          <6>. QED
            BY <1>3, <4>1, FS_RemoveElement
        <5>3. Cardinality(O \ {j}) \in Nat /\ Cardinality(O \ {j}) <= 0
          <6> HIDE DEF O
          <6>. QED
            BY <1>12, <5>1, <5>2, FS_CardinalityType
        <5>4. O \ {j} = {}
          <6> HIDE DEF O
          <6>1. Cardinality(O \ {j}) = 0
            BY <5>3
          <6>. QED
            BY <5>2, <6>1, FS_EmptySet
        <5>. QED
          BY <4>1, <5>4
      <4>3. j \in H /\ m \in H
        BY <1>3, <4>1
      <4>4. others = g[j] /\ SumFunctionOnSet(f, O) = f[j]
        <5>1. O \ {j} = {} /\ \A i \in O : g[i] \in Int /\ f[i] \in Int
          BY <1>1, <1>3, <1>5, <4>2
        <5> HIDE DEF f, g, O
        <5>2. /\ SumFunctionOnSet(g, O) = g[j] + SumFunctionOnSet(g, O \ {j})
              /\ SumFunctionOnSet(f, O) = f[j] + SumFunctionOnSet(f, O \ {j})
          BY <1>3, <4>1, <5>1, SumWith
        <5>3. SumFunctionOnSet(g, {}) = 0 /\ SumFunctionOnSet(f, {}) = 0
          BY SumOfNone
        <5>4. g[j] \in Int /\ f[j] \in Int
          BY <4>1, <5>1
        <5>5. SumFunctionOnSet(g, O) = g[j] /\ SumFunctionOnSet(f, O) = f[j]
          BY <5>1, <5>2, <5>3, <5>4
        <5>. QED
          BY <5>5
      <4> HIDE DEF f, g, O, p, others, m, n, H
      <4>5. PICK a \in Nat, b \in Nat, q \in Nat : a = f[m] /\ b = f[j] /\ q = g[j]
        BY <1>1, <1>5, <4>3
      <4>6. n = a + b /\ b * t < q * n + n /\ t \in Nat /\ n \in Nat /\ n > 0 /\ t < n
        BY <1>1, <1>5, <1>7, <4>3, <4>4, <4>5 DEF n
      <4>7. (t - q) * n < (a + 1) * n
        <5>1. (t - q) * n = t * n - q * n /\ (a + 1) * n = a * n + n
          BY <4>6
        <5>2. t * n = a * t + b * t
          BY <4>6
        <5>3. a * t <= a * n
          <6>1. PICK d \in Nat : n = t + d
            <7>1. n - t \in Nat /\ n = t + (n - t)
              BY <4>6
            <7>. QED
              BY <7>1
          <6>2. a * n = a * t + a * d /\ a * d >= 0
            BY <6>1
          <6>. QED
            BY <6>2
        <5>4. /\ t * n \in Int /\ q * n \in Int /\ a * n \in Int /\ a * t \in Int
              /\ b * t \in Int
          BY <4>6
        <5>. QED
          BY <4>6, <5>1, <5>2, <5>3, <5>4
      <4>8. t - q < a + 1
        BY <4>6, <4>7, TimesLess
      <4>. QED
        BY <3>1, <4>4, <4>5, <4>8
    <3>. QED
      BY <3>2, <3>3
  <2>3. \A i \in H : l[i] = p[i]
    BY <1>3, <1>10, <2>1, <2>2
  <2> HIDE DEF l, p, f, g, n, m, O, others, H
  <2>4. SumFunctionOnSet(l, H) = SumFunctionOnSet(p, H)
    BY <1>1, <2>3, SumOfSame
  <2>. QED
    BY <1>9, <2>4
<1>13. \A i \in H : LeftTo(i, t) \in Nat /\ LeftTo(i, t) <= ledger[i].qty
  BY <1>1, <1>10
<1>. QED
  BY <1>11, <1>12, <1>13

(* What a comparison leaves to the entries.                                *)
LEMMA LedgerLeft ==
  ASSUME AccountTyped, Reconciles, \A u \in Tickers : settle.seen[u] >= 0
  PROVE  /\ ledger' \in [Entries -> [symbol : Tickers, qty : Nat]]
         /\ \A i \in Entries : /\ ledger'[i].symbol = ledger[i].symbol
                               /\ ledger'[i].qty <= ledger[i].qty
         /\ \A s \in Tickers : \A i \in Holders(s) :
              ledger'[i].qty = IF s \in Orphans THEN LeftTo(i, settle.seen[s])
                                                ELSE ledger[i].qty
<1>0. settle.seen \in [Tickers -> Int]
  BY DEF AccountTyped
<1>1. ASSUME NEW s \in Orphans, NEW i \in Holders(s)
      PROVE  LeftTo(i, settle.seen[s]) \in Nat /\ LeftTo(i, settle.seen[s]) <= ledger[i].qty
  <2>1. s \in Tickers /\ settle.seen[s] \in Nat /\ settle.seen[s] < Total(s)
    BY <1>0 DEF Orphans
  <2>. QED
    BY <2>1, PlanFits
<1>2. ASSUME NEW i \in Entries
      PROVE  /\ ledger'[i] \in [symbol : Tickers, qty : Nat]
             /\ ledger'[i].symbol = ledger[i].symbol /\ ledger'[i].qty <= ledger[i].qty
             /\ \A s \in Tickers : i \in Holders(s) =>
                  ledger'[i].qty = IF s \in Orphans THEN LeftTo(i, settle.seen[s])
                                                    ELSE ledger[i].qty
  <2> DEFINE u == ledger[i].symbol
  <2>1. ledger[i] \in [symbol : Tickers, qty : Nat]
    BY DEF AccountTyped
  <2>2. ledger'[i] = IF i \in Holders(u) /\ u \in Orphans
                     THEN [ledger[i] EXCEPT !.qty = LeftTo(i, settle.seen[u])]
                     ELSE ledger[i]
    BY DEF Reconciles
  <2>3. \A s \in Tickers : i \in Holders(s) => s = u
    BY DEF Holders
  <2>4. ledger[i].qty \in Nat /\ u \in Tickers
    BY <2>1
  <2>5. CASE i \in Holders(u) /\ u \in Orphans
    <3>1. LeftTo(i, settle.seen[u]) \in Nat /\ LeftTo(i, settle.seen[u]) <= ledger[i].qty
      <4> HIDE DEF u
      <4>. QED
        BY <1>1, <2>5
    <3>2. PICK k \in Nat : k = LeftTo(i, settle.seen[u])
      BY <3>1
    <3>3. ledger'[i] = [ledger[i] EXCEPT !.qty = k]
      BY <2>2, <2>5, <3>2
    <3>4. /\ ledger'[i] \in [symbol : Tickers, qty : Nat]
          /\ ledger'[i].symbol = u /\ ledger'[i].qty = k
      BY <2>1, <3>3
    <3> HIDE DEF u
    <3>5. ledger'[i].symbol = ledger[i].symbol
      BY <3>4 DEF u
    <3>. QED
      BY <2>3, <2>5, <3>1, <3>2, <3>4, <3>5
  <2>6. CASE ~(i \in Holders(u) /\ u \in Orphans)
    <3>1. ledger'[i] = ledger[i]
      BY <2>2, <2>6
    <3> HIDE DEF u
    <3>2. \A s \in Tickers : i \in Holders(s) => s \notin Orphans
      BY <2>3, <2>6
    <3>. QED
      BY <2>1, <2>4, <3>1, <3>2
  <2>. QED
    BY <2>5, <2>6
<1>3. DOMAIN ledger' = Entries /\ ledger' = [i \in Entries |-> ledger'[i]]
  BY DEF Reconciles
<1>4. \A s \in Tickers : Holders(s) \subseteq Entries
  BY DEF Holders
<1>. QED
  BY <1>2, <1>3, <1>4

(* A comparison deducts what it takes from the entries, and leaves no more *)
(* than was read; with two entries it leaves exactly that.                 *)
LEMMA Settled ==
  ASSUME AccountTyped, Reconciles, \A u \in Tickers : settle.seen[u] >= 0,
         NEW s \in Tickers
  PROVE  /\ Total(s) \in Nat /\ Total(s)' \in Nat
         /\ deducted'[s] = deducted[s] + (Total(s) - Total(s)')
         /\ s \notin Orphans => Total(s)' = Total(s)
         /\ s \in Orphans => Total(s)' <= settle.seen[s]
         /\ s \in Orphans /\ Cardinality(Holders(s)) <= 2 => Total(s)' = settle.seen[s]
<1> DEFINE H == Holders(s)
           P == Holders(s)'
           f == [i \in H |-> ledger[i].qty]
           q == [i \in H |-> ledger'[i].qty]
           d == [i \in H |-> ledger[i].qty - ledger'[i].qty]
           r == [i \in P |-> ledger'[i].qty]
<1>1. /\ IsFiniteSet(H) /\ H \subseteq Entries
      /\ \A i \in H : ledger[i].qty \in Nat /\ ledger[i].symbol = s
      /\ Total(s) = SumFunctionOnSet(f, H) /\ Total(s) \in Nat
  BY HoldersAre
<1>2. \A i \in Entries : /\ ledger'[i].qty \in Nat /\ ledger[i].qty \in Nat
                         /\ ledger'[i].symbol = ledger[i].symbol
                         /\ ledger'[i].qty <= ledger[i].qty
  <2>1. \A i \in Entries : ledger'[i].qty \in Nat
    BY LedgerLeft
  <2>2. \A i \in Entries : ledger[i].qty \in Nat
    BY DEF AccountTyped
  <2>. QED
    BY <2>1, <2>2, LedgerLeft
<1>3. P \subseteq H /\ \A i \in H : i \notin P => ledger'[i].qty = 0
  <2>1. /\ P = {i \in Entries : ledger'[i].symbol = s /\ ledger'[i].qty > 0}
        /\ H = {i \in Entries : ledger[i].symbol = s /\ ledger[i].qty > 0}
    BY DEF Holders, Entries
  <2> HIDE DEF P, H
  <2>2. ASSUME NEW i \in P PROVE i \in H
    <3>1. i \in Entries /\ ledger'[i].symbol = s /\ ledger'[i].qty > 0
      BY <2>1
    <3>. QED
      BY <1>2, <2>1, <3>1
  <2>3. ASSUME NEW i \in H, i \notin P PROVE ledger'[i].qty = 0
    <3>1. i \in Entries /\ ledger'[i].symbol = s /\ ~(ledger'[i].qty > 0)
      BY <1>1, <1>2, <2>1, <2>3
    <3>. QED
      BY <1>2, <3>1
  <2>. QED
    BY <2>2, <2>3
<1>4. \A i \in H : /\ f[i] \in Nat /\ q[i] \in Nat /\ d[i] = f[i] - q[i]
                   /\ f[i] = ledger[i].qty /\ q[i] = ledger'[i].qty
  BY <1>1, <1>2
<1>5. Total(s)' = SumFunctionOnSet(q, H)
  <2>1. Total(s)' = SumFunctionOnSet(r, P)
    BY DEF Total, SumFunction
  <2>2. \A i \in P : r[i] = q[i]
    BY <1>3
  <2>3. IsFiniteSet(P)
    <3> HIDE DEF P, H
    <3>. QED
      BY <1>1, <1>3, FS_Subset
  <2>4. \A i \in H : i \notin P => q[i] = 0
    BY <1>3
  <2>5. \A i \in H : q[i] \in Int
    BY <1>4
  <2>6. \A i \in P : r[i] \in Int /\ q[i] \in Int
    BY <1>3, <2>2, <2>5
  <2> HIDE DEF r, q, P, H
  <2>7. SumFunctionOnSet(r, P) = SumFunctionOnSet(q, P)
    BY <2>2, <2>3, <2>6, SumOfSame
  <2>8. SumFunctionOnSet(q, H) = SumFunctionOnSet(q, P)
    BY <1>1, <1>3, <2>4, <2>5, SumOnPart
  <2>. QED
    BY <2>1, <2>7, <2>8
<1>6. Total(s)' \in Nat
  <2> HIDE DEF q, H
  <2>1. SumFunctionOnSet(q, H) \in Nat
    BY <1>1, <1>4, SumIsNat
  <2>. QED
    BY <1>5, <2>1
<1>7. deducted'[s] = deducted[s] + (Total(s) - Total(s)')
  <2>1. deducted'[s] = deducted[s] + SumFunctionOnSet(d, H)
    BY DEF Reconciles, SumFunction
  <2>2. \A i \in H : f[i] \in Int /\ q[i] \in Int /\ d[i] = f[i] - q[i]
    BY <1>4
  <2> HIDE DEF d, f, q, H
  <2>3. SumFunctionOnSet(d, H) = SumFunctionOnSet(f, H) - SumFunctionOnSet(q, H)
    BY <1>1, <2>2, SumMinus
  <2>. QED
    BY <1>1, <1>5, <2>1, <2>3
<1>8. ASSUME s \notin Orphans PROVE Total(s)' = Total(s)
  <2>1. \A i \in H : q[i] = f[i]
    BY <1>4, <1>8, LedgerLeft
  <2> HIDE DEF q, f, H
  <2>2. SumFunctionOnSet(q, H) = SumFunctionOnSet(f, H)
    BY <1>1, <1>4, <2>1, SumOfSame
  <2>. QED
    BY <1>1, <1>5, <2>2
<1>9. ASSUME s \in Orphans
      PROVE  /\ Total(s)' <= settle.seen[s]
             /\ Cardinality(Holders(s)) <= 2 => Total(s)' = settle.seen[s]
  <2> DEFINE t == settle.seen[s]
             l == [i \in H |-> LeftTo(i, t)]
  <2>1. t \in Nat /\ t < Total(s)
    BY <1>9 DEF Orphans, AccountTyped
  <2>2. /\ \A i \in H : LeftTo(i, t) \in Nat
        /\ SumFunctionOnSet(l, H) <= t
        /\ Cardinality(H) <= 2 => SumFunctionOnSet(l, H) = t
    <3> HIDE DEF t
    <3>. QED
      BY <2>1, PlanFits
  <2>3. \A i \in H : ledger'[i].qty = LeftTo(i, t)
    BY <1>9, LedgerLeft
  <2>4. \A i \in H : q[i] = l[i] /\ q[i] \in Int /\ l[i] \in Int
    BY <1>4, <2>2, <2>3
  <2> HIDE DEF q, l, H
  <2>5. SumFunctionOnSet(q, H) = SumFunctionOnSet(l, H)
    BY <1>1, <2>4, SumOfSame
  <2>. QED
    BY <1>5, <2>2, <2>5 DEF H
<1>. QED
  BY <1>1, <1>6, <1>7, <1>8, <1>9

(* The invariant holds in the beginning, and every step keeps it.          *)
LEMMA AccountStarts == AccountInit => AccountInv
<1> SUFFICES ASSUME AccountInit PROVE AccountInv
  OBVIOUS
<1>1. ledger \in [Entries -> [symbol : Tickers, qty : Nat]]
  <2>1. 1..MaxQty \subseteq Nat
    BY AccountAssumption
  <2>2. ledger \in [Entries -> [symbol : Tickers, qty : 1..MaxQty]]
    BY DEF AccountInit
  <2>3. \A i \in Entries : ledger[i] \in [symbol : Tickers, qty : Nat]
    BY <2>1, <2>2
  <2>. QED
    BY <2>2, <2>3
<1>2. \A s \in Tickers : Total(s) \in Nat
  <2> SUFFICES ASSUME NEW s \in Tickers PROVE Total(s) \in Nat
    OBVIOUS
  <2>1. IsFiniteSet(Holders(s))
    <3>1. IsFiniteSet(Entries)
      <4>1. NumEntries \in Int /\ 1 \in Int
        BY AccountAssumption
      <4>. QED
        BY <4>1, FS_Interval DEF Entries
    <3>2. Holders(s) \subseteq Entries
      BY DEF Holders
    <3>. QED
      BY <3>1, <3>2, FS_Subset
  <2> DEFINE H == Holders(s)
             f == [i \in H |-> ledger[i].qty]
  <2>2. Total(s) = SumFunctionOnSet(f, H)
    BY DEF Total, SumFunction
  <2>3. \A i \in H : f[i] \in Nat
    BY <1>1 DEF Holders
  <2> HIDE DEF f
  <2>4. SumFunctionOnSet(f, H) \in Nat
    BY <2>1, <2>3, SumIsNat
  <2>. QED
    BY <2>2, <2>4
<1>3. settle = [pc |-> "rest", seen |-> Unread] /\ checked = Unread
  BY DEF AccountInit
<1>4. Unread \in [Tickers -> Int]
  BY DEF Unread
<1>5. held = [s \in Tickers |-> Total(s)]
  BY DEF AccountInit
<1>6. sold = [s \in Tickers |-> 0] /\ deducted = [s \in Tickers |-> 0]
  BY DEF AccountInit
<1>7. AccountTyped
  <2>1. settle \in [pc : {"rest", "domestic", "read"}, seen : [Tickers -> Int]]
    BY <1>3, <1>4
  <2>2. held \in [Tickers -> Nat]
    <3> HIDE DEF Total
    <3>. QED
      BY <1>2, <1>5
  <2>. QED
    BY <1>1, <1>3, <1>4, <1>6, <2>1, <2>2 DEF AccountTyped
<1>8. ReadAlready = {}
  BY <1>3 DEF ReadAlready
<1>9. \A s \in Tickers : Kept(s) <= held[s] + sold[s] /\ deducted[s] <= sold[s]
  BY <1>2, <1>5, <1>6 DEF Kept
<1>. QED
  BY <1>3, <1>7, <1>8, <1>9 DEF AccountInv

(* What the user does by hand.                                             *)
LEMMA HandSteps ==
  ASSUME AccountInv, NEW u \in Tickers, TradesByHand(u)
  PROVE  AccountInv'
<1>1. AccountTyped
  BY DEF AccountInv
<1>2. UNCHANGED <<ledger, settle, deducted, unread, split, checked>>
  BY DEF TradesByHand
<1>3. /\ held' \in [Tickers -> Nat] /\ sold' \in [Tickers -> Nat]
      /\ \A s \in Tickers : /\ held'[s] + sold'[s] >= held[s] + sold[s]
                            /\ sold'[s] >= sold[s]
  <2>1. CASE held' = [held EXCEPT ![u] = @ + 1] /\ UNCHANGED sold
    BY <1>1, <2>1 DEF AccountTyped
  <2>2. CASE /\ held[u] > 0
             /\ held' = [held EXCEPT ![u] = @ - 1]
             /\ sold' = [sold EXCEPT ![u] = @ + 1]
    BY <1>1, <2>2 DEF AccountTyped
  <2>. QED
    BY <2>1, <2>2 DEF TradesByHand
<1>4. AccountTyped'
  BY <1>1, <1>2, <1>3 DEF AccountTyped, Entries, Tickers
<1>5. /\ \A s \in Tickers : Total(s)' = Total(s) /\ Kept(s)' = Kept(s)
      /\ ReadAlready' = ReadAlready
  BY <1>2 DEF Total, Kept, Holders, ReadAlready
<1>6. \A s \in Tickers : /\ Kept(s) \in Int /\ held[s] \in Int /\ sold[s] \in Int
                         /\ deducted[s] \in Int /\ settle.seen[s] \in Int
                         /\ held'[s] \in Int /\ sold'[s] \in Int
  <2>1. \A s \in Tickers : Total(s) \in Nat
    BY <1>1, HoldersAre
  <2>2. \A s \in Tickers : deducted[s] \in Int /\ settle.seen[s] \in Int
    BY <1>1 DEF AccountTyped
  <2>3. \A s \in Tickers : held[s] \in Int /\ sold[s] \in Int /\ held'[s] \in Int /\ sold'[s] \in Int
    BY <1>1, <1>3 DEF AccountTyped
  <2>. QED
    BY <2>1, <2>2, <2>3 DEF Kept
<1>7. ReadAlready \subseteq Tickers
  BY DEF ReadAlready, Tickers
<1>8. /\ \A s \in ReadAlready' : settle'.seen[s] >= 0
      /\ checked' # Unread => \A s \in Tickers : Total(s)' <= checked'[s]
  BY <1>2, <1>5 DEF AccountInv
<1>9. ASSUME NEW s \in Tickers
      PROVE  Kept(s)' <= held'[s] + sold'[s]
  <2>1. Kept(s) <= held[s] + sold[s]
    BY DEF AccountInv
  <2>. QED
    BY <1>3, <1>5, <1>6, <2>1
<1>10. ASSUME NEW s \in ReadAlready' \ unread'
       PROVE  Kept(s)' <= settle'.seen[s] + sold'[s]
  <2>1. s \in Tickers /\ Kept(s) <= settle.seen[s] + sold[s]
    BY <1>2, <1>5, <1>7 DEF AccountInv
  <2>. QED
    BY <1>2, <1>3, <1>5, <1>6, <2>1
<1>11. ASSUME NEW s \in Tickers \ (unread' \cup split')
       PROVE  deducted'[s] <= sold'[s]
  <2>1. deducted[s] <= sold[s]
    BY <1>2 DEF AccountInv
  <2>. QED
    BY <1>2, <1>3, <1>6, <2>1
<1>. QED
  BY <1>4, <1>8, <1>9, <1>10, <1>11 DEF AccountInv, Tickers

(* The two readings of the account.                                        *)
LEMMA ReadingSteps ==
  ASSUME AccountInv, ReadsDomestic \/ ReadsOverseas
  PROVE  AccountInv'
<1>1. AccountTyped
  BY DEF AccountInv
<1>2. UNCHANGED <<held, ledger, hand, sold, deducted, split, checked>>
  BY DEF ReadsDomestic, ReadsOverseas
<1>3. \A s \in Tickers : Total(s)' = Total(s) /\ Kept(s)' = Kept(s)
  BY <1>2 DEF Total, Kept, Holders
<1>4. \A s \in Tickers : held[s] \in Nat /\ settle.seen[s] \in Int
  BY <1>1 DEF AccountTyped
<1>5. unread \subseteq unread' /\ settle' \in [pc : {"rest", "domestic", "read"}, seen : [Tickers -> Int]]
  <2>1. ASSUME NEW S, NEW rows PROVE Part(S, rows) \in [Tickers -> Int]
    BY <1>4 DEF Part
  <2>2. settle \in [pc : {"rest", "domestic", "read"}, seen : [Tickers -> Int]]
    BY <1>1 DEF AccountTyped
  <2>3. CASE ReadsDomestic
    <3>1. CASE settle' = settle /\ unread' = unread
      BY <2>2, <3>1
    <3>2. ASSUME NEW rows, settle' = [pc |-> "domestic", seen |-> Part(Domestic, rows)],
                 unread' = unread \cup (Domestic \ rows)
          PROVE  /\ unread \subseteq unread'
                 /\ settle' \in [pc : {"rest", "domestic", "read"}, seen : [Tickers -> Int]]
      BY <2>1, <3>2
    <3>. QED
      BY <2>3, <3>1, <3>2 DEF ReadsDomestic
  <2>4. CASE ReadsOverseas
    <3>1. PICK rows : /\ settle' = [pc |-> "read", seen |-> Part(US, rows)]
                      /\ unread' = unread \cup (US \ rows)
      BY <2>4 DEF ReadsOverseas
    <3>. QED
      BY <2>1, <3>1
  <2>. QED
    BY <2>3, <2>4
<1>6. AccountTyped'
  BY <1>1, <1>2, <1>5 DEF AccountTyped, Entries, Tickers
<1>7. ASSUME NEW s \in ReadAlready'
      PROVE  /\ settle'.seen[s] >= 0
             /\ s \notin unread' => Kept(s)' <= settle'.seen[s] + sold'[s]
  <2>0. /\ \A u \in Tickers : Kept(u) <= held[u] + sold[u]
        /\ \A u \in ReadAlready : settle.seen[u] >= 0
        /\ \A u \in ReadAlready \ unread : Kept(u) <= settle.seen[u] + sold[u]
    BY DEF AccountInv
  <2>1. CASE ReadsDomestic
    <3>1. CASE settle' = settle /\ unread' = unread
      <4>1. ReadAlready' = ReadAlready /\ ReadAlready \subseteq Tickers
        BY <3>1 DEF ReadAlready, Tickers
      <4>. QED
        BY <1>2, <1>3, <2>0, <3>1, <4>1
    <3>2. ASSUME NEW rows \in SUBSET Domestic,
                 settle' = [pc |-> "domestic", seen |-> Part(Domestic, rows)],
                 unread' = unread \cup (Domestic \ rows)
          PROVE  /\ settle'.seen[s] >= 0
                 /\ s \notin unread' => Kept(s)' <= settle'.seen[s] + sold'[s]
      <4>1. s \in Domestic /\ s \in Tickers
        BY <3>2 DEF ReadAlready, Tickers
      <4>2. settle'.seen[s] = IF s \in rows THEN held[s] ELSE 0
        BY <3>2, <4>1 DEF Part
      <4>. QED
        BY <1>2, <1>3, <1>4, <2>0, <3>2, <4>1, <4>2
    <3>. QED
      BY <2>1, <3>1, <3>2 DEF ReadsDomestic
  <2>2. CASE ReadsOverseas
    <3>1. PICK rows \in SUBSET US : /\ settle' = [pc |-> "read", seen |-> Part(US, rows)]
                                    /\ unread' = unread \cup (US \ rows)
      BY <2>2 DEF ReadsOverseas
    <3>2. s \in Tickers /\ (s \notin US => s \in ReadAlready)
      BY <2>2, <3>1 DEF ReadAlready, Tickers, ReadsOverseas
    <3>3. settle'.seen[s] = IF s \in rows THEN held[s]
                            ELSE IF s \in US THEN 0 ELSE settle.seen[s]
      BY <3>1, <3>2 DEF Part
    <3>4. CASE s \in rows
      BY <1>2, <1>3, <1>4, <2>0, <3>2, <3>3, <3>4
    <3>5. CASE s \in US /\ s \notin rows
      BY <3>1, <3>3, <3>5
    <3>6. CASE s \notin US
      BY <1>2, <1>3, <1>5, <2>0, <3>1, <3>2, <3>3, <3>6
    <3>. QED
      BY <3>4, <3>5, <3>6
  <2>. QED
    BY <2>1, <2>2
<1>8. /\ \A s \in Tickers : Kept(s)' <= held'[s] + sold'[s]
      /\ \A s \in Tickers \ (unread' \cup split') : deducted'[s] <= sold'[s]
      /\ checked' # Unread => \A s \in Tickers : Total(s)' <= checked'[s]
  BY <1>2, <1>3, <1>5 DEF AccountInv
<1>. QED
  BY <1>6, <1>7, <1>8 DEF AccountInv, Tickers

(* The comparison itself.                                                  *)
LEMMA ComparisonSteps ==
  ASSUME AccountInv, Reconciles
  PROVE  AccountInv'
<1>1. AccountTyped /\ ReadAlready = Tickers
  BY DEF AccountInv, Reconciles, ReadAlready
<1>2. \A s \in Tickers : settle.seen[s] >= 0
  BY <1>1 DEF AccountInv
<1>3. /\ settle' = [pc |-> "rest", seen |-> Unread] /\ checked' = settle.seen
      /\ split' = split \cup {s \in Orphans : Cardinality(Holders(s)) > 2}
      /\ UNCHANGED <<held, sold, unread>>
  BY DEF Reconciles
<1>4. ASSUME NEW s \in Tickers
      PROVE  /\ Total(s) \in Nat /\ Total(s)' \in Nat
             /\ deducted'[s] = deducted[s] + (Total(s) - Total(s)')
             /\ s \notin Orphans => Total(s)' = Total(s)
             /\ s \in Orphans => Total(s)' <= settle.seen[s]
             /\ s \in Orphans /\ Cardinality(Holders(s)) <= 2 => Total(s)' = settle.seen[s]
  BY <1>1, <1>2, Settled
<1>5. \A s \in Tickers : /\ deducted[s] \in Int /\ settle.seen[s] \in Int
                         /\ held[s] \in Int /\ sold[s] \in Int
  BY <1>1 DEF AccountTyped
<1>6. AccountTyped'
  <2>1. deducted' \in [Tickers -> Int]
    <3>1. \A s \in Tickers : deducted'[s] \in Int
      BY <1>4, <1>5
    <3>2. DOMAIN deducted' = Tickers /\ deducted' = [s \in Tickers |-> deducted'[s]]
      BY DEF Reconciles
    <3>. QED
      BY <3>1, <3>2
  <2>2. ledger' \in [Entries -> [symbol : Tickers, qty : Nat]]
    BY <1>1, <1>2, LedgerLeft
  <2>3. Unread \in [Tickers -> Int]
    BY DEF Unread
  <2>4. settle' \in [pc : {"rest", "domestic", "read"}, seen : [Tickers -> Int]]
    BY <1>3, <2>3
  <2>5. checked' \in [Tickers -> Int]
    BY <1>1, <1>3 DEF AccountTyped
  <2>. QED
    BY <1>1, <1>3, <2>1, <2>2, <2>4, <2>5 DEF AccountTyped, Entries, Tickers
<1>7. ReadAlready' = {}
  BY <1>3 DEF ReadAlready
<1>8. ASSUME NEW s \in Tickers
      PROVE  Kept(s)' = Kept(s)
  <2>1. Kept(s)' = Total(s)' + deducted'[s] /\ Kept(s) = Total(s) + deducted[s]
    BY DEF Kept
  <2> HIDE DEF Kept
  <2>. QED
    BY <1>4, <1>5, <2>1
<1>9. ASSUME NEW s \in Tickers
      PROVE  Total(s)' <= settle.seen[s]
  <2>1. CASE s \in Orphans
    BY <1>4, <2>1
  <2>2. CASE s \notin Orphans
    <3>1. ~(settle.seen[s] < Total(s))
      BY <2>2 DEF Orphans
    <3>. QED
      BY <1>4, <1>5, <2>2, <3>1
  <2>. QED
    BY <2>1, <2>2
<1>10. ASSUME NEW s \in Tickers \ (unread' \cup split')
       PROVE  deducted'[s] <= sold'[s]
  <2>1. s \notin unread /\ s \notin split
    BY <1>3
  <2>2. CASE s \in Orphans
    <3>1. Cardinality(Holders(s)) <= 2
      <4>1. ~(Cardinality(Holders(s)) > 2)
        BY <1>3, <2>2
      <4>2. Cardinality(Holders(s)) \in Nat
        BY <1>1, HoldersAre, FS_CardinalityType
      <4>. QED
        BY <4>1, <4>2
    <3>2. Kept(s) <= settle.seen[s] + sold[s]
      BY <1>1, <2>1 DEF AccountInv
    <3>. QED
      BY <1>3, <1>4, <1>5, <2>2, <3>1, <3>2 DEF Kept
  <2>3. CASE s \notin Orphans
    <3>1. deducted[s] <= sold[s]
      BY <2>1 DEF AccountInv
    <3>. QED
      BY <1>3, <1>4, <1>5, <2>3, <3>1
  <2>. QED
    BY <2>2, <2>3
<1>11. \A s \in Tickers : Kept(s)' <= held'[s] + sold'[s]
  BY <1>3, <1>8 DEF AccountInv
<1>. QED
  BY <1>3, <1>6, <1>7, <1>9, <1>10, <1>11 DEF AccountInv, Tickers

LEMMA AccountSteps == AccountInv /\ [AccountNext]_accountVars => AccountInv'
<1> SUFFICES ASSUME AccountInv, [AccountNext]_accountVars PROVE AccountInv'
  OBVIOUS
<1>1. ASSUME NEW s \in Tickers, TradesByHand(s) PROVE AccountInv'
  BY <1>1, HandSteps
<1>2. CASE ReadsDomestic \/ ReadsOverseas
  BY <1>2, ReadingSteps
<1>3. CASE Reconciles
  BY <1>3, ComparisonSteps
<1>4. CASE UNCHANGED accountVars
  <2>1. UNCHANGED <<held, ledger, settle, sold, deducted, unread, split, checked>>
    BY <1>4 DEF accountVars
  <2>2. \A s \in Tickers : Total(s)' = Total(s) /\ Kept(s)' = Kept(s)
    BY <2>1 DEF Total, Kept, Holders
  <2>3. AccountTyped' /\ ReadAlready' = ReadAlready /\ ReadAlready \subseteq Tickers
    BY <2>1 DEF AccountInv, AccountTyped, ReadAlready, Entries, Tickers
  <2>. QED
    BY <2>1, <2>2, <2>3 DEF AccountInv, Tickers, Unread
<1>. QED
  BY <1>1, <1>2, <1>3, <1>4 DEF AccountNext

(* The ledger loses no more shares of a symbol than the user sold of it by *)
(* hand, except where its row was in no answer that was read and where the *)
(* shortfall was split over three entries or more; and right after a       *)
(* comparison it claims no more than was read: for any symbols, any number *)
(* of entries of any size, and any number of trades by hand.               *)
THEOREM DeductsForCause == AccountSpec => []DeductedForCause
<1>1. AccountInv => DeductedForCause
  <2> SUFFICES ASSUME AccountInv, NEW s \in Tickers, deducted[s] > sold[s],
                      s \notin unread \cup split
               PROVE  FALSE
    BY DEF AccountInv, DeductedForCause
  <2>1. deducted[s] <= sold[s]
    BY DEF AccountInv
  <2>2. deducted[s] \in Int /\ sold[s] \in Int
    BY DEF AccountInv, AccountTyped
  <2>. QED
    BY <2>1, <2>2
<1>. QED
  BY <1>1, AccountStarts, AccountSteps, PTL DEF AccountSpec

====
