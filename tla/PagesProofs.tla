---------------------------- MODULE PagesProofs -----------------------------
(***************************************************************************)
(* Greatest and least members of finite sets of integers, what a page      *)
(* leaves out, induction over finite sets, and sums.                       *)
(***************************************************************************)
EXTENDS Pages, FiniteSetsExt, FiniteSetTheorems, WellFoundedInduction, TLAPS

\* The members of S above x shrink as x grows, and inclusion is well founded.
LEMMA GreatestExists ==
  ASSUME NEW S \in SUBSET Int, IsFiniteSet(S), S # {}
  PROVE  \E x \in S : \A y \in S : x >= y
<1> DEFINE Above(x) == {y \in S : y > x}
           T == {Above(x) : x \in S}
<1>1. T \subseteq FiniteSubsetsOf(S) /\ T # {}
  <2>1. \A x \in S : Above(x) \subseteq S /\ IsFiniteSet(Above(x))
    BY FS_Subset
  <2> QED  BY <2>1 DEF FiniteSubsetsOf
<1>2. PICK U \in T : \A V \in T : <<V, U>> \notin StrictSubsetOrdering(S)
  <2>1. IsWellFoundedOn(StrictSubsetOrdering(S), FiniteSubsetsOf(S))
    BY FS_StrictSubsetOrderingWellFounded
  <2> HIDE DEF T
  <2> QED  BY <1>1, <2>1, WFMin
<1>3. PICK x \in S : U = Above(x)
  OBVIOUS
<1>4. ASSUME NEW y \in S, y > x
      PROVE  FALSE
  <2>1. Above(y) \subseteq Above(x) /\ Above(y) # Above(x)
    <3>1. /\ x \in Int /\ y \in Int
          /\ \A z \in S : z \in Int
      OBVIOUS
    <3>2. \A z \in S : z > y => z > x
      BY <1>4, <3>1
    <3>3. y \in Above(x) /\ y \notin Above(y)
      BY <1>4, <3>1
    <3> QED  BY <3>2, <3>3
  <2>2. <<Above(y), Above(x)>> \in StrictSubsetOrdering(S)
    BY <2>1 DEF StrictSubsetOrdering
  <2> QED  BY <1>2, <1>3, <2>2
<1> QED  BY <1>4

LEMMA LeastExists ==
  ASSUME NEW S \in SUBSET Int, IsFiniteSet(S), S # {}
  PROVE  \E x \in S : \A y \in S : x <= y
<1> DEFINE Below(x) == {y \in S : y < x}
           T == {Below(x) : x \in S}
<1>1. T \subseteq FiniteSubsetsOf(S) /\ T # {}
  <2>1. \A x \in S : Below(x) \subseteq S /\ IsFiniteSet(Below(x))
    BY FS_Subset
  <2> QED  BY <2>1 DEF FiniteSubsetsOf
<1>2. PICK U \in T : \A V \in T : <<V, U>> \notin StrictSubsetOrdering(S)
  <2>1. IsWellFoundedOn(StrictSubsetOrdering(S), FiniteSubsetsOf(S))
    BY FS_StrictSubsetOrderingWellFounded
  <2> HIDE DEF T
  <2> QED  BY <1>1, <2>1, WFMin
<1>3. PICK x \in S : U = Below(x)
  OBVIOUS
<1>4. ASSUME NEW y \in S, y < x
      PROVE  FALSE
  <2>1. Below(y) \subseteq Below(x) /\ Below(y) # Below(x)
    <3>1. /\ x \in Int /\ y \in Int
          /\ \A z \in S : z \in Int
      OBVIOUS
    <3>2. \A z \in S : z < y => z < x
      BY <1>4, <3>1
    <3>3. y \in Below(x) /\ y \notin Below(y)
      BY <1>4, <3>1
    <3> QED  BY <3>2, <3>3
  <2>2. <<Below(y), Below(x)>> \in StrictSubsetOrdering(S)
    BY <2>1 DEF StrictSubsetOrdering
  <2> QED  BY <1>2, <1>3, <2>2
<1> QED  BY <1>4

LEMMA MaxIsGreatest ==
  ASSUME NEW S \in SUBSET Int, IsFiniteSet(S), S # {}
  PROVE  Max(S) \in S /\ \A y \in S : Max(S) >= y
BY GreatestExists DEF Max

LEMMA MinIsLeast ==
  ASSUME NEW S \in SUBSET Int, IsFiniteSet(S), S # {}
  PROVE  Min(S) \in S /\ \A y \in S : Min(S) <= y
BY LeastExists DEF Min

\* A page is not empty unless nothing is left, and all that it leaves out is older.
LEMMA LargestIsPage ==
  ASSUME NEW S \in SUBSET Int, IsFiniteSet(S), NEW n \in Nat \ {0}
  PROVE  /\ Largest(S, n) \subseteq S
         /\ S # {} => Largest(S, n) # {}
         /\ \A x \in Largest(S, n), y \in S \ Largest(S, n) : y < x
<1> DEFINE Above(x) == {y \in S : y > x}
<1>1. \A x \in S : IsFiniteSet(Above(x)) /\ Cardinality(Above(x)) \in Nat
  BY FS_Subset, FS_CardinalityType
<1>2. ASSUME S # {}
      PROVE  Largest(S, n) # {}
  <2>1. PICK x \in S : \A y \in S : x >= y
    BY <1>2, GreatestExists
  <2>2. Above(x) = {}
    <3>1. \A y \in S : x \in Int /\ y \in Int /\ x >= y
      BY <2>1
    <3>2. \A y \in S : ~ (y > x)
      BY <3>1
    <3> QED  BY <3>2
  <2>3. Cardinality({}) = 0
    BY FS_EmptySet
  <2> QED  BY <2>2, <2>3 DEF Largest
<1>3. ASSUME NEW x \in Largest(S, n), NEW y \in S \ Largest(S, n), y > x
      PROVE  FALSE
  <2>1. Above(y) \subseteq Above(x) /\ x \in S
    <3>1. x \in S /\ y \in S
      BY DEF Largest
    <3>2. \A z \in S : x \in Int /\ y \in Int /\ z \in Int
      BY <3>1
    <3>3. \A z \in S : z > y => z > x
      BY <1>3, <3>2
    <3> QED  BY <3>1, <3>3
  <2>2. Cardinality(Above(y)) <= Cardinality(Above(x))
    BY <1>1, <2>1, FS_Subset
  <2>3. Cardinality(Above(x)) < n /\ ~ (Cardinality(Above(y)) < n)
    BY DEF Largest
  <2> HIDE DEF Above
  <2>4. Cardinality(Above(x)) \in Nat /\ Cardinality(Above(y)) \in Nat
    BY <1>1, <2>1
  <2> QED  BY <2>2, <2>3, <2>4
<1>4. Largest(S, n) \subseteq S
  BY DEF Largest
<1>5. ASSUME NEW x \in Largest(S, n), NEW y \in S \ Largest(S, n)
      PROVE  y < x
  <2>1. x \in Int /\ y \in Int /\ x # y /\ ~ (y > x)
    BY <1>3, <1>4
  <2> QED  BY <2>1
<1> QED  BY <1>2, <1>4, <1>5

\* A page that is not full shows everything.
LEMMA LargestIsFull ==
  ASSUME NEW S \in SUBSET Int, IsFiniteSet(S), NEW n \in Nat \ {0},
         Cardinality(Largest(S, n)) < n
  PROVE  Largest(S, n) = S
<1>1. Largest(S, n) \subseteq S
  BY LargestIsPage
<1>2. ASSUME Largest(S, n) # S
      PROVE  FALSE
  <2> DEFINE Rest == S \ Largest(S, n)
  <2>1. Rest \in SUBSET Int /\ Rest # {} /\ Rest \subseteq S
    BY <1>1, <1>2
  <2>2. IsFiniteSet(Rest)
    BY <2>1, FS_Subset
  <2>3. PICK x \in Rest : \A y \in Rest : x >= y
    <3> HIDE DEF Rest
    <3> QED  BY <2>1, <2>2, GreatestExists
  <2>4. PICK above : above = {y \in S : y > x}
    OBVIOUS
  <2>5. above \subseteq Largest(S, n)
    <3>1. ASSUME NEW y \in above, y \notin Largest(S, n)
          PROVE  FALSE
      <4>1. y \in Rest /\ y > x /\ y \in Int /\ x \in Int
        BY <2>1, <2>4, <3>1
      <4>2. x >= y
        BY <2>3, <4>1
      <4> QED  BY <4>1, <4>2
    <3> QED  BY <3>1
  <2>6. ~ (Cardinality(above) < n)
    BY <2>4 DEF Largest
  <2>7. IsFiniteSet(Largest(S, n))
    BY <1>1, FS_Subset
  <2>8. Cardinality(above) <= Cardinality(Largest(S, n))
    BY <2>5, <2>7, FS_Subset
  <2>9. Cardinality(above) \in Nat /\ Cardinality(Largest(S, n)) \in Nat
    BY <2>5, <2>7, FS_Subset, FS_CardinalityType
  <2> QED  BY <2>6, <2>8, <2>9
<1> QED  BY <1>2

\* All that an oldest-first page leaves out is newer.
LEMMA SmallestIsPage ==
  ASSUME NEW S \in SUBSET Int, IsFiniteSet(S), NEW n \in Nat \ {0}
  PROVE  /\ Smallest(S, n) \subseteq S
         /\ \A x \in Smallest(S, n), y \in S \ Smallest(S, n) : x < y
<1> DEFINE Below(x) == {y \in S : y < x}
<1>1. \A x \in S : IsFiniteSet(Below(x)) /\ Cardinality(Below(x)) \in Nat
  BY FS_Subset, FS_CardinalityType
<1>2. ASSUME NEW x \in Smallest(S, n), NEW y \in S \ Smallest(S, n), y < x
      PROVE  FALSE
  <2>1. Below(y) \subseteq Below(x) /\ x \in S
    <3>1. x \in S /\ y \in S
      BY DEF Smallest
    <3>2. \A z \in S : x \in Int /\ y \in Int /\ z \in Int
      BY <3>1
    <3>3. \A z \in S : z < y => z < x
      BY <1>2, <3>2
    <3> QED  BY <3>1, <3>3
  <2>2. Cardinality(Below(y)) <= Cardinality(Below(x))
    BY <1>1, <2>1, FS_Subset
  <2>3. Cardinality(Below(x)) < n /\ ~ (Cardinality(Below(y)) < n)
    BY DEF Smallest
  <2> HIDE DEF Below
  <2>4. Cardinality(Below(x)) \in Nat /\ Cardinality(Below(y)) \in Nat
    BY <1>1, <2>1
  <2> QED  BY <2>2, <2>3, <2>4
<1>3. Smallest(S, n) \subseteq S
  BY DEF Smallest
<1>4. ASSUME NEW x \in Smallest(S, n), NEW y \in S \ Smallest(S, n)
      PROVE  x < y
  <2>1. x \in Int /\ y \in Int /\ x # y /\ ~ (y < x)
    BY <1>2, <1>3
  <2> QED  BY <2>1
<1> QED  BY <1>3, <1>4

-----------------------------------------------------------------------------
(* Induction, over an interval and over a finite set, for the members of a *)
(* set.                                                                    *)

LEMMA StepByStep ==
  ASSUME NEW N \in Nat, NEW G, 0 \in G,
         \A n \in 1 .. N : n - 1 \in G => n \in G
  PROVE  \A n \in 0 .. N : n \in G
<1> DEFINE Bad == (0 .. N) \ G
<1>1. SUFFICES ASSUME Bad # {} PROVE FALSE
  OBVIOUS
<1>2. Bad \in SUBSET Int /\ IsFiniteSet(Bad)
  <2>1. Bad \subseteq 0 .. N /\ IsFiniteSet(0 .. N) /\ 0 .. N \subseteq Int
    BY FS_Interval
  <2> HIDE DEF Bad
  <2>2. IsFiniteSet(Bad)
    BY <2>1, FS_Subset
  <2> QED  BY <2>1, <2>2
<1>3. PICK m \in Bad : \A y \in Bad : m <= y
  <2> HIDE DEF Bad
  <2> QED  BY <1>1, <1>2, LeastExists
<1>4. m \in 1 .. N /\ m - 1 \in 0 .. N
  OBVIOUS
<1>5. ~ (m <= m - 1)
  BY <1>4
<1>6. m - 1 \in G
  BY <1>3, <1>4, <1>5
<1> QED  BY <1>4, <1>6

LEMMA OneByOne ==
  ASSUME NEW S, IsFiniteSet(S), NEW G, {} \in G,
         \A T \in SUBSET S : \A x \in S \ T : T \in G => T \union {x} \in G
  PROVE  S \in G
<1>1. SUFFICES ASSUME S \notin G PROVE FALSE
  OBVIOUS
<1> DEFINE Bad == (SUBSET S) \ G
<1>2. Bad \subseteq FiniteSubsetsOf(S) /\ Bad # {}
  <2>1. \A T \in SUBSET S : IsFiniteSet(T)
    BY FS_Subset
  <2> QED  BY <1>1, <2>1 DEF FiniteSubsetsOf
<1>3. PICK U \in Bad : \A V \in Bad : <<V, U>> \notin StrictSubsetOrdering(S)
  <2>1. IsWellFoundedOn(StrictSubsetOrdering(S), FiniteSubsetsOf(S))
    BY FS_StrictSubsetOrderingWellFounded
  <2> HIDE DEF Bad
  <2> QED  BY <1>2, <2>1, WFMin
<1>4. PICK x \in U : TRUE
  OBVIOUS
<1>5. U \ {x} \in SUBSET S /\ x \in S \ (U \ {x}) /\ (U \ {x}) \union {x} = U
  OBVIOUS
<1>6. U \ {x} \in Bad
  BY <1>5
<1>7. <<U \ {x}, U>> \in StrictSubsetOrdering(S)
  BY <1>5 DEF StrictSubsetOrdering
<1> QED  BY <1>3, <1>6, <1>7

\* A function defined by a first value and by each value from the one before.
IsNext(next, N, S) == next \in [1 .. N -> [S -> S]]
IsSteps(f, first, next, N, S) ==
  /\ f \in [0 .. N -> S]
  /\ f[0] = first /\ \A n \in 1 .. N : f[n] = next[n][f[n - 1]]

LEMMA StepsExist ==
  ASSUME NEW S, NEW N \in Nat, NEW first \in S, NEW next, IsNext(next, N, S)
  PROVE  \E f : IsSteps(f, first, next, N, S)
<1>1. next \in [1 .. N -> [S -> S]]
  BY DEF IsNext
<1> DEFINE Upto(m, f) == /\ f \in [0 .. m -> S]
                         /\ f[0] = first /\ \A n \in 1 .. m : f[n] = next[n][f[n - 1]]
           G == {m \in 0 .. N : \E f \in [0 .. m -> S] : Upto(m, f)}
<1>2. 0 \in G
  <2> DEFINE zero == [n \in 0 .. 0 |-> first]
  <2>1. zero \in [0 .. 0 -> S] /\ zero[0] = first
    OBVIOUS
  <2>2. Upto(0, zero)
    BY <2>1
  <2> HIDE DEF zero, Upto
  <2> QED  BY <2>1, <2>2
<1>3. ASSUME NEW m \in 1 .. N, m - 1 \in G
      PROVE  m \in G
  <2>1. PICK f \in [0 .. (m - 1) -> S] : Upto(m - 1, f)
    BY <1>3
  <2> DEFINE g == [n \in 0 .. m |-> IF n = m THEN next[m][f[m - 1]] ELSE f[n]]
  <2>2. next[m][f[m - 1]] \in S
    <3>1. m - 1 \in 0 .. (m - 1) /\ f[m - 1] \in S
      OBVIOUS
    <3> QED  BY <1>1, <3>1
  <2>3. g \in [0 .. m -> S]
    <3>1. \A n \in 0 .. m : n # m => n \in 0 .. (m - 1)
      OBVIOUS
    <3> QED  BY <2>2, <3>1
  <2>4. g[0] = first
    <3>1. 0 \in 0 .. m /\ 0 # m
      OBVIOUS
    <3> QED  BY <2>1, <3>1
  <2>5. ASSUME NEW n \in 1 .. m
        PROVE  g[n] = next[n][g[n - 1]]
    <3>1. n \in 0 .. m /\ n - 1 \in 0 .. m /\ n - 1 # m
      OBVIOUS
    <3>2. g[n - 1] = f[n - 1]
      BY <3>1
    <3>3. CASE n = m
      BY <3>1, <3>2, <3>3
    <3>4. CASE n # m
      <4>1. n \in 1 .. (m - 1)
        BY <3>4
      <4> QED  BY <2>1, <3>1, <3>2, <3>4, <4>1
    <3> QED  BY <3>3, <3>4
  <2>6. Upto(m, g)
    BY <2>3, <2>4, <2>5
  <2>7. m \in 0 .. N
    OBVIOUS
  <2> HIDE DEF Upto, g
  <2> QED  BY <2>3, <2>6, <2>7
<1>4. \A n \in 0 .. N : n \in G
  <2> HIDE DEF G
  <2> QED  BY <1>2, <1>3, StepByStep
<1>5. N \in 0 .. N
  OBVIOUS
<1> QED  BY <1>4, <1>5 DEF IsSteps

LEMMA PartIsSmaller ==
  ASSUME NEW S, IsFiniteSet(S), NEW T \in SUBSET S
  PROVE  /\ IsFiniteSet(T) /\ Cardinality(T) \in Nat /\ Cardinality(S) \in Nat
         /\ Cardinality(T) <= Cardinality(S)
         /\ T # S => Cardinality(T) < Cardinality(S)
<1>1. /\ IsFiniteSet(T) /\ Cardinality(T) <= Cardinality(S)
      /\ Cardinality(S) = Cardinality(T) => S = T
  BY FS_Subset
<1>2. Cardinality(T) \in Nat /\ Cardinality(S) \in Nat
  BY <1>1, FS_CardinalityType
<1> QED  BY <1>1, <1>2

-----------------------------------------------------------------------------
(* Sums over the parts of a finite set.                                    *)

\* g[T] is the sum of f over T, one summand taken from the others.
AnyOf(T) == CHOOSE x \in T : TRUE
IsSum(g, f, S) ==
  /\ g \in [SUBSET S -> Nat]
  /\ \A T \in SUBSET S :
       g[T] = IF T = {} THEN 0 ELSE f[AnyOf(T)] + g[T \ {AnyOf(T)}]

LEMMA AnyOfIsOne ==
  ASSUME NEW T, T # {}
  PROVE  AnyOf(T) \in T
BY DEF AnyOf

LEMMA SumExists ==
  ASSUME NEW S, IsFiniteSet(S), NEW f \in [S -> Nat]
  PROVE  \E g : IsSum(g, f, S)
<1> DEFINE N == Cardinality(S)
           V == [SUBSET S -> Nat]
           More(h) == [T \in SUBSET S |->
                         IF T = {} THEN 0 ELSE f[AnyOf(T)] + h[T \ {AnyOf(T)}]]
           more == [h \in V |-> More(h)]
           next == [n \in 1 .. N |-> more]
           none == [T \in SUBSET S |-> 0]
<1>1. N \in Nat
  BY FS_CardinalityType
<1>2. none \in V
  OBVIOUS
<1>3. ASSUME NEW h \in V
      PROVE  More(h) \in V
  <2>1. ASSUME NEW T \in SUBSET S, T # {}
        PROVE  f[AnyOf(T)] + h[T \ {AnyOf(T)}] \in Nat
    <3>1. AnyOf(T) \in S /\ T \ {AnyOf(T)} \in SUBSET S
      BY <2>1, AnyOfIsOne
    <3>2. f[AnyOf(T)] \in Nat /\ h[T \ {AnyOf(T)}] \in Nat
      BY <3>1
    <3> QED  BY <3>2
  <2> QED  BY <2>1
<1>4. IsNext(next, N, V) /\ \A n \in 1 .. N, h \in V : next[n][h] = More(h)
  <2>1. more \in [V -> V] /\ \A h \in V : more[h] = More(h)
    <3> HIDE DEF V, More
    <3> QED  BY <1>3
  <2> HIDE DEF N, V, More, more
  <2> QED  BY <2>1 DEF IsNext
<1>5. PICK h : IsSteps(h, none, next, N, V)
  <2> HIDE DEF N, V, next, none
  <2> QED  BY <1>1, <1>2, <1>4, StepsExist
<1>6. h[0] = none /\ \A n \in 0 .. N : h[n] \in V
  <2> HIDE DEF N, V, next, none
  <2> QED  BY <1>5 DEF IsSteps
<1>7. ASSUME NEW n \in 1 .. N
      PROVE  h[n] = More(h[n - 1])
  <2>1. n - 1 \in 0 .. N
    BY <1>1
  <2> HIDE DEF N, V, next, none, More
  <2> QED  BY <1>4, <1>5, <1>6, <2>1 DEF IsSteps
<1> DEFINE g == [T \in SUBSET S |-> h[Cardinality(T)][T]]
<1>8. \A T \in SUBSET S : IsFiniteSet(T) /\ Cardinality(T) \in 0 .. N
  BY <1>1, PartIsSmaller
<1>9. g \in [SUBSET S -> Nat]
  <2>1. \A T \in SUBSET S : h[Cardinality(T)] \in V
    <3> HIDE DEF N, V
    <3> QED  BY <1>6, <1>8
  <2> QED  BY <2>1
<1>10. ASSUME NEW T \in SUBSET S
       PROVE  g[T] = IF T = {} THEN 0 ELSE f[AnyOf(T)] + g[T \ {AnyOf(T)}]
  <2>1. CASE T = {}
    BY <1>6, <2>1, FS_EmptySet
  <2>2. CASE T # {}
    <3>1. PICK x \in T : x = AnyOf(T)
      BY <2>2, AnyOfIsOne
    <3>2. PICK n \in 1 .. N : n = Cardinality(T)
      BY <1>1, <1>8, <2>2, FS_EmptySet
    <3>3. T \ {x} \in SUBSET S /\ Cardinality(T \ {x}) = n - 1
      BY <1>8, <3>2, FS_RemoveElement
    <3>4. h[n][T] = f[x] + h[n - 1][T \ {x}]
      <4>1. h[n] = More(h[n - 1])
        BY <1>7
      <4> QED  BY <2>2, <3>1, <4>1
    <3>5. g[T] = h[n][T] /\ g[T \ {x}] = h[n - 1][T \ {x}]
      BY <3>2, <3>3
    <3> HIDE DEF g
    <3> QED  BY <2>2, <3>1, <3>4, <3>5
  <2> QED  BY <2>1, <2>2
<1> HIDE DEF g
<1> QED  BY <1>9, <1>10 DEF IsSum

\* Whatever satisfies the recursion is the sum.
LEMMA SumIsThat ==
  ASSUME NEW S, IsFiniteSet(S), NEW f \in [S -> Nat], NEW g,
         g = [T \in SUBSET S |-> IF T = {} THEN 0 ELSE f[AnyOf(T)] + g[T \ {AnyOf(T)}]]
  PROVE  IsSum(g, f, S)
<1>1. PICK g0 : IsSum(g0, f, S)
  BY SumExists
<1>2. \A T \in SUBSET S :
        g[T] = IF T = {} THEN 0 ELSE f[AnyOf(T)] + g[T \ {AnyOf(T)}]
  OBVIOUS
<1>3. \A T \in SUBSET S :
        g0[T] = IF T = {} THEN 0 ELSE f[AnyOf(T)] + g0[T \ {AnyOf(T)}]
  BY <1>1 DEF IsSum
<1> DEFINE G == {T \in SUBSET S : g[T] = g0[T]}
<1>4. \A T \in SUBSET S : T \in G
  <2> DEFINE Bad == (SUBSET S) \ G
  <2>1. SUFFICES ASSUME Bad # {} PROVE FALSE
    OBVIOUS
  <2>2. Bad \subseteq FiniteSubsetsOf(S)
    BY FS_Subset DEF FiniteSubsetsOf
  <2>3. PICK T \in Bad : \A U \in Bad : <<U, T>> \notin StrictSubsetOrdering(S)
    <3>1. IsWellFoundedOn(StrictSubsetOrdering(S), FiniteSubsetsOf(S))
      BY FS_StrictSubsetOrderingWellFounded
    <3> HIDE DEF Bad
    <3> QED  BY <2>1, <2>2, <3>1, WFMin
  <2>4. T # {}
    BY <1>2, <1>3
  <2>5. PICK x \in T : x = AnyOf(T)
    BY <2>4, AnyOfIsOne
  <2>6. T \ {x} \in SUBSET S /\ <<T \ {x}, T>> \in StrictSubsetOrdering(S)
    BY DEF StrictSubsetOrdering
  <2>7. g[T \ {x}] = g0[T \ {x}]
    BY <2>3, <2>6
  <2> QED  BY <1>2, <1>3, <2>4, <2>5, <2>7
<1>5. g \in [SUBSET S -> Nat]
  <2>1. \A T \in SUBSET S : g[T] \in Nat
    BY <1>1, <1>4 DEF IsSum
  <2>2. g = [T \in SUBSET S |-> g[T]]
    OBVIOUS
  <2> QED  BY <2>1, <2>2
<1> QED  BY <1>2, <1>5 DEF IsSum

\* A sum grows and falls with its summands.
LEMMA SumMovesBy ==
  ASSUME NEW S, IsFiniteSet(S), NEW f \in [S -> Nat], NEW h \in [S -> Nat],
         NEW g, IsSum(g, f, S), NEW k, IsSum(k, h, S),
         NEW o \in S, \A x \in S : x # o => h[x] = f[x]
  PROVE  /\ g[S] \in Nat /\ k[S] \in Nat
         /\ k[S] - g[S] = h[o] - f[o]
<1>1. \A T \in SUBSET S : g[T] \in Nat /\ k[T] \in Nat
  BY DEF IsSum
<1> DEFINE G == {T \in SUBSET S : k[T] - g[T] = IF o \in T THEN h[o] - f[o] ELSE 0}
           Bad == (SUBSET S) \ G
<1>2. ASSUME Bad # {} PROVE FALSE
  <2>1. Bad \subseteq FiniteSubsetsOf(S)
    BY FS_Subset DEF FiniteSubsetsOf
  <2>2. PICK T \in Bad : \A U \in Bad : <<U, T>> \notin StrictSubsetOrdering(S)
    <3>1. IsWellFoundedOn(StrictSubsetOrdering(S), FiniteSubsetsOf(S))
      BY FS_StrictSubsetOrderingWellFounded
    <3> HIDE DEF Bad
    <3> QED  BY <1>2, <2>1, <3>1, WFMin
  <2>3. T \in SUBSET S
    OBVIOUS
  <2>4. T # {}
    <3>1. g[{}] = 0 /\ k[{}] = 0
      BY DEF IsSum
    <3> QED  BY <3>1
  <2>5. PICK x \in T : x = AnyOf(T)
    BY <2>4, AnyOfIsOne
  <2>6. PICK U \in SUBSET S : U = T \ {x}
    BY <2>3
  <2>7. k[U] - g[U] = IF o \in U THEN h[o] - f[o] ELSE 0
    <3>1. <<U, T>> \in StrictSubsetOrdering(S)
      BY <2>3, <2>5, <2>6 DEF StrictSubsetOrdering
    <3> QED  BY <2>2, <2>6, <3>1
  <2>8. g[T] = f[x] + g[U] /\ k[T] = h[x] + k[U]
    BY <2>3, <2>4, <2>5, <2>6 DEF IsSum
  <2>9. /\ g[U] \in Nat /\ k[U] \in Nat /\ f[x] \in Nat /\ h[x] \in Nat
        /\ f[o] \in Nat /\ h[o] \in Nat
    BY <1>1, <2>3, <2>5, <2>6
  <2>10. k[T] - g[T] = IF o \in T THEN h[o] - f[o] ELSE 0
    <3>1. CASE x = o
      <4>1. o \in T /\ o \notin U
        BY <2>5, <2>6, <3>1
      <4> QED  BY <2>7, <2>8, <2>9, <3>1, <4>1
    <3>2. CASE x # o
      <4>1. h[x] = f[x] /\ (o \in T <=> o \in U)
        BY <2>3, <2>5, <2>6, <3>2
      <4> QED  BY <2>7, <2>8, <2>9, <4>1
    <3> QED  BY <3>1, <3>2
  <2> QED  BY <2>2, <2>3, <2>10
<1>3. S \in G
  BY <1>2
<1> QED  BY <1>1, <1>3

LEMMA SumIsZero ==
  ASSUME NEW S, IsFiniteSet(S), NEW f \in [S -> Nat], \A x \in S : f[x] = 0,
         NEW g, IsSum(g, f, S)
  PROVE  g[S] = 0
<1> DEFINE Bad == {T \in SUBSET S : g[T] # 0}
<1>1. ASSUME Bad # {} PROVE FALSE
  <2>1. Bad \subseteq FiniteSubsetsOf(S)
    BY FS_Subset DEF FiniteSubsetsOf
  <2>2. PICK T \in Bad : \A U \in Bad : <<U, T>> \notin StrictSubsetOrdering(S)
    <3>1. IsWellFoundedOn(StrictSubsetOrdering(S), FiniteSubsetsOf(S))
      BY FS_StrictSubsetOrderingWellFounded
    <3> HIDE DEF Bad
    <3> QED  BY <1>1, <2>1, <3>1, WFMin
  <2>3. T \in SUBSET S /\ T # {}
    BY DEF IsSum
  <2>4. PICK x \in T : x = AnyOf(T)
    BY <2>3, AnyOfIsOne
  <2>5. PICK U \in SUBSET S : U = T \ {x}
    BY <2>3
  <2>6. g[U] = 0
    <3>1. <<U, T>> \in StrictSubsetOrdering(S)
      BY <2>3, <2>4, <2>5 DEF StrictSubsetOrdering
    <3> QED  BY <2>2, <2>5, <3>1
  <2>7. g[T] = f[x] + g[U] /\ f[x] = 0
    BY <2>3, <2>4, <2>5 DEF IsSum
  <2> QED  BY <2>2, <2>6, <2>7
<1>2. S \notin Bad
  BY <1>1
<1> QED  BY <1>2

\* No summand is more than the sum.
LEMMA SummandIsLess ==
  ASSUME NEW S, IsFiniteSet(S), NEW f \in [S -> Nat], NEW g, IsSum(g, f, S), NEW o \in S
  PROVE  g[S] \in Nat /\ f[o] <= g[S]
<1>1. PICK h \in [S -> Nat] : h = [f EXCEPT ![o] = 0]
  OBVIOUS
<1>2. PICK k : IsSum(k, h, S)
  BY SumExists
<1>3. h[o] = 0 /\ \A x \in S : x # o => f[x] = h[x]
  BY <1>1
<1>4. k[S] \in Nat /\ g[S] \in Nat /\ g[S] - k[S] = f[o] - h[o]
  BY <1>2, <1>3, SumMovesBy
<1>5. f[o] \in Nat
  OBVIOUS
<1> QED  BY <1>3, <1>4, <1>5
=============================================================================
