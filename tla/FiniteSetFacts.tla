--------------------------- MODULE FiniteSetFacts --------------------------
(***************************************************************************)
(* Facts about finite sets that the proofs need and the library does not   *)
(* have: a finite set of numbers has a least element, and a sum over a     *)
(* finite set does not depend on the order it is taken in.  They follow    *)
(* from a theorem on strict subsets that has no operator among its         *)
(* parameters, so that it can be cited where a proof needs an induction.   *)
(***************************************************************************)
EXTENDS Integers, FiniteSetsExt, FiniteSetTheorems, WellFoundedInduction, TLAPS

LEMMA LeastElement ==
  ASSUME NEW T, T \subseteq Int, T # {}, IsFiniteSet(T)
  PROVE  \E x \in T : \A y \in T : x <= y
<1> DEFINE Below(x) == {y \in T : y < x}
           Segments == {Below(x) : x \in T}
           R == StrictSubsetOrdering(T)
<1>1. IsWellFoundedOn(R, SUBSET T)
  BY FS_StrictSubsetOrderingWellFounded, FS_FiniteSubsetsOfFinite
<1>2. Segments \subseteq SUBSET T /\ Segments # {}
  OBVIOUS
<1>3. \E U \in Segments : \A V \in Segments : ~ (<<V, U>> \in R)
  <2> HIDE DEF Segments, R
  <2> QED BY <1>1, <1>2, WFMin, Zenon
<1>4. PICK x \in T : \A V \in Segments : ~ (<<V, Below(x)>> \in R)
  BY <1>3
<1>5. ASSUME NEW y \in T, y < x PROVE FALSE
  <2>1. y \notin Below(y) /\ y \in Below(x) BY <1>5
  <2>2. ASSUME NEW z \in Below(y) PROVE z \in Below(x)
    <3>1. z \in T /\ z \in Int /\ y \in Int /\ x \in Int OBVIOUS
    <3>2. z < y OBVIOUS
    <3>3. z < x BY <1>5, <3>1, <3>2
    <3> QED BY <3>1, <3>3
  <2>3. <<Below(y), Below(x)>> \in (SUBSET T) \X (SUBSET T) OBVIOUS
  <2>4. <<Below(y), Below(x)>> \in R
    <3> HIDE DEF Below
    <3> QED BY <2>1, <2>2, <2>3 DEF StrictSubsetOrdering
  <2> QED BY <2>4, <1>4
<1> QED BY <1>5

LEMMA LeastOfInterval ==
  ASSUME NEW a \in Int, NEW b \in Int, NEW T, T \subseteq a..b, T # {}
  PROVE  \E x \in T : \A y \in T : x <= y
<1>1. IsFiniteSet(T) BY FS_Interval, FS_Subset
<1>2. T \subseteq Int OBVIOUS
<1> QED BY <1>1, <1>2, LeastElement

LEMMA GreatestOfInterval ==
  ASSUME NEW a \in Int, NEW b \in Int, NEW T, T \subseteq a..b, T # {}
  PROVE  \E x \in T : \A y \in T : y <= x
<1> DEFINE U == {-x : x \in T}
<1>1. U \subseteq (-b)..(-a) /\ U # {}
  <2>1. ASSUME NEW x \in T PROVE -x \in (-b)..(-a)
    <3>1. x \in Int /\ a <= x /\ x <= b OBVIOUS
    <3> QED BY <3>1
  <2> QED BY <2>1
<1>2. PICK u \in U : \A v \in U : u <= v
  <2> HIDE DEF U
  <2>1. -b \in Int /\ -a \in Int OBVIOUS
  <2> QED BY <1>1, <2>1, LeastOfInterval
<1>3. PICK x \in T : u = -x OBVIOUS
<1>4. ASSUME NEW y \in T PROVE y <= x
  <2>1. -y \in U OBVIOUS
  <2>2. x \in Int /\ y \in Int /\ -x <= -y BY <1>2, <1>3, <2>1
  <2> QED BY <2>2
<1> QED BY <1>4

LEMMA SizeOfInterval ==
  ASSUME NEW a \in Int, NEW b \in Int, a <= b
  PROVE  IsFiniteSet(a..b) /\ Cardinality(a..b) = b - a + 1
<1>1. Cardinality(a..b) = IF a > b THEN 0 ELSE b - a + 1 BY FS_Interval
<1>2. Cardinality(a..b) = b - a + 1 BY <1>1
<1>3. IsFiniteSet(a..b) BY FS_Interval
<1> QED BY <1>2, <1>3

LEMMA MaxIsLargest ==
    ASSUME NEW S, NEW x \in S, S \subseteq Int, \A y \in S : y <= x
    PROVE  Max(S) = x
<1> DEFINE Largest(y) == y \in S /\ \A z \in S : y >= z
<1>1. Largest(x) OBVIOUS
<1>2. ASSUME NEW y, Largest(y) PROVE y = x
  BY <1>2
<1>3. Max(S) = CHOOSE y : Largest(y) BY DEF Max
<1> HIDE DEF Largest
<1> QED BY <1>1, <1>2, <1>3
-----------------------------------------------------------------------------
(* Sums over finite sets.  MapThenSumSet takes the elements out one by one, *)
(* those that FirstOf chooses first; Sums(it, v, S) says that it does so    *)
(* for all subsets of S.                                                    *)
FirstOf(s) == CHOOSE x \in s : TRUE
Sums(it, v, S) ==
    it = [s \in SUBSET S |-> IF s = {} THEN 0 ELSE v[FirstOf(s)] + it[s \ {FirstOf(s)}]]

LEMMA SmallestSubset ==
  ASSUME NEW S, IsFiniteSet(S), NEW F, F \subseteq SUBSET S, F # {}
  PROVE  \E T \in F : \A U \in F : U \subseteq T => U = T
<1> DEFINE R == StrictSubsetOrdering(S)
<1>1. IsWellFoundedOn(R, SUBSET S)
  BY FS_StrictSubsetOrderingWellFounded, FS_FiniteSubsetsOfFinite
<1>2. \E T \in F : \A U \in F : ~ (<<U, T>> \in R)
  <2> HIDE DEF R
  <2> QED BY <1>1, WFMin, Zenon
<1>3. PICK T \in F : \A U \in F : ~ (<<U, T>> \in R) BY <1>2
<1>4. ASSUME NEW U \in F, U \subseteq T, U # T PROVE FALSE
  <2>1. <<U, T>> \in (SUBSET S) \X (SUBSET S) OBVIOUS
  <2>2. <<U, T>> \in R BY <2>1, <1>4 DEF StrictSubsetOrdering
  <2> QED BY <2>2, <1>3
<1> QED BY <1>4

LEMMA FirstIsIn == \A s : s # {} => FirstOf(s) \in s /\ s \ {FirstOf(s)} # s
  BY DEF FirstOf

LEMMA SumsAt ==
  ASSUME NEW it, NEW v, NEW S, Sums(it, v, S), NEW T, T \subseteq S
  PROVE  it[T] = IF T = {} THEN 0 ELSE v[FirstOf(T)] + it[T \ {FirstOf(T)}]
<1>1. T \in SUBSET S OBVIOUS
<1> QED BY <1>1 DEF Sums

(* A sum does not depend on the set it is a part of.                       *)
LEMMA SumsAgree ==
  ASSUME NEW f, NEW g, NEW v, NEW A, NEW B, IsFiniteSet(A),
         Sums(f, v, A), Sums(g, v, B), NEW T, T \subseteq A, T \subseteq B
  PROVE  f[T] = g[T]
<1> DEFINE F == {U \in SUBSET T : f[U] # g[U]}
<1>1. SUFFICES ASSUME F # {} PROVE FALSE OBVIOUS
<1>2. IsFiniteSet(T) BY FS_Subset
<1>3. F \subseteq SUBSET T OBVIOUS
<1>4. PICK U \in F : \A V \in F : V \subseteq U => V = U
  <2> HIDE DEF F
  <2> QED BY <1>1, <1>2, <1>3, SmallestSubset
<1> DEFINE W == U \ {FirstOf(U)}
<1>5. CASE U = {}
  <2>1. f[U] = 0 /\ g[U] = 0 BY <1>5, SumsAt
  <2> QED BY <2>1
<1>6. CASE U # {}
  <2>1. W \subseteq U /\ W # U BY <1>6, FirstIsIn
  <2>2. W \notin F BY <1>4, <2>1
  <2>3. f[W] = g[W] BY <2>1, <2>2
  <2>4. U \subseteq A /\ U \subseteq B OBVIOUS
  <2>5. f[U] = v[FirstOf(U)] + f[W] /\ g[U] = v[FirstOf(U)] + g[W]
    BY <1>6, <2>4, SumsAt
  <2> QED BY <2>3, <2>5
<1> QED BY <1>5, <1>6

(* There is one.                                                           *)
LEMMA SumsExist ==
  ASSUME NEW v, NEW S, IsFiniteSet(S)
  PROVE  \E it : Sums(it, v, S)
<1> DEFINE F == {T \in SUBSET S : ~ \E it : Sums(it, v, T)}
<1>1. SUFFICES ASSUME F # {} PROVE FALSE OBVIOUS
<1>2. F \subseteq SUBSET S OBVIOUS
<1>3. PICK T \in F : \A U \in F : U \subseteq T => U = T
  <2> HIDE DEF F
  <2> QED BY <1>1, <1>2, SmallestSubset
<1> DEFINE g(U) == CHOOSE it : Sums(it, v, U)
           it == [U \in SUBSET T |-> IF U = {} THEN 0
                       ELSE v[FirstOf(U)] + g(U \ {FirstOf(U)})[U \ {FirstOf(U)}]]
<1>4. ASSUME NEW U, U \subseteq T, U # T PROVE Sums(g(U), v, U)
  <2>1. U \notin F BY <1>3, <1>4
  <2>2. \E f : Sums(f, v, U) BY <2>1, <1>4
  <2> QED BY <2>2
<1>5. ASSUME NEW U \in SUBSET T, U # T PROVE it[U] = g(U)[U]
  <2>1. Sums(g(U), v, U) BY <1>4, <1>5
  <2>2. CASE U = {}
    <3>1. g(U)[U] = 0
      <4> HIDE DEF g
      <4> QED BY <2>1, <2>2, SumsAt
    <3>2. it[U] = 0 BY <2>2
    <3> QED BY <3>1, <3>2
  <2>3. CASE U # {}
    <3> DEFINE W == U \ {FirstOf(U)}
    <3>1. W \subseteq U /\ W \subseteq T /\ W # T BY <1>5, <2>3, FirstIsIn
    <3>2. Sums(g(W), v, W) BY <3>1, <1>4
    <3>3. g(U)[U] = v[FirstOf(U)] + g(U)[W]
      <4> HIDE DEF g
      <4> QED BY <2>1, <2>3, SumsAt
    <3>4. g(U)[W] = g(W)[W]
      <4>1. IsFiniteSet(U) BY <1>3, FS_Subset
      <4> HIDE DEF g, W
      <4> QED BY <2>1, <3>1, <3>2, <4>1, SumsAgree
    <3>5. it[U] = v[FirstOf(U)] + g(W)[W]
      <4> HIDE DEF g
      <4> QED BY <2>3
    <3> QED BY <3>3, <3>4, <3>5
  <2> QED BY <2>2, <2>3
<1>6. Sums(it, v, T)
  <2>1. ASSUME NEW U \in SUBSET T
        PROVE  it[U] = IF U = {} THEN 0 ELSE v[FirstOf(U)] + it[U \ {FirstOf(U)}]
    <3>1. CASE U = {} BY <3>1
    <3>2. CASE U # {}
      <4> DEFINE W == U \ {FirstOf(U)}
      <4>1. W \in SUBSET T /\ W # T BY <3>2, FirstIsIn
      <4>2. it[W] = g(W)[W] BY <1>5, <4>1
      <4>3. it[U] = v[FirstOf(U)] + g(W)[W]
        <5> HIDE DEF g
        <5> QED BY <3>2
      <4> QED BY <3>2, <4>2, <4>3
    <3> QED BY <3>1, <3>2
  <2>2. it = [U \in SUBSET T |-> it[U]] OBVIOUS
  <2> HIDE DEF it
  <2> QED BY <2>1, <2>2 DEF Sums
<1> QED BY <1>6

(* Taking out any one element takes its value out of the sum.              *)
LEMMA SumWithout ==
  ASSUME NEW it, NEW v, NEW S, IsFiniteSet(S), Sums(it, v, S), \A x \in S : v[x] \in Int,
         NEW y \in S
  PROVE  /\ it[S] \in Int /\ it[S \ {y}] \in Int
         /\ it[S] = it[S \ {y}] + v[y]
<1>1. \A T \in SUBSET S : it[T] \in Int
  <2> DEFINE F == {T \in SUBSET S : it[T] \notin Int}
  <2>1. SUFFICES ASSUME F # {} PROVE FALSE OBVIOUS
  <2>2. F \subseteq SUBSET S OBVIOUS
  <2>3. PICK T \in F : \A U \in F : U \subseteq T => U = T
    <3> HIDE DEF F
    <3> QED BY <2>1, <2>2, SmallestSubset
  <2> DEFINE W == T \ {FirstOf(T)}
  <2>4. T # {} /\ T \subseteq S
    <3>1. T = {} => it[T] = 0 BY SumsAt
    <3> QED BY <2>3, <3>1
  <2>5. W \subseteq S /\ W \subseteq T /\ W # T /\ FirstOf(T) \in S BY <2>4, FirstIsIn
  <2>6. it[W] \in Int BY <2>3, <2>5
  <2>7. it[T] = v[FirstOf(T)] + it[W] BY <2>4, SumsAt
  <2> QED BY <2>5, <2>6, <2>7
<1>2. \A T \in SUBSET S : \A x \in T : it[T] = it[T \ {x}] + v[x]
  <2> DEFINE F == {T \in SUBSET S : \E x \in T : it[T] # it[T \ {x}] + v[x]}
  <2>1. SUFFICES ASSUME F # {} PROVE FALSE OBVIOUS
  <2>2. F \subseteq SUBSET S OBVIOUS
  <2>3. PICK T \in F : \A U \in F : U \subseteq T => U = T
    <3> HIDE DEF F
    <3> QED BY <2>1, <2>2, SmallestSubset
  <2>4. PICK x \in T : it[T] # it[T \ {x}] + v[x] BY <2>3
  <2> DEFINE z == FirstOf(T)
  <2>5. T # {} /\ T \subseteq S /\ z \in T /\ z \in S /\ x \in S BY <2>4, FirstIsIn
  <2>6. it[T] = v[z] + it[T \ {z}] BY <2>5, SumsAt
  <2>7. v[x] \in Int /\ v[z] \in Int BY <2>5
  <2>8. CASE x = z
    <3>1. it[T \ {z}] \in Int BY <1>1, <2>5
    <3> QED BY <2>4, <2>6, <2>7, <2>8, <3>1
  <2>9. CASE x # z
    <3> DEFINE V == T \ {z}
               W == T \ {x}
               X == V \ {x}
    <3>1. V \subseteq S /\ W \subseteq S /\ X \subseteq S /\ X = W \ {z} BY <2>5
    <3>2. V \notin F /\ W \notin F BY <2>3, <2>5
    <3>3. x \in V /\ z \in W BY <2>5, <2>9
    <3>4. it[V] = it[X] + v[x] BY <3>1, <3>2, <3>3
    <3>5. it[W] = it[X] + v[z] BY <3>1, <3>2, <3>3
    <3>6. it[X] \in Int /\ it[V] \in Int /\ it[W] \in Int BY <1>1, <3>1
    <3> QED BY <2>4, <2>6, <2>7, <3>4, <3>5, <3>6
  <2> QED BY <2>8, <2>9
<1> QED BY <1>1, <1>2

(* A sum of what is not negative is not negative.                          *)
LEMMA SumNotNegative ==
  ASSUME NEW it, NEW v, NEW S, IsFiniteSet(S), Sums(it, v, S), \A x \in S : v[x] \in Nat
  PROVE  it[S] \in Nat
<1> DEFINE F == {T \in SUBSET S : it[T] \notin Nat}
<1>1. SUFFICES ASSUME F # {} PROVE FALSE OBVIOUS
<1>2. F \subseteq SUBSET S OBVIOUS
<1>3. PICK T \in F : \A U \in F : U \subseteq T => U = T
  <2> HIDE DEF F
  <2> QED BY <1>1, <1>2, SmallestSubset
<1> DEFINE W == T \ {FirstOf(T)}
<1>4. T # {} /\ T \subseteq S
  <2>1. T = {} => it[T] = 0 BY SumsAt
  <2> QED BY <1>3, <2>1
<1>5. W \subseteq S /\ W \subseteq T /\ W # T /\ FirstOf(T) \in S BY <1>4, FirstIsIn
<1>6. it[W] \in Nat BY <1>3, <1>5
<1>7. it[T] = v[FirstOf(T)] + it[W] BY <1>4, SumsAt
<1> QED BY <1>5, <1>6, <1>7

(* Only the values of the elements count.                                  *)
LEMMA SumOfEqualValues ==
  ASSUME NEW f, NEW g, NEW v, NEW w, NEW S, IsFiniteSet(S),
         Sums(f, v, S), Sums(g, w, S), \A x \in S : v[x] = w[x]
  PROVE  f[S] = g[S]
<1>1. \A s \in SUBSET S : s # {} => v[FirstOf(s)] = w[FirstOf(s)] BY FirstIsIn
<1>2. Sums(f, w, S) BY <1>1 DEF Sums
<1> QED BY <1>2, SumsAgree
=============================================================================
