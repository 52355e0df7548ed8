---------------------------- MODULE RecursionFacts ----------------------------
(***************************************************************************)
(* Induction and recursion as facts about sets: they are cited without     *)
(* giving an operator for a predicate.                                     *)
(***************************************************************************)
EXTENDS Integers, WellFoundedInduction, TLAPS

\* Every set of natural numbers has a least element.
LEMMA LeastNatural ==
  ASSUME NEW X \in SUBSET Nat, X # {}
  PROVE  \E x \in X : \A y \in X : x <= y
<1> DEFINE Less == {p \in Nat \X Nat : p[1] < p[2]}
<1>1. IsWellFoundedOn(Less, Nat)
  BY NatLessThanWellFounded DEF OpToRel
<1>2. \A y, x \in Nat : y < x => <<y, x>> \in Less
  OBVIOUS
<1> HIDE DEF Less
<1>3. PICK x \in X : \A y \in X : ~ (<<y, x>> \in Less)
  BY <1>1, WFMin
<1>4. ASSUME NEW y \in X, y < x PROVE FALSE
  BY <1>4, <1>2, <1>3
<1> QED BY <1>3, <1>4

\* A set has all natural numbers if it has each one whose predecessors it has.
LEMMA NaturalsByInduction ==
  ASSUME NEW X, \A n \in Nat : 0..(n - 1) \subseteq X => n \in X
  PROVE  Nat \subseteq X
<1>1. SUFFICES ASSUME Nat \ X # {} PROVE FALSE
  OBVIOUS
<1>2. PICK n \in Nat \ X : \A m \in Nat \ X : n <= m
  BY <1>1, LeastNatural
<1>3. 0..(n - 1) \subseteq X
  BY <1>2
<1> QED BY <1>2, <1>3

\* A definition of f[n] from the values of f for smaller numbers: step says what it makes
\* of f, and looks at smaller numbers only.
LooksBack(T, step) ==
  \A n \in Nat : \A f, g \in [Nat -> T] :
    (\A m \in 0..(n - 1) : f[m] = g[m]) => step[<<n, f>>] = step[<<n, g>>]
SolvesUpTo(step, f, n) == \A m \in 0..n : f[m] = step[<<m, f>>]

\* Solutions up to a number agree up to it.
LEMMA SolutionsUpToAgree ==
  ASSUME NEW T, NEW step, LooksBack(T, step), NEW n \in Nat,
         NEW f \in [Nat -> T], NEW g \in [Nat -> T],
         SolvesUpTo(step, f, n), SolvesUpTo(step, g, n)
  PROVE  \A m \in 0..n : f[m] = g[m]
<1> DEFINE X == {m \in Nat : m <= n => f[m] = g[m]}
<1>1. ASSUME NEW m \in Nat, 0..(m - 1) \subseteq X PROVE m \in X
  <2>1. CASE m <= n
    <3>1. \A i \in 0..(m - 1) : f[i] = g[i]
      BY <1>1, <2>1
    <3>2. step[<<m, f>>] = step[<<m, g>>]
      BY <3>1 DEF LooksBack
    <3> QED BY <2>1, <3>2 DEF SolvesUpTo
  <2> QED BY <2>1
<1>2. Nat \subseteq X
  <2> HIDE DEF X
  <2> QED BY <1>1, NaturalsByInduction
<1> QED BY <1>2

\* Such a definition has a solution: put together from those up to each number.
LEMMA NaturalsByRecursion ==
  ASSUME NEW T, T # {}, NEW step \in [Nat \X [Nat -> T] -> T], LooksBack(T, step)
  PROVE  \E f \in [Nat -> T] : \A n \in Nat : f[n] = step[<<n, f>>]
<1> DEFINE Upto(f, n) == SolvesUpTo(step, f, n)
           S(n) == CHOOSE f \in [Nat -> T] : Upto(f, n)
           X == {n \in Nat : \E f \in [Nat -> T] : Upto(f, n)}
<1>1. ASSUME NEW n \in Nat, 0..(n - 1) \subseteq X PROVE n \in X
  <2>1. \E g \in [Nat -> T] : \A m \in 0..(n - 1) : g[m] = step[<<m, g>>]
    <3>1. CASE n = 0
      <4>1. PICK t \in T : TRUE
        OBVIOUS
      <4>2. [m \in Nat |-> t] \in [Nat -> T]
        OBVIOUS
      <4>3. 0..(n - 1) = {}
        BY <3>1
      <4> QED BY <4>2, <4>3
    <3>2. CASE n # 0
      <4>1. n - 1 \in X
        BY <1>1, <3>2
      <4> QED BY <4>1 DEF SolvesUpTo
    <3> QED BY <3>1, <3>2
  <2>2. PICK g \in [Nat -> T] : \A m \in 0..(n - 1) : g[m] = step[<<m, g>>]
    BY <2>1
  <2> DEFINE f == [g EXCEPT ![n] = step[<<n, g>>]]
  <2>3. step[<<n, g>>] \in T
    OBVIOUS
  <2>4. f \in [Nat -> T] /\ f[n] = step[<<n, g>>] /\ \A m \in 0..(n - 1) : f[m] = g[m]
    BY <2>3
  <2> HIDE DEF f
  <2>5. ASSUME NEW m \in 0..n PROVE f[m] = step[<<m, f>>]
    <3>1. \A i \in 0..(m - 1) : i \in 0..(n - 1)
      OBVIOUS
    <3>2. m \in Nat /\ \A i \in 0..(m - 1) : f[i] = g[i]
      BY <3>1, <2>4
    <3>3. step[<<m, f>>] = step[<<m, g>>]
      BY <2>4, <3>2 DEF LooksBack
    <3>4. m = n \/ m \in 0..(n - 1)
      OBVIOUS
    <3> QED BY <2>2, <2>4, <3>3, <3>4
  <2>6. Upto(f, n)
    BY <2>5 DEF SolvesUpTo
  <2> QED BY <2>4, <2>6
<1>2. Nat \subseteq X
  <2> HIDE DEF X
  <2> QED BY <1>1, NaturalsByInduction
<1>3. ASSUME NEW n \in Nat PROVE S(n) \in [Nat -> T] /\ Upto(S(n), n)
  <2> HIDE DEF Upto
  <2> QED BY <1>2
<1> DEFINE F == [n \in Nat |-> S(n)[n]]
<1> HIDE DEF S
<1>4. F \in [Nat -> T] /\ \A n \in Nat : F[n] = S(n)[n]
  BY <1>3
<1>5. ASSUME NEW n \in Nat PROVE \A m \in 0..(n - 1) : F[m] = S(n)[m]
  <2> TAKE m \in 0..(n - 1)
  <2>1. m \in Nat /\ m \in 0..m
    OBVIOUS
  <2>2. Upto(S(n), m)
    <3>1. \A i \in 0..m : i \in 0..n
      OBVIOUS
    <3> QED BY <1>3, <3>1 DEF SolvesUpTo
  <2>3. \A i \in 0..m : S(m)[i] = S(n)[i]
    BY <2>1, <2>2, <1>3, SolutionsUpToAgree
  <2> QED BY <2>1, <2>3, <1>4
<1> HIDE DEF F
<1>6. ASSUME NEW n \in Nat PROVE F[n] = step[<<n, F>>]
  <2>1. n \in 0..n
    OBVIOUS
  <2>2. S(n)[n] = step[<<n, S(n)>>]
    BY <2>1, <1>3 DEF SolvesUpTo
  <2>3. step[<<n, F>>] = step[<<n, S(n)>>]
    BY <1>3, <1>4, <1>5 DEF LooksBack
  <2> QED BY <2>2, <2>3, <1>4
<1> QED BY <1>4, <1>6

\* The common case: f says a value for 0, and makes that of a number of the one before it.
Recurs(f, size, base, up) ==
  f = [n \in 0..size |-> IF n = 0 THEN base ELSE up[<<n, f[n - 1]>>]]

\* There is such a function on every initial segment of the numbers.
LEMMA PrimitiveRecursion ==
  ASSUME NEW T, NEW base \in T, NEW up \in [Nat \X T -> T], NEW size \in Nat
  PROVE  \E f \in [0..size -> T] : Recurs(f, size, base, up)
<1> DEFINE step == [p \in Nat \X [Nat -> T] |->
                      IF p[1] = 0 THEN base ELSE up[<<p[1], p[2][p[1] - 1]>>]]
<1>1. \A n \in Nat : \A f \in [Nat -> T] :
        step[<<n, f>>] = IF n = 0 THEN base ELSE up[<<n, f[n - 1]>>]
  OBVIOUS
<1>2. step \in [Nat \X [Nat -> T] -> T]
  <2>1. ASSUME NEW n \in Nat, NEW f \in [Nat -> T], n # 0
        PROVE  up[<<n, f[n - 1]>>] \in T
    <3>1. f[n - 1] \in T
      BY <2>1
    <3>2. <<n, f[n - 1]>> \in Nat \X T
      BY <3>1
    <3> QED BY <3>2, Zenon
  <2> QED BY <2>1
<1> HIDE DEF step
<1>3. LooksBack(T, step)
  <2> SUFFICES ASSUME NEW n \in Nat, NEW f \in [Nat -> T], NEW g \in [Nat -> T],
                      \A m \in 0..(n - 1) : f[m] = g[m]
               PROVE  step[<<n, f>>] = step[<<n, g>>]
    BY DEF LooksBack
  <2>1. n # 0 => n - 1 \in 0..(n - 1)
    OBVIOUS
  <2>2. n # 0 => f[n - 1] = g[n - 1]
    BY <2>1
  <2> QED BY <1>1, <2>2, Zenon
<1>4. PICK f \in [Nat -> T] : \A n \in Nat : f[n] = step[<<n, f>>]
  BY <1>2, <1>3, NaturalsByRecursion
<1> DEFINE g == [n \in 0..size |-> f[n]]
<1>5. \A n \in 0..size : f[n] = IF n = 0 THEN base ELSE up[<<n, f[n - 1]>>]
  <2> SUFFICES ASSUME NEW n \in 0..size
               PROVE  f[n] = IF n = 0 THEN base ELSE up[<<n, f[n - 1]>>]
    OBVIOUS
  <2>1. n \in Nat
    OBVIOUS
  <2> QED BY <1>1, <1>4, <2>1, Zenon
<1>6. \A n \in 0..size : n # 0 => n - 1 \in 0..size
  OBVIOUS
<1>7. g \in [0..size -> T] /\ \A n \in 0..size : g[n] = f[n]
  OBVIOUS
<1> HIDE DEF g
<1>8. \A n \in 0..size : f[n] = IF n = 0 THEN base ELSE up[<<n, g[n - 1]>>]
  BY <1>5, <1>6, <1>7
<1>9. g = [n \in 0..size |-> IF n = 0 THEN base ELSE up[<<n, g[n - 1]>>]]
  <2>1. [n \in 0..size |-> f[n]] =
        [n \in 0..size |-> IF n = 0 THEN base ELSE up[<<n, g[n - 1]>>]]
    BY <1>8
  <2> QED BY <2>1 DEF g
<1> QED BY <1>7, <1>9 DEF Recurs

------------------------------------------------------------------------------
(***************************************************************************)
(* Sets defined by well-founded recursion.                                 *)
(***************************************************************************)
\* K is the set of keys, refs says which keys the
\* definition of a key refers to, and <<key, members>> \in defined says that the definition
\* of key holds if members are the keys whose definitions hold.
\* members solves the definitions of the keys in domain, which refer to no others.
PartialSolution(K, refs, defined, domain, members) ==
  /\ domain \in SUBSET K /\ members \in SUBSET domain
  /\ \A k \in domain : refs[k] \subseteq domain
  /\ \A k \in domain : k \in members <=> <<k, members>> \in defined

\* A definition depends on the keys it refers to only; every set of keys has one that
\* refers to none of the set.
DependsOnRefs(K, refs, defined) ==
  \A k \in K : \A a, b \in SUBSET K :
    a \cap refs[k] = b \cap refs[k] => (<<k, a>> \in defined <=> <<k, b>> \in defined)
WellFounded(K, refs) == \A X \in SUBSET K : X # {} => \E k \in X : refs[k] \cap X = {}

\* Two solutions agree on the keys that both are about: there would be a first key that
\* they do not agree on.
LEMMA SolutionsAgree ==
  ASSUME NEW K, NEW refs, NEW defined,
         DependsOnRefs(K, refs, defined), WellFounded(K, refs),
         NEW D, NEW M, PartialSolution(K, refs, defined, D, M),
         NEW E, NEW N, PartialSolution(K, refs, defined, E, N)
  PROVE  \A k \in D \cap E : k \in M <=> k \in N
<1> DEFINE X == {k \in D \cap E : ~(k \in M <=> k \in N)}
<1>1. SUFFICES ASSUME X # {} PROVE FALSE
  OBVIOUS
<1>2. X \in SUBSET K
  BY DEF PartialSolution
<1>3. PICK k \in X : refs[k] \cap X = {}
  BY <1>1, <1>2 DEF WellFounded
<1>4. refs[k] \subseteq D \cap E
  BY <1>3 DEF PartialSolution
<1>5. \A j \in refs[k] : j \in M <=> j \in N
  BY <1>3, <1>4
<1>6. M \cap refs[k] = N \cap refs[k]
  BY <1>5
<1>7. M \in SUBSET K /\ N \in SUBSET K /\ k \in K
  BY <1>2, <1>3 DEF PartialSolution
<1>8. <<k, M>> \in defined <=> <<k, N>> \in defined
  BY <1>6, <1>7 DEF DependsOnRefs
<1> QED BY <1>3, <1>8 DEF PartialSolution

\* There is a solution for all keys: the union of all partial ones, which can be extended
\* by any key whose references it covers.
LEMMA SolutionExists ==
  ASSUME NEW K, NEW refs, NEW defined,
         \A k \in K : refs[k] \subseteq K,
         DependsOnRefs(K, refs, defined), WellFounded(K, refs)
  PROVE  \E M \in SUBSET K : \A k \in K : k \in M <=> <<k, M>> \in defined
<1> DEFINE P(D, M) == PartialSolution(K, refs, defined, D, M)
<1>0. ASSUME NEW D, NEW M, P(D, M), NEW E, NEW N, P(E, N)
      PROVE  \A j \in D \cap E : j \in M <=> j \in N
  BY <1>0, SolutionsAgree
<1> DEFINE U == {k \in K : \E D, M \in SUBSET K : P(D, M) /\ k \in D}
           V == {k \in K : \E D, M \in SUBSET K : P(D, M) /\ k \in M}
<1>1. ASSUME NEW D \in SUBSET K, NEW M \in SUBSET K, P(D, M)
      PROVE  D \subseteq U /\ V \cap D = M
  <2>1. D \subseteq U
    BY <1>1
  <2>2. M \subseteq V /\ M \subseteq D
    BY <1>1 DEF PartialSolution
  <2>3. ASSUME NEW k \in V \cap D PROVE k \in M
    <3>1. PICK E, N \in SUBSET K : P(E, N) /\ k \in N
      BY <2>3
    <3>2. k \in E
      BY <3>1 DEF PartialSolution
    <3>3. \A j \in D \cap E : j \in M <=> j \in N
      BY <1>0, <1>1, <3>1
    <3> QED BY <2>3, <3>1, <3>2, <3>3
  <2> QED BY <2>1, <2>2, <2>3
<1>2. P(U, V)
  <2>1. U \in SUBSET K
    OBVIOUS
  <2>2. V \in SUBSET U
    BY DEF PartialSolution
  <2>3. ASSUME NEW k \in U
        PROVE  refs[k] \subseteq U /\ (k \in V <=> <<k, V>> \in defined)
    <3>1. PICK D, M \in SUBSET K : P(D, M) /\ k \in D
      BY <2>3
    <3>2. refs[k] \subseteq D /\ (k \in M <=> <<k, M>> \in defined)
      BY <3>1 DEF PartialSolution
    <3>3. D \subseteq U /\ V \cap D = M
      BY <1>1, <3>1
    <3>4. V \cap refs[k] = M \cap refs[k]
      BY <3>2, <3>3
    <3>5. <<k, V>> \in defined <=> <<k, M>> \in defined
      <4>1. V \in SUBSET K /\ M \in SUBSET K /\ k \in K
        BY <2>1, <2>2, <2>3, <3>1
      <4> HIDE DEF U, V
      <4> QED BY <3>4, <4>1 DEF DependsOnRefs
    <3> QED BY <3>1, <3>2, <3>3, <3>5
  <2> HIDE DEF U, V
  <2> QED BY <2>1, <2>2, <2>3 DEF PartialSolution
<1>3. ASSUME U # K PROVE FALSE
  <2> DEFINE X == K \ U
  <2>1. X \in SUBSET K /\ X # {}
    BY <1>2, <1>3 DEF PartialSolution
  <2>2. PICK k \in X : refs[k] \cap X = {}
    BY <2>1 DEF WellFounded
  <2>3. refs[k] \subseteq U /\ k \in K /\ k \notin U
    BY <2>2
  <2> DEFINE D == U \cup {k}
             M == V \cup {j \in {k} : <<k, V>> \in defined}
  <2>4. D \in SUBSET K /\ M \in SUBSET D /\ V \in SUBSET K /\ M \in SUBSET K
    BY <1>2, <2>3 DEF PartialSolution
  <2>5. \A j \in D : refs[j] \subseteq U
    BY <1>2, <2>3 DEF PartialSolution
  <2>6. ASSUME NEW j \in D PROVE j \in M <=> <<j, M>> \in defined
    <3>1. M \cap refs[j] = V \cap refs[j]
      BY <2>3, <2>5, <2>6
    <3>2. <<j, M>> \in defined <=> <<j, V>> \in defined
      <4>1. j \in K
        BY <2>4, <2>6
      <4> HIDE DEF D, M, U, V
      <4> QED BY <4>1, <3>1, <2>4 DEF DependsOnRefs
    <3>3. CASE j = k
      <4>1. k \notin V
        BY <1>2, <2>3 DEF PartialSolution
      <4> QED BY <3>2, <3>3, <4>1
    <3>4. CASE j # k
      <4>1. j \in U
        BY <3>4, <2>6
      <4>2. j \in V <=> <<j, V>> \in defined
        BY <1>2, <4>1 DEF PartialSolution
      <4> QED BY <3>2, <3>4, <4>2
    <3> QED BY <3>3, <3>4
  <2> HIDE DEF U, V, X
  <2>7. P(D, M)
    <3>1. \A j \in D : refs[j] \subseteq D
      BY <2>5
    <3> HIDE DEF D, M
    <3> QED BY <3>1, <2>4, <2>6 DEF PartialSolution
  <2>8. k \in U
    <3>1. k \in D
      OBVIOUS
    <3> HIDE DEF D, M
    <3> QED BY <3>1, <2>3, <2>4, <2>7 DEF U
  <2> QED BY <2>3, <2>8
<1> HIDE DEF U, V
<1> QED BY <1>2, <1>3 DEF PartialSolution
==============================================================================
