---------------------------- MODULE BucketingProofs ----------------------------
(***************************************************************************)
(* Rollouts and experiments keep their promises, whatever their variations *)
(* and weights, the contexts, the scale of the weights and the hash.       *)
(***************************************************************************)
EXTENDS BucketingProperties, FiniteSetTheorems, SequenceTheorems, RecursionFacts

Sum(variations) == CumulativeWeight(variations)

------------------------------------------------------------------------------
(***************************************************************************)
(* Sums of weights.                                                        *)
(***************************************************************************)
SumStep(variations, f, n) == IF n = 0 THEN 0 ELSE f[n - 1] + variations[n].weight

\* A rollout's weights are numbers.
LEMMA WeightTypes ==
  ASSUME NEW variations \in Seq(WeightedVariation)
  PROVE  /\ Len(variations) \in Nat /\ DOMAIN variations = 1..Len(variations)
         /\ \A n \in 1..Len(variations) :
              variations[n].weight \in Nat /\ variations[n].variation \in Int
<1>1. \A n \in 1..Len(variations) : variations[n] \in WeightedVariation
  BY ElementOfSeq
<1> QED BY <1>1, LenProperties DEF WeightedVariation

\* The sums are those that the recursion says.
LEMMA SumsAreDefined ==
  ASSUME NEW variations \in Seq(WeightedVariation)
  PROVE  /\ Sum(variations) \in [0..Len(variations) -> Nat]
         /\ Sum(variations)[0] = 0
         /\ \A n \in 1..Len(variations) :
              Sum(variations)[n] = Sum(variations)[n - 1] + variations[n].weight
<1> DEFINE size == Len(variations)
           w == [n \in Nat |-> IF n \in 1..size THEN variations[n].weight ELSE 0]
           step == [p \in Nat \X [Nat -> Nat] |->
                      IF p[1] = 0 THEN 0 ELSE p[2][p[1] - 1] + w[p[1]]]
           D == 0..size
<1>1. size \in Nat /\ \A n \in 1..size : variations[n].weight \in Nat
  BY WeightTypes
<1>2. w \in [Nat -> Nat]
  BY <1>1
<1>3. \A n \in 1..size : w[n] = variations[n].weight
  BY <1>1
<1> HIDE DEF w, size
<1>4. \A n \in Nat : \A f \in [Nat -> Nat] :
        step[<<n, f>>] = IF n = 0 THEN 0 ELSE f[n - 1] + w[n]
  OBVIOUS
<1>5. step \in [Nat \X [Nat -> Nat] -> Nat]
  <2>1. \A n \in Nat : \A f \in [Nat -> Nat] :
          (IF n = 0 THEN 0 ELSE f[n - 1] + w[n]) \in Nat
    <3> TAKE n \in Nat
    <3> TAKE f \in [Nat -> Nat]
    <3>1. n # 0 => n - 1 \in Nat
      OBVIOUS
    <3>2. n # 0 => f[n - 1] \in Nat
      BY <3>1
    <3>3. w[n] \in Nat
      BY <1>2
    <3>4. \A a, b \in Nat : a + b \in Nat
      OBVIOUS
    <3>5. n # 0 => f[n - 1] + w[n] \in Nat
      BY <3>2, <3>3, <3>4, Zenon
    <3>6. 0 \in Nat
      OBVIOUS
    <3> QED BY <3>5, <3>6, Zenon
  <2>2. \A p \in Nat \X [Nat -> Nat] : p[1] \in Nat /\ p[2] \in [Nat -> Nat]
    OBVIOUS
  <2>3. \A p \in Nat \X [Nat -> Nat] :
          (IF p[1] = 0 THEN 0 ELSE p[2][p[1] - 1] + w[p[1]]) \in Nat
    BY <2>1, <2>2
  <2> QED BY <2>3
<1> HIDE DEF step
<1>6. LooksBack(Nat, step)
  <2>1. SUFFICES ASSUME NEW n \in Nat, NEW f \in [Nat -> Nat], NEW g \in [Nat -> Nat],
                        \A m \in 0..(n - 1) : f[m] = g[m]
                 PROVE  step[<<n, f>>] = step[<<n, g>>]
    BY DEF LooksBack
  <2>2. n # 0 => f[n - 1] = g[n - 1]
    BY <2>1
  <2> QED BY <1>4, <2>2
<1>7. PICK f \in [Nat -> Nat] : \A n \in Nat : f[n] = step[<<n, f>>]
  BY <1>5, <1>6, NaturalsByRecursion
<1> DEFINE g == [n \in D |-> f[n]]
<1>8. g = [n \in D |-> SumStep(variations, g, n)]
  <2>1. ASSUME NEW n \in D PROVE f[n] = SumStep(variations, g, n)
    <3>1. n \in Nat
      BY <1>1
    <3>2. n # 0 => n - 1 \in D /\ n \in 1..size
      <4>1. \A a \in Nat : \A i \in 0..a : i # 0 => i - 1 \in 0..a /\ i \in 1..a
        OBVIOUS
      <4> QED BY <1>1, <2>1, <4>1
    <3>3. f[n] = IF n = 0 THEN 0 ELSE f[n - 1] + w[n]
      BY <1>4, <1>7, <3>1
    <3>4. CASE n = 0
      BY <3>3, <3>4 DEF SumStep
    <3>5. CASE n # 0
      BY <1>3, <3>2, <3>3, <3>5 DEF SumStep
    <3> QED BY <3>4, <3>5
  <2> QED BY <2>1
<1> HIDE DEF g
<1>9. Sum(variations) = CHOOSE s : s = [n \in D |-> SumStep(variations, s, n)]
  BY DEF Sum, CumulativeWeight, SumStep, size
<1>10. Sum(variations) = [n \in D |-> SumStep(variations, Sum(variations), n)]
  BY <1>8, <1>9
<1> DEFINE s == Sum(variations)
<1> HIDE DEF s
<1>11. s[0] = 0
  BY <1>1, <1>10 DEF SumStep, s
<1>12. ASSUME NEW n \in 1..size PROVE s[n] = s[n - 1] + variations[n].weight
  <2>1. n \in D /\ n # 0
    BY <1>1
  <2> QED BY <1>10, <2>1 DEF SumStep, s
<1> DEFINE X == {n \in Nat : n <= size => s[n] \in Nat}
<1>13. ASSUME NEW n \in Nat, 0..(n - 1) \subseteq X PROVE n \in X
  <2>1. CASE n = 0
    BY <2>1, <1>11
  <2>2. CASE n # 0 /\ n <= size
    <3>1. n - 1 \in 0..(n - 1) /\ n \in 1..size /\ n - 1 <= size
      BY <1>1, <2>2
    <3>2. s[n - 1] \in Nat
      BY <1>13, <3>1
    <3>3. s[n] = s[n - 1] + variations[n].weight /\ variations[n].weight \in Nat
      BY <1>1, <1>12, <3>1
    <3>4. s[n] \in Nat
      <4>1. \A a, b \in Nat : a + b \in Nat
        OBVIOUS
      <4> QED BY <3>2, <3>3, <4>1, Zenon
    <3> QED BY <3>4
  <2>3. CASE n # 0 /\ ~(n <= size)
    BY <2>3
  <2> QED BY <2>1, <2>2, <2>3
<1>14. Nat \subseteq X
  <2> HIDE DEF X
  <2> QED BY <1>13, NaturalsByInduction
<1>15. \A n \in D : s[n] \in Nat
  BY <1>1, <1>14
<1>16. s \in [D -> Nat]
  BY <1>10, <1>15 DEF s
<1> QED BY <1>11, <1>12, <1>16 DEF s, size

\* They grow from one variation to the next.
LEMMA SumsGrow ==
  ASSUME NEW variations \in Seq(WeightedVariation),
         NEW n \in 0..Len(variations), NEW m \in 0..n
  PROVE  Sum(variations)[m] <= Sum(variations)[n]
<1> DEFINE s == Sum(variations)
           size == Len(variations)
           X == {k \in Nat : k <= size /\ m <= k => s[m] <= s[k]}
<1>1. size \in Nat /\ (\A k \in 1..size : variations[k].weight \in Nat)
  BY WeightTypes
<1>2. /\ s \in [0..size -> Nat]
      /\ \A k \in 1..size : s[k] = s[k - 1] + variations[k].weight
  BY SumsAreDefined
<1> HIDE DEF s, size
<1>3. m \in 0..size /\ s[m] \in Nat
  BY <1>1, <1>2 DEF size
<1>4. ASSUME NEW k \in Nat, 0..(k - 1) \subseteq X PROVE k \in X
  <2>1. SUFFICES ASSUME k <= size, m <= k PROVE s[m] <= s[k]
    OBVIOUS
  <2>2. CASE m = k
    BY <1>3, <2>2
  <2>3. CASE m # k
    <3>1. k - 1 \in 0..size /\ k \in 1..size /\ m <= k - 1
      BY <1>1, <2>1, <2>3
    <3>2. k - 1 \in X
      BY <1>4, <3>1
    <3>3. s[m] <= s[k - 1]
      BY <1>1, <3>1, <3>2
    <3>4. s[k - 1] \in Nat /\ variations[k].weight \in Nat
      BY <1>1, <1>2, <3>1
    <3> QED BY <1>2, <1>3, <3>1, <3>3, <3>4
  <2> QED BY <2>2, <2>3
<1>5. Nat \subseteq X
  <2> HIDE DEF X
  <2> QED BY <1>4, NaturalsByInduction
<1>6. n \in X /\ n <= size /\ m <= n
  BY <1>1, <1>5 DEF size
<1> QED BY <1>6 DEF s

------------------------------------------------------------------------------
(***************************************************************************)
(* The variation of a bucket.                                              *)
(***************************************************************************)
\* A bucket lies before the sum at its position and not before the one in front of it; it
\* has no position if it lies behind all sums.
LEMMA PositionHolds ==
  ASSUME NEW variations \in Seq(WeightedVariation), NEW b \in Nat
  PROVE  LET p == BucketPosition(variations, b)
         IN  \/ p = 0 /\ \A n \in 1..Len(variations) : Sum(variations)[n] <= b
             \/ /\ p \in 1..Len(variations)
                /\ b < Sum(variations)[p]
                /\ Sum(variations)[p - 1] <= b
<1> DEFINE s == Sum(variations)
           size == Len(variations)
           inside == {n \in DOMAIN variations : b < s[n]}
           p == BucketPosition(variations, b)
<1>1. size \in Nat /\ DOMAIN variations = 1..size
  BY WeightTypes
<1>2. s \in [0..size -> Nat] /\ s[0] = 0
  BY SumsAreDefined
<1>3. p = IF inside = {} THEN 0 ELSE CHOOSE n \in inside : \A m \in inside : n <= m
  BY DEF BucketPosition, Sum
<1> HIDE DEF s, size, p
<1>4. CASE inside = {}
  BY <1>1, <1>2, <1>3, <1>4 DEF s, size, p
<1>5. CASE inside # {}
  <2>1. inside \in SUBSET Nat
    BY <1>1
  <2>2. \E n \in inside : \A m \in inside : n <= m
    <3> HIDE DEF inside
    <3> QED BY <1>5, <2>1, LeastNatural
  <2>3. p \in inside /\ \A m \in inside : p <= m
    <3> HIDE DEF inside
    <3> QED BY <1>3, <1>5, <2>2
  <2>4. p \in 1..size /\ b < s[p]
    BY <1>1, <2>3
  <2>5. s[p - 1] <= b
    <3>1. CASE p = 1
      BY <1>2, <3>1
    <3>2. CASE p # 1
      <4>1. p - 1 \in 1..size /\ p - 1 \in 0..size /\ ~(p <= p - 1)
        BY <1>1, <2>4, <3>2
      <4>2. ~(b < s[p - 1])
        BY <1>1, <2>3, <4>1
      <4> QED BY <1>2, <4>1, <4>2
    <3> QED BY <3>1, <3>2
  <2> QED BY <2>4, <2>5 DEF s, size, p
<1> QED BY <1>4, <1>5

\* The place of a bucket in the list of variations: the last one takes what is left over.
Place(variations, b) ==
  IF BucketPosition(variations, b) = 0 THEN Len(variations) ELSE BucketPosition(variations, b)

\* It is where the sums say.
LEMMA PlaceHolds ==
  ASSUME NEW variations \in Seq(WeightedVariation), variations # <<>>, NEW b \in Nat
  PROVE  /\ Place(variations, b) \in 1..Len(variations)
         /\ \A i \in 1..(Len(variations) - 1) :
              Place(variations, b) = i <=> Sum(variations)[i - 1] <= b /\ b < Sum(variations)[i]
         /\ Place(variations, b) = Len(variations) <=> Sum(variations)[Len(variations) - 1] <= b
<1> DEFINE s == Sum(variations)
           size == Len(variations)
           p == BucketPosition(variations, b)
<1>1. size \in Nat /\ size # 0
  BY WeightTypes, EmptySeq
<1>2. s \in [0..size -> Nat]
  BY SumsAreDefined
<1>3. \A n \in 0..size : \A m \in 0..n : s[m] <= s[n]
  BY SumsGrow
<1>4. \/ p = 0 /\ \A n \in 1..size : s[n] <= b
      \/ p \in 1..size /\ b < s[p] /\ s[p - 1] <= b
  BY PositionHolds
<1> HIDE DEF s, size, p
<1>5. Place(variations, b) = IF p = 0 THEN size ELSE p
  BY DEF Place, p, size
<1>6. ASSUME NEW i \in 1..size, p # 0, i < p PROVE s[i] <= b
  <2>1. p \in 1..size /\ p - 1 \in 0..size /\ i \in 0..(p - 1)
    BY <1>1, <1>4, <1>6
  <2>2. s[i] <= s[p - 1] /\ s[p - 1] <= b
    BY <1>3, <1>4, <1>6, <2>1
  <2>3. s[i] \in Nat /\ s[p - 1] \in Nat
    BY <1>1, <1>2, <2>1
  <2> QED BY <2>2, <2>3
<1>7. ASSUME NEW i \in 1..size, p # 0, p < i PROVE b < s[i - 1]
  <2>1. p \in 1..size /\ i - 1 \in 0..size /\ p \in 0..(i - 1)
    BY <1>1, <1>4, <1>7
  <2>2. s[p] <= s[i - 1] /\ b < s[p]
    BY <1>3, <1>4, <1>7, <2>1
  <2>3. s[p] \in Nat /\ s[i - 1] \in Nat
    BY <1>1, <1>2, <2>1
  <2> QED BY <2>2, <2>3
<1>8. ASSUME NEW i \in 1..(size - 1)
      PROVE  Place(variations, b) = i <=> s[i - 1] <= b /\ b < s[i]
  <2>1. i \in 1..size /\ i # size /\ i - 1 \in 0..size /\ i \in 0..size
    BY <1>1
  <2>2. s[i] \in Nat /\ s[i - 1] \in Nat
    BY <1>2, <2>1
  <2>3. CASE p = 0
    BY <1>4, <1>5, <2>1, <2>2, <2>3
  <2>4. CASE p = i
    BY <1>4, <1>5, <2>1, <2>4
  <2>5. CASE p # 0 /\ p < i
    BY <1>5, <1>7, <2>1, <2>2, <2>5
  <2>6. CASE p # 0 /\ i < p
    BY <1>5, <1>6, <2>1, <2>2, <2>6
  <2> QED BY <1>4, <2>1, <2>3, <2>4, <2>5, <2>6
<1>9. Place(variations, b) = size <=> s[size - 1] <= b
  <2>1. size \in 1..size /\ size - 1 \in 0..size
    BY <1>1
  <2>2. s[size - 1] \in Nat /\ s[size] \in Nat /\ s[size - 1] <= s[size]
    <3>1. size \in 0..size /\ size - 1 \in 0..size
      BY <1>1
    <3> QED BY <1>2, <1>3, <3>1
  <2>3. CASE p = 0
    BY <1>4, <1>5, <2>1, <2>2, <2>3
  <2>4. CASE p = size
    BY <1>1, <1>4, <1>5, <2>4
  <2>5. CASE p # 0 /\ p < size
    BY <1>5, <1>7, <2>1, <2>2, <2>5
  <2> QED BY <1>1, <1>4, <2>3, <2>4, <2>5
<1>10. Place(variations, b) \in 1..size
  BY <1>1, <1>4, <1>5
<1> QED BY <1>8, <1>9, <1>10 DEF s, size

\* The contexts in a bucket get the variation at its place.
LEMMA BucketsGetTheirPlace ==
  ASSUME NEW r \in Rollouts, r.variations # <<>>, NEW b \in 0..WeightScale
  PROVE  InBucket(r, b) = r.variations[Place(r.variations, b)].variation
<1> DEFINE k == ByKeyOnly(r)
           c == Population[b]
<1>1. r \in Rollout
  BY RolloutsAssumption
<1>2. k.variations = r.variations
  BY <1>1 DEF ByKeyOnly, Rollout
<1>3. BucketOf(k, c).bucket = b /\ BucketOf(k, c).err = NoError
  <2>1. BucketOf(k, c) = [bucket |-> b, problem |-> "", err |-> NoError]
    BY PopulationAssumption, Zenon
  <2>2. [bucket |-> b, problem |-> "", err |-> NoError].bucket = b
    OBVIOUS
  <2>3. [bucket |-> b, problem |-> "", err |-> NoError].err = NoError
    OBVIOUS
  <2> QED BY <2>1, <2>2, <2>3, Zenon
<1> HIDE DEF k, c
<1>4. InBucket(r, b) =
        VariationOrRolloutResult([variation |-> <<>>, rollout |-> k], c, RolloutFlag,
                                 RolloutSalt).variation
  BY DEF InBucket, Assigned, k, c
<1>5. BucketOf(k, c) = ComputeBucketValue(c, IsExperimentRollout(k), k.seed, k.contextKind,
                                          RolloutFlag, k.bucketBy, RolloutSalt)
  BY DEF BucketOf
<1> QED BY <1>2, <1>3, <1>4, <1>5
        DEF VariationOrRolloutResult, Place, VariationChosen, IsDefined

------------------------------------------------------------------------------
(***************************************************************************)
(* The promises.                                                           *)
(***************************************************************************)
BucketingInv ==
  /\ rollout \in Rollouts /\ context \in RolloutContexts
  /\ assigned # <<>> => assigned = <<Assigned(rollout, context, RolloutFlag)>>

\* A behaviour is about one rollout and one context.
LEMMA RolloutsStayPut == Spec => []BucketingInv
<1>1. Init => BucketingInv
  BY DEF Init, BucketingInv
<1>2. BucketingInv /\ [Next]_rolloutVars => BucketingInv'
  BY DEF BucketingInv, Next, Assign, rolloutVars, Assigned
<1> QED BY <1>1, <1>2, PTL DEF Spec

\* Different variations are in different places.
LEMMA VariationsOfBuckets ==
  ASSUME NEW r \in Rollouts, IsPartition(r), NEW i \in 1..Len(r.variations),
         NEW b \in 0..WeightScale
  PROVE  InBucket(r, b) = r.variations[i].variation <=> Place(r.variations, b) = i
<1> DEFINE p == Place(r.variations, b)
<1>1. r.variations \in Seq(WeightedVariation) /\ r.variations # <<>>
  BY RolloutsAssumption DEF Rollout, IsPartition
<1>2. DOMAIN r.variations = 1..Len(r.variations)
  BY <1>1, WeightTypes
<1>3. b \in Nat
  BY BucketingAssumption
<1>4. p \in 1..Len(r.variations)
  BY <1>1, <1>3, PlaceHolds
<1>5. InBucket(r, b) = r.variations[p].variation
  BY <1>1, BucketsGetTheirPlace
<1> HIDE DEF p
<1>6. r.variations[i].variation = r.variations[p].variation => i = p
  BY <1>2, <1>4 DEF IsPartition
<1> QED BY <1>5, <1>6 DEF p

\* So each has as many buckets as lie between two sums.
LEMMA SharesAreWeights ==
  ASSUME NEW r \in Rollouts, IsPartition(r)
  PROVE  LET n == Len(r.variations)
         IN  /\ \A i \in 1..(n - 1) :
                  Share(r, r.variations[i].variation) = r.variations[i].weight
             /\ Share(r, r.variations[n].variation) = WeightScale - TotalBefore(r, n)
<1> DEFINE vs == r.variations
           n == Len(vs)
           s == Sum(vs)
           U(v) == {b \in 0..(WeightScale - 1) : InBucket(r, b) = v}
<1>1. vs \in Seq(WeightedVariation) /\ vs # <<>>
  BY RolloutsAssumption DEF Rollout, IsPartition
<1>2. n \in Nat /\ n # 0 /\ \A i \in 1..n : vs[i].weight \in Nat
  BY <1>1, WeightTypes, EmptySeq
<1>3. /\ s \in [0..n -> Nat] /\ s[0] = 0
      /\ \A i \in 1..n : s[i] = s[i - 1] + vs[i].weight
  BY <1>1, SumsAreDefined
<1>4. \A k \in 0..n : \A m \in 0..k : s[m] <= s[k]
  BY <1>1, SumsGrow
<1>5. WeightScale \in Nat /\ WeightScale # 0
  BY BucketingAssumption
<1>6. s[n - 1] <= WeightScale
  BY DEF IsPartition, TotalBefore, Sum
<1>7. \A b \in 0..(WeightScale - 1) : b \in Nat /\ b \in 0..WeightScale
  BY <1>5
<1>8. ASSUME NEW i \in 1..n, NEW b \in 0..(WeightScale - 1)
      PROVE  InBucket(r, b) = vs[i].variation <=> Place(vs, b) = i
  BY <1>7, VariationsOfBuckets
<1>9. ASSUME NEW b \in 0..(WeightScale - 1)
      PROVE  /\ \A i \in 1..(n - 1) : Place(vs, b) = i <=> s[i - 1] <= b /\ b < s[i]
             /\ Place(vs, b) = n <=> s[n - 1] <= b
  <2>1. b \in Nat
    BY <1>7
  <2> QED BY <2>1, <1>1, PlaceHolds
<1>10. \A v : Share(r, v) = Cardinality(U(v))
  BY DEF Share
<1>11. TotalBefore(r, n) = s[n - 1]
  BY DEF TotalBefore, Sum
<1> HIDE DEF vs, n, s, U
<1>12. ASSUME NEW i \in 1..(n - 1)
       PROVE  Share(r, vs[i].variation) = vs[i].weight
  <2>1. /\ i \in 1..n /\ i \in 0..n /\ i - 1 \in 0..n /\ n - 1 \in 0..n /\ i \in 0..(n - 1)
    BY <1>2
  <2>2. /\ s[i] \in Nat /\ s[i - 1] \in Nat /\ s[n - 1] \in Nat
        /\ vs[i].weight \in Nat /\ s[i] = s[i - 1] + vs[i].weight
    BY <1>2, <1>3, <2>1
  <2>3. s[i] <= s[n - 1] /\ s[n - 1] <= WeightScale
    BY <1>4, <1>6, <2>1
  <2>4. s[i] <= WeightScale
    BY <1>5, <2>2, <2>3
  <2>5. ASSUME NEW b \in 0..(WeightScale - 1)
        PROVE  InBucket(r, b) = vs[i].variation <=> s[i - 1] <= b /\ b < s[i]
    BY <1>8, <1>9, <2>1
  <2>6. U(vs[i].variation) = s[i - 1]..(s[i] - 1)
    <3>1. U(vs[i].variation) = {b \in 0..(WeightScale - 1) : s[i - 1] <= b /\ b < s[i]}
      BY <2>5 DEF U
    <3>2. \A x, y, z \in Nat :
            y <= z => {b \in 0..(z - 1) : x <= b /\ b < y} = x..(y - 1)
      OBVIOUS
    <3> QED BY <1>5, <2>2, <2>4, <3>1, <3>2
  <2>7. Cardinality(s[i - 1]..(s[i] - 1)) = vs[i].weight
    <3>1. \A x, w \in Nat : /\ x \in Int /\ (x + w) - 1 \in Int
                            /\ (IF x > (x + w) - 1 THEN 0 ELSE ((x + w) - 1) - x + 1) = w
      OBVIOUS
    <3>2. ASSUME NEW x \in Nat, NEW w \in Nat PROVE Cardinality(x..((x + w) - 1)) = w
      <4>1. /\ x \in Int /\ (x + w) - 1 \in Int
            /\ (IF x > (x + w) - 1 THEN 0 ELSE ((x + w) - 1) - x + 1) = w
        BY <3>1
      <4>2. Cardinality(x..((x + w) - 1))
              = IF x > (x + w) - 1 THEN 0 ELSE ((x + w) - 1) - x + 1
        BY <4>1, FS_Interval
      <4> QED BY <4>1, <4>2
    <3>3. PICK x \in Nat, w \in Nat :
            x = s[i - 1] /\ w = vs[i].weight /\ s[i] = x + w
      BY <2>2
    <3>4. Cardinality(x..((x + w) - 1)) = w
      BY <3>2
    <3> QED BY <3>3, <3>4, Zenon
  <2> QED BY <1>10, <2>6, <2>7
<1>13. Share(r, vs[n].variation) = WeightScale - s[n - 1]
  <2>1. n \in 1..n /\ n - 1 \in 0..n
    BY <1>2
  <2>2. s[n - 1] \in Nat
    BY <1>3, <2>1
  <2>3. ASSUME NEW b \in 0..(WeightScale - 1)
        PROVE  InBucket(r, b) = vs[n].variation <=> s[n - 1] <= b
    BY <1>8, <1>9, <2>1
  <2>4. U(vs[n].variation) = s[n - 1]..(WeightScale - 1)
    <3>1. U(vs[n].variation) = {b \in 0..(WeightScale - 1) : s[n - 1] <= b}
      BY <2>3 DEF U
    <3>2. \A x, z \in Nat : {b \in 0..(z - 1) : x <= b} = x..(z - 1)
      OBVIOUS
    <3> QED BY <1>5, <2>2, <3>1, <3>2
  <2>5. \A x, z \in Nat :
          x <= z => /\ x \in Int /\ z - 1 \in Int
                    /\ (IF x > z - 1 THEN 0 ELSE (z - 1) - x + 1) = z - x
    OBVIOUS
  <2>6. ASSUME NEW x \in Nat, NEW z \in Nat, x <= z
        PROVE  Cardinality(x..(z - 1)) = z - x
    <3>1. /\ x \in Int /\ z - 1 \in Int
          /\ (IF x > z - 1 THEN 0 ELSE (z - 1) - x + 1) = z - x
      BY <2>5, <2>6
    <3>2. Cardinality(x..(z - 1)) = IF x > z - 1 THEN 0 ELSE (z - 1) - x + 1
      BY <3>1, FS_Interval
    <3> QED BY <3>1, <3>2
  <2>7. Cardinality(s[n - 1]..(WeightScale - 1)) = WeightScale - s[n - 1]
    BY <1>5, <1>6, <2>2, <2>6
  <2> QED BY <1>10, <2>4, <2>7
<1> QED BY <1>11, <1>12, <1>13 DEF vs, n

\* Later buckets have later places.
LEMMA PlacesAreOrdered ==
  ASSUME NEW variations \in Seq(WeightedVariation), variations # <<>>,
         NEW b \in Nat, NEW c \in Nat, b <= c
  PROVE  Place(variations, b) <= Place(variations, c)
<1> DEFINE s == Sum(variations)
           n == Len(variations)
           p == Place(variations, b)
           q == Place(variations, c)
<1>1. n \in Nat
  BY WeightTypes
<1>2. s \in [0..n -> Nat]
  BY SumsAreDefined
<1>3. \A k \in 0..n : \A m \in 0..k : s[m] <= s[k]
  BY SumsGrow
<1>4. /\ p \in 1..n
      /\ \A i \in 1..(n - 1) : p = i <=> s[i - 1] <= b /\ b < s[i]
      /\ p = n <=> s[n - 1] <= b
  BY PlaceHolds
<1>5. /\ q \in 1..n
      /\ \A i \in 1..(n - 1) : q = i <=> s[i - 1] <= c /\ c < s[i]
      /\ q = n <=> s[n - 1] <= c
  BY PlaceHolds
<1> HIDE DEF s, n, p, q
<1>6. CASE q = n
  BY <1>1, <1>4, <1>6 DEF p, q
<1>7. CASE q # n
  <2>1. q \in 1..(n - 1) /\ q \in 0..n /\ p - 1 \in 0..n /\ p \in Int
    BY <1>1, <1>4, <1>5, <1>7
  <2>2. c < s[q] /\ s[q] \in Nat
    BY <1>2, <1>5, <2>1
  <2>3. s[p - 1] <= b /\ s[p - 1] \in Nat
    <3>1. p = n \/ p \in 1..(n - 1)
      BY <1>1, <1>4
    <3> QED BY <1>2, <1>4, <2>1, <3>1
  <2>4. ASSUME q < p PROVE FALSE
    <3>1. q \in 0..(p - 1)
      BY <1>1, <2>1, <2>4
    <3>2. s[q] <= s[p - 1]
      BY <1>3, <2>1, <3>1
    <3> QED BY <2>2, <2>3, <3>2
  <2> QED BY <2>1, <2>4 DEF p, q
<1> QED BY <1>6, <1>7

\* Every rollout gives its variations the shares of the population that their weights say,
\* one behind the other.
THEOREM WeightsAreShares == Spec => []SharesMatchWeights
<1>1. BucketingInv => SharesMatchWeights
  <2> SUFFICES ASSUME BucketingInv, IsPartition(rollout)
               PROVE  SharesMatchWeights
    BY DEF SharesMatchWeights
  <2> DEFINE r == rollout
             n == Len(r.variations)
  <2>1. r \in Rollouts
    BY DEF BucketingInv
  <2>2. r.variations \in Seq(WeightedVariation) /\ r.variations # <<>>
    BY <2>1, RolloutsAssumption DEF Rollout, IsPartition
  <2>3. ASSUME NEW b \in 0..WeightScale, NEW c \in 0..WeightScale, b <= c
        PROVE  \E i, j \in 1..n :
                 /\ InBucket(r, b) = r.variations[i].variation
                 /\ InBucket(r, c) = r.variations[j].variation
                 /\ i <= j
    <3>1. b \in Nat /\ c \in Nat
      BY BucketingAssumption
    <3>2. Place(r.variations, b) \in 1..n /\ Place(r.variations, c) \in 1..n
      BY <2>2, <3>1, PlaceHolds
    <3>3. Place(r.variations, b) <= Place(r.variations, c)
      BY <2>2, <2>3, <3>1, PlacesAreOrdered
    <3>4. /\ InBucket(r, b) = r.variations[Place(r.variations, b)].variation
          /\ InBucket(r, c) = r.variations[Place(r.variations, c)].variation
      BY <2>1, <2>2, BucketsGetTheirPlace
    <3> QED BY <3>2, <3>3, <3>4
  <2>4. /\ \A i \in 1..(n - 1) : Share(r, r.variations[i].variation) = r.variations[i].weight
        /\ Share(r, r.variations[n].variation) = WeightScale - TotalBefore(r, n)
    BY <2>1, SharesAreWeights
  <2> QED BY <2>3, <2>4 DEF SharesMatchWeights
<1> QED BY <1>1, RolloutsStayPut, PTL

\* A rollout is malformed for all contexts or for none.
THEOREM ErrorsIgnoreContexts == Spec => []ErrorForAllContextsOrNone
<1>1. ASSUME NEW r, NEW c, NEW d, NEW key
      PROVE  Assigned(r, c, key).err = Assigned(r, d, key).err
  BY DEF Assigned, VariationOrRolloutResult, ComputeBucketValue, BucketingFailure,
         VariationChosen, VariationError, IsDefined, NoError
<1>2. BucketingInv => ErrorForAllContextsOrNone
  BY <1>1 DEF BucketingInv, ErrorForAllContextsOrNone, IsDone, IsDefined
<1> QED BY <1>2, RolloutsStayPut, PTL

\* Experiments look at nothing of a context but its key.
THEOREM ExperimentsGoByKey == Spec => []ExperimentBucketsByKeyOnly
<1>1. BucketingInv => ExperimentBucketsByKeyOnly
  <2> SUFFICES ASSUME BucketingInv, IsDone, rollout.kind = "experiment",
                      NEW by \in AttrRef, NEW secondary \in SecondaryKeys
               PROVE  LET same == [rollout EXCEPT !.bucketBy = by]
                          twin == [context EXCEPT !.individuals =
                             [kind \in DOMAIN @ |-> [@[kind] EXCEPT !.secondary = secondary]]]
                      IN  Assigned(same, twin, RolloutFlag) = assigned[1]
    BY DEF ExperimentBucketsByKeyOnly
  <2> DEFINE same == [rollout EXCEPT !.bucketBy = by]
             twin == [context EXCEPT !.individuals =
                [kind \in DOMAIN @ |-> [@[kind] EXCEPT !.secondary = secondary]]]
             in == context.individuals
             out == twin.individuals
  <2>1. rollout \in Rollout /\ IsContext(context)
    BY RolloutsAssumption DEF BucketingInv
  <2>2. /\ same.kind = rollout.kind /\ same.seed = rollout.seed
        /\ same.contextKind = rollout.contextKind /\ same.variations = rollout.variations
    BY <2>1 DEF Rollout
  <2>3. DOMAIN context = {"valid", "individuals"}
    BY <2>1 DEF IsContext
  <2>4. /\ DOMAIN out = DOMAIN in
        /\ \A kind \in DOMAIN in : out[kind] = [in[kind] EXCEPT !.secondary = secondary]
    BY <2>3
  <2>5. \A kind \in DOMAIN in : in[kind] \in IndividualContext
    BY <2>1 DEF IsContext
  <2>6. \A kind \in DOMAIN in : out[kind].key = in[kind].key
    BY <2>4, <2>5 DEF IndividualContext
  <2> HIDE DEF same, twin
  <2>7. HasKind(twin, rollout.contextKind) = HasKind(context, rollout.contextKind)
    BY <2>4 DEF HasKind
  <2>8. ComputeBucketValue(twin, TRUE, rollout.seed, rollout.contextKind, RolloutFlag, by,
                           RolloutSalt)
          = ComputeBucketValue(context, TRUE, rollout.seed, rollout.contextKind, RolloutFlag,
                               rollout.bucketBy, RolloutSalt)
    <3> DEFINE mine == IndividualContextByKind(twin, rollout.contextKind)
               own == IndividualContextByKind(context, rollout.contextKind)
               value(x) == GetValueForRef(x, rollout.contextKind, "key")
    <3>1. BucketingAttribute(TRUE, by) = "key"
          /\ BucketingAttribute(TRUE, rollout.bucketBy) = "key"
      BY DEF BucketingAttribute
    <3>2. CASE HasKind(context, rollout.contextKind)
      <4>1. mine.key = own.key
        BY <2>6, <3>2 DEF HasKind, IndividualContextByKind
      <4>2. value(mine) = value(own)
        BY <4>1 DEF GetValueForRef
      <4> HIDE DEF mine, own, value
      <4>3. BucketingFailure(twin, rollout.contextKind, "key", value(mine))
              = BucketingFailure(context, rollout.contextKind, "key", value(own))
        BY <2>7, <4>2 DEF BucketingFailure
      <4> QED BY <3>1, <4>2, <4>3 DEF ComputeBucketValue, mine, own, value
    <3>3. CASE ~HasKind(context, rollout.contextKind)
      <4>1. \A v : /\ BucketingFailure(twin, rollout.contextKind, "key", v)
                        = "contextLacksDesiredKind"
                   /\ BucketingFailure(context, rollout.contextKind, "key", v)
                        = "contextLacksDesiredKind"
        BY <2>7, <3>3 DEF BucketingFailure, InvalidRef
      <4> QED BY <3>1, <4>1 DEF ComputeBucketValue
    <3> QED BY <3>2, <3>3
  <2>9. IsExperimentRollout(rollout) = TRUE /\ IsExperimentRollout(same) = TRUE
    BY <2>2 DEF IsExperimentRollout
  <2>10. same.bucketBy = by
    BY <2>1 DEF Rollout, same
  <2>11. Assigned(same, twin, RolloutFlag) = Assigned(rollout, context, RolloutFlag)
    BY <2>2, <2>8, <2>9, <2>10 DEF Assigned, VariationOrRolloutResult
  <2>12. assigned[1] = Assigned(rollout, context, RolloutFlag)
    BY DEF BucketingInv, IsDone, IsDefined
  <2> QED BY <2>11, <2>12 DEF same, twin
<1> QED BY <1>1, RolloutsStayPut, PTL

\* The flag's key does not matter where there is a seed.
THEOREM SeedsReplaceKeys == Spec => []SeedReplacesFlagKey
<1>1. ASSUME NEW r, NEW c, NEW key, NEW other, IsDefined(r.seed)
      PROVE  Assigned(r, c, key) = Assigned(r, c, other)
  BY <1>1 DEF Assigned, VariationOrRolloutResult, ComputeBucketValue, HashInput, IsDefined
<1>2. BucketingInv => SeedReplacesFlagKey
  BY <1>1 DEF BucketingInv, SeedReplacesFlagKey, IsDone, IsDefined
<1> QED BY <1>2, RolloutsStayPut, PTL
==============================================================================
