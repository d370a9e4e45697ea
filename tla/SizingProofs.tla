---------------------------- MODULE SizingProofs ----------------------------
(***************************************************************************)
(* Proofs about the sizing of an application for any number of windows,    *)
(* any loads, any numbers of pods and any limit: what recommend.py advises *)
(* follows from what k6 and collect.sh have written.                       *)
(***************************************************************************)
EXTENDS Sizing, FiniteSetTheorems, SequenceTheorems, WellFoundedInduction, TLAPS

(***************************************************************************)
(* The inductive invariant.                                                *)
(***************************************************************************)
\* Where collect.sh, k6 and the autoscaler are.
RunInv ==
    /\ load \in Seq(Loads) /\ now \in 1 .. Windows
    /\ had \in Seq(SUBSET Ready) /\ Len(had) = now
    /\ pods \in Ready /\ pods \in had[now]
    /\ sampling = Asleep \/ \E w \in 1 .. now : sampling = <<w>>
    /\ csv \in Seq([win : 1 .. now, replicas : Ready \cup {0}, cpu : Nat])

\* While every row is true, each tells how many pods its window had at some time.
EvidenceInv == clean => \A i \in DOMAIN csv : csv[i].replicas \in had[csv[i].win]

\* The profile and the report are those of the load, which has ended.
ReportInv ==
    ~Running =>
        /\ buckets # {}
        /\ profile = [b \in buckets |-> ProfileRow(b)]
        /\ breach = IF \E b \in buckets : Exceeds(b)
                    THEN Min({b \in buckets : Exceeds(b)}) ELSE 0

\* The advice is what the profile says.
AdviceInv ==
    Advised =>
        /\ ~Running
        /\ advice.at = find_capacity_per_pod
        /\ advice.target \in Targets
        /\ \E minimum \in {1, 2} :
              /\ advice.pods = Max({minimum, recommend_pods(advice.target, advice.at)})
              /\ advice.min = Max({minimum, 2, advice.pods \div 3})
        /\ advice.max = Max({advice.pods * 2, advice.pods + 2})
        /\ advice.request = Request(advice.at)
        /\ advice.targetCPU = TargetCpu(advice.at)

SizingInv == RunInv /\ EvidenceInv /\ ReportInv /\ AdviceInv

(***************************************************************************)
(* Sums over a finite set.  The induction is by a least counterexample.    *)
(***************************************************************************)
pick(S) == CHOOSE x \in S : TRUE

IsSum(g, f, S) ==
    g = [s \in SUBSET S |-> IF s = {} THEN 0 ELSE f[pick(s)] + g[s \ {pick(s)}]]

\* Induction on finite sets: of the subsets that lack a property, one is least.
LEMMA LeastSubset ==
    ASSUME NEW S, IsFiniteSet(S), NEW T, T \subseteq SUBSET S, T # {}
    PROVE  \E m \in T : \A n \in T : n \subseteq m => n = m
  <1>1. IsWellFoundedOn(StrictSubsetOrdering(S), SUBSET S)
    BY FS_StrictSubsetOrderingWellFounded, FS_FiniteSubsetsOfFinite
  <1>2. PICK m \in T : \A n \in T : ~(<<n, m>> \in StrictSubsetOrdering(S))
    BY <1>1, WFMin
  <1>3. QED
    BY <1>2 DEF StrictSubsetOrdering

\* The element at which a sum is unfolded is one of the set.
LEMMA PickIn == ASSUME NEW S, S # {} PROVE pick(S) \in S
  BY DEF pick

\* Two functions that add up the values of f by the same recursion agree wherever
\* both are defined.
LEMMA SumsAgree ==
    ASSUME NEW f, NEW S, NEW T, IsFiniteSet(S), NEW g, NEW h,
           IsSum(g, f, S), IsSum(h, f, T), NEW U \in SUBSET (S \cap T)
    PROVE  g[U] = h[U]
  <1> DEFINE Bad == {V \in SUBSET (S \cap T) : g[V] # h[V]}
  <1>1. SUFFICES ASSUME Bad # {} PROVE FALSE
    OBVIOUS
  <1>2. PICK m \in Bad : \A n \in Bad : n \subseteq m => n = m
    <2>1. Bad \subseteq SUBSET S
      OBVIOUS
    <2> HIDE DEF Bad
    <2>2. QED
      BY <1>1, <2>1, LeastSubset
  <1>3. m # {}
    BY <1>2 DEF IsSum
  <1> DEFINE n == m \ {pick(m)}
  <1>4. n \in SUBSET (S \cap T) /\ n # m
    BY <1>2, <1>3, PickIn
  <1>5. g[n] = h[n]
    BY <1>2, <1>4
  <1>6. g[m] = f[pick(m)] + g[n] /\ h[m] = f[pick(m)] + h[n]
    BY <1>2, <1>3 DEF IsSum
  <1>7. QED
    BY <1>2, <1>5, <1>6

\* Such a function exists for every finite set.
LEMMA SumsExist ==
    ASSUME NEW f, NEW S, IsFiniteSet(S)
    PROVE  \E g : IsSum(g, f, S)
  <1> DEFINE Bad == {V \in SUBSET S : ~ \E g : IsSum(g, f, V)}
  <1>1. SUFFICES ASSUME Bad # {} PROVE FALSE
    OBVIOUS
  <1>2. PICK m \in Bad : \A n \in Bad : n \subseteq m => n = m
    <2>1. Bad \subseteq SUBSET S
      OBVIOUS
    <2> HIDE DEF Bad
    <2>2. QED
      BY <1>1, <2>1, LeastSubset
  <1> DEFINE G(V) == CHOOSE g : IsSum(g, f, V)
  <1>3. \A V \in SUBSET m : V # m => IsSum(G(V), f, V)
    BY <1>2
  <1> DEFINE n == m \ {pick(m)}
             g == [V \in SUBSET m |->
                     IF V # m THEN G(V)[V]
                     ELSE IF m = {} THEN 0 ELSE f[pick(m)] + G(n)[n]]
  <1>4. ASSUME NEW V \in SUBSET m, V # {}
        PROVE  g[V] = f[pick(V)] + g[V \ {pick(V)}]
    <2> DEFINE W == V \ {pick(V)}
    <2>1. pick(V) \in V /\ W \in SUBSET m /\ W # m /\ g[W] = G(W)[W]
      BY <1>4, PickIn
    <2>2. CASE V = m
      BY <2>1, <2>2, <1>4
    <2>3. CASE V # m
      <3>1. IsSum(G(V), f, V) /\ IsSum(G(W), f, W)
        BY <1>3, <2>1, <2>3
      <3>2. G(V)[W] = G(W)[W]
        <4>1. IsFiniteSet(V) /\ W \in SUBSET (V \cap W)
          BY <1>2, FS_Subset
        <4>2. QED
          BY <3>1, <4>1, SumsAgree
      <3>3. G(V)[V] = f[pick(V)] + G(V)[W]
        BY <3>1, <1>4 DEF IsSum
      <3>4. QED
        BY <2>1, <2>3, <3>2, <3>3
    <2>4. QED
      BY <2>2, <2>3
  <1>5. g[{}] = 0
    <2>1. CASE m = {}
      BY <2>1
    <2>2. CASE m # {}
      <3>1. IsSum(G({}), f, {})
        BY <1>3, <2>2
      <3>2. QED
        BY <2>2, <3>1 DEF IsSum
    <2>3. QED
      BY <2>1, <2>2
  <1>6. IsSum(g, f, m)
    <2>1. g = [V \in SUBSET m |-> g[V]]
      OBVIOUS
    <2> HIDE DEF g
    <2>2. [V \in SUBSET m |-> g[V]]
            = [V \in SUBSET m |-> IF V = {} THEN 0 ELSE f[pick(V)] + g[V \ {pick(V)}]]
      BY <1>4, <1>5
    <2>3. QED
      BY <2>1, <2>2 DEF IsSum
  <1>7. QED
    BY <1>2, <1>6

\* SumFunctionOnSet is what such a function says of the whole set.
LEMMA SumIs ==
    ASSUME NEW f, NEW S, IsFiniteSet(S)
    PROVE  \E g : IsSum(g, f, S) /\ SumFunctionOnSet(f, S) = g[S]
  <1>1. PICK h : IsSum(h, f, S)
    BY SumsExist
  <1> DEFINE g == CHOOSE g : g = [s \in SUBSET S |-> IF s = {} THEN 0
                                   ELSE f[CHOOSE x \in s : TRUE] + g[s \ {CHOOSE x \in s : TRUE}]]
  <1>2. SumFunctionOnSet(f, S) = g[S]
    BY DEF SumFunctionOnSet, FoldFunctionOnSet, MapThenFoldSet
  <1>3. IsSum(g, f, S)
    BY <1>1 DEF IsSum, pick
  <1>4. QED
    BY <1>2, <1>3

\* Hence the sum over a set is one value and the sum over the rest.
LEMMA SumRecursion ==
    ASSUME NEW f, NEW S, IsFiniteSet(S), S # {}
    PROVE  SumFunctionOnSet(f, S) = f[pick(S)] + SumFunctionOnSet(f, S \ {pick(S)})
  <1> DEFINE T == S \ {pick(S)}
  <1>1. PICK g : IsSum(g, f, S) /\ SumFunctionOnSet(f, S) = g[S]
    BY SumIs
  <1>2. IsFiniteSet(T)
    BY FS_Subset
  <1>3. PICK h : IsSum(h, f, T) /\ SumFunctionOnSet(f, T) = h[T]
    BY <1>2, SumIs
  <1>4. g[T] = h[T]
    <2>1. T \in SUBSET (S \cap T)
      OBVIOUS
    <2>2. QED
      BY <1>1, <1>3, <2>1, SumsAgree
  <1>5. g[S] = f[pick(S)] + g[T]
    BY <1>1 DEF IsSum
  <1>6. QED
    BY <1>1, <1>3, <1>4, <1>5

\* The sum over nothing is 0.
LEMMA SumEmpty == ASSUME NEW f PROVE SumFunctionOnSet(f, {}) = 0
  <1>1. PICK g : IsSum(g, f, {}) /\ SumFunctionOnSet(f, {}) = g[{}]
    BY FS_EmptySet, SumIs
  <1>2. QED
    BY <1>1 DEF IsSum

\* A sum of naturals is one, and no less than any of them.
LEMMA SumOfNaturals ==
    ASSUME NEW f, NEW S, IsFiniteSet(S), \A x \in S : f[x] \in Nat
    PROVE  /\ SumFunctionOnSet(f, S) \in Nat
           /\ \A x \in S : f[x] <= SumFunctionOnSet(f, S)
  <1> DEFINE sum(V) == SumFunctionOnSet(f, V)
             Good(V) == sum(V) \in Nat /\ \A x \in V : f[x] <= sum(V)
             Bad == {V \in SUBSET S : ~Good(V)}
  <1>1. SUFFICES ASSUME Bad # {} PROVE FALSE
    OBVIOUS
  <1>2. PICK m \in Bad : \A n \in Bad : n \subseteq m => n = m
    <2>1. Bad \subseteq SUBSET S
      OBVIOUS
    <2> HIDE DEF Bad
    <2>2. QED
      BY <1>1, <2>1, LeastSubset
  <1>3. m # {}
    <2>1. sum({}) = 0
      BY SumEmpty
    <2> HIDE DEF sum
    <2>2. Good({})
      BY <2>1
    <2>3. QED
      BY <1>2, <2>2
  <1> DEFINE n == m \ {pick(m)}
  <1>4. pick(m) \in m /\ n \in SUBSET S /\ n # m
    BY <1>2, <1>3, PickIn
  <1>5. Good(n)
    BY <1>2, <1>4
  <1>6. sum(m) = f[pick(m)] + sum(n)
    BY <1>2, <1>3, SumRecursion, FS_Subset
  <1> HIDE DEF sum
  <1>7. QED
    BY <1>2, <1>4, <1>5, <1>6

\* If every value is at least k, the sum is at least k times their number.
LEMMA SumAtLeast ==
    ASSUME NEW f, NEW S, IsFiniteSet(S), NEW k \in Nat, \A x \in S : f[x] \in Nat /\ k <= f[x]
    PROVE  k * Cardinality(S) <= SumFunctionOnSet(f, S)
  <1> DEFINE sum(V) == SumFunctionOnSet(f, V)
             Bad == {V \in SUBSET S : ~(k * Cardinality(V) <= sum(V))}
  <1>1. SUFFICES ASSUME Bad # {} PROVE FALSE
    OBVIOUS
  <1>2. PICK m \in Bad : \A n \in Bad : n \subseteq m => n = m
    <2>1. Bad \subseteq SUBSET S
      OBVIOUS
    <2> HIDE DEF Bad
    <2>2. QED
      BY <1>1, <2>1, LeastSubset
  <1>3. m # {}
    <2>1. sum({}) = 0 /\ Cardinality({}) = 0
      BY SumEmpty, FS_EmptySet
    <2> HIDE DEF sum
    <2>2. k * Cardinality({}) <= sum({})
      BY <2>1
    <2>3. QED
      BY <1>2, <2>2
  <1> DEFINE n == m \ {pick(m)}
  <1>4. pick(m) \in m /\ n \in SUBSET S /\ n # m /\ IsFiniteSet(m) /\ IsFiniteSet(n)
    BY <1>2, <1>3, PickIn, FS_Subset
  <1>5. k * Cardinality(n) <= sum(n)
    BY <1>2, <1>4
  <1>6. sum(m) = f[pick(m)] + sum(n)
    BY <1>3, <1>4, SumRecursion
  <1>7. Cardinality(n) \in Nat /\ Cardinality(m) = Cardinality(n) + 1
    BY <1>4, FS_CardinalityType, FS_RemoveElement
  <1>8. sum(n) \in Nat
    BY <1>4, SumOfNaturals
  <1>9. f[pick(m)] \in Nat /\ k <= f[pick(m)]
    BY <1>2, <1>4
  <1> HIDE DEF sum
  <1>10. k * Cardinality(m) = k * Cardinality(n) + k
    BY <1>7
  <1>11. QED
    BY <1>2, <1>5, <1>6, <1>7, <1>8, <1>9, <1>10

\* A sum is positive only if something in it is.
LEMMA SumPositive ==
    ASSUME NEW f, NEW S, IsFiniteSet(S), \A x \in S : f[x] \in Nat, SumFunctionOnSet(f, S) > 0
    PROVE  \E x \in S : f[x] > 0
  <1> DEFINE sum(V) == SumFunctionOnSet(f, V)
             Bad == {V \in SUBSET S : sum(V) # 0}
  <1>1. SUFFICES ASSUME \A x \in S : f[x] = 0, Bad # {} PROVE FALSE
    <2>1. sum(S) # 0
      OBVIOUS
    <2>2. S \in Bad
      BY <2>1
    <2>3. QED
      BY <2>2
  <1>2. PICK m \in Bad : \A n \in Bad : n \subseteq m => n = m
    <2>1. Bad \subseteq SUBSET S
      OBVIOUS
    <2> HIDE DEF Bad
    <2>2. QED
      BY <1>1, <2>1, LeastSubset
  <1>3. m # {}
    <2>1. sum({}) = 0
      BY SumEmpty
    <2> HIDE DEF sum
    <2>2. QED
      BY <1>2, <2>1
  <1> DEFINE n == m \ {pick(m)}
  <1>4. pick(m) \in m /\ n \in SUBSET S /\ n # m
    BY <1>2, <1>3, PickIn
  <1>5. sum(n) = 0
    BY <1>2, <1>4
  <1>6. sum(m) = f[pick(m)] + sum(n)
    BY <1>2, <1>3, SumRecursion, FS_Subset
  <1> HIDE DEF sum
  <1>7. QED
    BY <1>1, <1>2, <1>4, <1>5, <1>6

(***************************************************************************)
(* Arithmetic: quotients that are rounded, and the ends of a set.          *)
(***************************************************************************)
\* Division with remainder.
LEMMA DivMod == ASSUME NEW a \in Int, NEW b \in Nat \ {0}
  PROVE  /\ a \div b \in Int /\ a % b \in 0 .. b - 1
         /\ a = b * (a \div b) + (a % b)
  OBVIOUS

\* A rounded quotient is at most one half away from the quotient.
LEMMA RoundB == ASSUME NEW a \in Nat, NEW b \in Nat \ {0}
  PROVE  /\ Round(a, b) \in Nat
         /\ 2 * a - b <= 2 * (b * Round(a, b))
         /\ 2 * (b * Round(a, b)) <= 2 * a + b
  <1> DEFINE q == a \div b
             r == a % b
  <1>1. q \in Nat /\ r \in 0 .. b - 1 /\ a = b * q + r
    <2>1. q \in Int /\ r \in 0 .. b - 1 /\ a = b * q + r
      BY DivMod
    <2> HIDE DEF q, r
    <2>2. q < 0 => b * q <= b * (-1)
      BY <2>1
    <2>3. QED
      BY <2>1, <2>2
  <1>2. b * (q + 1) = b * q + b /\ b * q \in Nat
    BY <1>1
  <1>3. \/ Round(a, b) = q /\ 2 * r <= b
        \/ Round(a, b) = q + 1 /\ 2 * r >= b
    BY <1>1 DEF Round
  <1> HIDE DEF q, r
  <1>4. QED
    BY <1>1, <1>2, <1>3

\* A quotient rounded up is no less than the quotient.
LEMMA CeilDivUp == ASSUME NEW a \in Nat, NEW b \in Nat \ {0}
  PROVE  CeilDiv(a, b) \in Nat /\ a <= b * CeilDiv(a, b)
  <1> DEFINE q == (-a) \div b
  <1>1. q \in Int /\ b * q <= -a /\ -a < b * q + b
    <2>1. -a \in Int
      OBVIOUS
    <2>2. QED
      BY <2>1
  <1>2. b * (-q) = -(b * q)
    BY <1>1
  <1>3. q <= 0
    BY <1>1
  <1> HIDE DEF q
  <1>4. CeilDiv(a, b) = -q
    BY DEF CeilDiv, q
  <1>5. QED
    BY <1>1, <1>2, <1>3, <1>4

\* The greater of two numbers.
LEMMA MaxOfTwo == ASSUME NEW a \in Int, NEW b \in Int
  PROVE Max({a, b}) = IF a >= b THEN a ELSE b
  BY DEF Max

\* The lesser of two numbers.
LEMMA MinOfTwo == ASSUME NEW a \in Int, NEW b \in Int
  PROVE Min({a, b}) = IF a <= b THEN a ELSE b
  BY DEF Min

\* The greatest of three numbers is one of them, and no less than the others.
LEMMA MaxOfThree == ASSUME NEW a \in Int, NEW b \in Int, NEW c \in Int
  PROVE  /\ Max({a, b, c}) \in {a, b, c}
         /\ \A x \in {a, b, c} : Max({a, b, c}) >= x
  <1>1. \E m \in {a, b, c} : \A y \in {a, b, c} : m >= y
    OBVIOUS
  <1>2. QED
   BY <1>1 DEF Max

\* A set of naturals has a least element.
LEMMA NatLeast == ASSUME NEW S, S \subseteq Nat, S # {}
  PROVE \E m \in S : \A n \in S : m <= n
  <1>1. PICK x \in S : TRUE
    OBVIOUS
  <1> DEFINE T == {0 .. k : k \in {j \in S : j <= x}}
  <1>2. IsFiniteSet(0 .. x)
    BY <1>1, FS_Interval
  <1>3. T \subseteq SUBSET (0 .. x) /\ 0 .. x \in T
    BY <1>1
  <1>4. PICK t \in T : \A n \in T : n \subseteq t => n = t
    <2> DEFINE I == 0 .. x
    <2>1. IsFiniteSet(I) /\ T # {} /\ T \subseteq SUBSET I
      BY <1>2, <1>3
    <2> HIDE DEF T, I
    <2>2. QED
      BY <2>1, LeastSubset
  <1>5. PICK m \in S : m <= x /\ t = 0 .. m
    BY <1>4
  <1>6. ASSUME NEW n \in S, n < m PROVE FALSE
    <2>1. 0 .. n \in T /\ 0 .. n \subseteq t
      BY <1>1, <1>5, <1>6
    <2>2. 0 .. n = 0 .. m
      BY <1>4, <1>5, <2>1
    <2>3. m \in 0 .. m /\ m \notin 0 .. n
      BY <1>5, <1>6
    <2>4. QED
      BY <2>2, <2>3
  <1>7. QED
    BY <1>5, <1>6

\* A finite set of naturals has a greatest element.
LEMMA NatGreatest == ASSUME NEW S, S \subseteq Nat, IsFiniteSet(S), S # {}
  PROVE \E m \in S : \A n \in S : n <= m
  <1> DEFINE above(x) == {y \in S : y > x}
             T == {above(x) : x \in S}
  <1>1. T # {} /\ T \subseteq SUBSET S
    OBVIOUS
  <1>2. PICK t \in T : \A n \in T : n \subseteq t => n = t
    <2> DEFINE I == S
    <2>1. IsFiniteSet(I) /\ T # {} /\ T \subseteq SUBSET I
      BY <1>1
    <2> HIDE DEF T, I
    <2>2. QED
      BY <2>1, LeastSubset
  <1>3. PICK m \in S : t = above(m)
    OBVIOUS
  <1>4. ASSUME NEW n \in S, n > m PROVE FALSE
    <2>1. above(n) \in T /\ above(n) \subseteq above(m)
      <3>1. \A y \in S : y > n => y > m
        BY <1>4
      <3>2. QED
        BY <3>1
    <2>2. above(n) = above(m)
      BY <1>2, <1>3, <2>1
    <2>3. n \in above(m) /\ n \notin above(n)
      BY <1>4
    <2>4. QED
      BY <2>2, <2>3
  <1>5. QED
    BY <1>4

\* Min is the least element.
LEMMA MinIn == ASSUME NEW S, S \subseteq Nat, S # {}
  PROVE  Min(S) \in S /\ \A x \in S : Min(S) <= x
  BY NatLeast DEF Min

\* Max is the greatest element.
LEMMA MaxIn == ASSUME NEW S, S \subseteq Nat, IsFiniteSet(S), S # {}
  PROVE  Max(S) \in S /\ \A x \in S : x <= Max(S)
  <1>1. \E m \in S : \A n \in S : m >= n
    BY NatGreatest
  <1>2. QED
    BY <1>1 DEF Max

(***************************************************************************)
(* Percentiles and averages.                                               *)
(***************************************************************************)
\* The percentile of a list that is not empty is one of its durations.
LEMMA PctIsNat ==
    ASSUME NEW D, DOMAIN D \subseteq Nat, IsFiniteSet(DOMAIN D), \A d \in DOMAIN D : D[d] \in Nat,
           SumFunction(D) > 0, NEW p \in Nat
    PROVE  pct(D, p) \in Nat
  <1> DEFINE n == SumFunction(D)
             R == Round(p * (n - 1), 100)
             k == Max({0, Min({n - 1, R})})
             upto(d) == SumFunctionOnSet(D, {e \in DOMAIN D : e <= d})
             M == {d \in DOMAIN D : k < upto(d)}
  <1>1. n \in Nat /\ n > 0
    BY SumOfNaturals DEF SumFunction
  <1> HIDE DEF n
  <1>2. R \in Nat
    <2>1. p * (n - 1) \in Nat
      BY <1>1
    <2> DEFINE a == p * (n - 1)
    <2> HIDE DEF a
    <2>2. Round(a, 100) \in Nat
      <3>1. a \in Nat
        BY <2>1 DEF a
      <3>2. 100 \in Nat \ {0}
        OBVIOUS
      <3>3. QED
        BY <3>1, <3>2, RoundB
    <2>3. QED
      BY <2>2 DEF a
  <1> HIDE DEF R
  <1>3. k \in Nat /\ k < n
    <2> DEFINE a == n - 1
               l == Min({a, R})
    <2>1. a \in Nat /\ a < n
      BY <1>1
    <2>2. l \in Nat /\ l < n
      <3> HIDE DEF a
      <3>1. l = IF a <= R THEN a ELSE R
        BY <1>2, <2>1, MinOfTwo
      <3> HIDE DEF l
      <3>2. QED
        BY <1>1, <1>2, <2>1, <3>1
    <2> HIDE DEF l
    <2>3. Max({0, l}) = IF 0 >= l THEN 0 ELSE l
      BY <2>2, MaxOfTwo
    <2>4. QED
      BY <1>1, <2>2, <2>3 DEF l
  <1> HIDE DEF k
  <1>4. DOMAIN D # {}
    <2>1. \E d \in DOMAIN D : D[d] > 0
      BY SumPositive DEF SumFunction
    <2>2. QED
      BY <2>1
  <1>5. PICK m \in DOMAIN D : \A d \in DOMAIN D : d <= m
    BY <1>4, NatGreatest
  <1>6. upto(m) = n
    <2>1. {e \in DOMAIN D : e <= m} = DOMAIN D
      BY <1>5
    <2>2. QED
      BY <2>1 DEF SumFunction, n
  <1>7. m \in M
    BY <1>3, <1>6
  <1>8. M \subseteq Nat
    OBVIOUS
  <1>9. Min(M) \in Nat
    <2> HIDE DEF M
    <2>1. QED
      BY <1>7, <1>8, MinIn
  <1>10. QED
    BY <1>9 DEF pct, n, R, k

\* An average is a number, and no less than everything it is made of.
LEMMA AvgAtLeast ==
    ASSUME NEW f, IsFiniteSet(DOMAIN f), DOMAIN f # {}, NEW k \in Nat, NEW scale \in Nat,
           \A i \in DOMAIN f : f[i] \in Nat /\ k <= f[i]
    PROVE  avg(f, scale) \in Nat /\ scale * k <= avg(f, scale)
  <1> DEFINE s == SumFunction(f)
             b == Cardinality(DOMAIN f)
             R == Round(scale * s, b)
  <1>1. b \in Nat \ {0}
    BY FS_CardinalityType, FS_EmptySet
  <1>2. s \in Nat /\ k * b <= s
    BY SumOfNaturals, SumAtLeast DEF SumFunction
  <1>3. avg(f, scale) = R
    BY DEF avg
  <1> HIDE DEF s, b
  <1>4. scale * s \in Nat /\ scale * (k * b) <= scale * s /\ scale * (k * b) = b * (scale * k)
    BY <1>1, <1>2
  <1>5. R \in Nat /\ 2 * (scale * s) - b <= 2 * (b * R)
    BY <1>1, <1>4, RoundB
  <1> HIDE DEF R
  <1>6. scale * k \in Nat
    OBVIOUS
  <1>7. R < scale * k => b * R <= b * (scale * k) - b
    <2>1. SUFFICES ASSUME R < scale * k PROVE b * R <= b * (scale * k) - b
      OBVIOUS
    <2>2. R <= scale * k - 1
      BY <1>5, <1>6, <2>1
    <2>3. b * R <= b * (scale * k - 1)
      BY <1>1, <1>5, <1>6, <2>2
    <2>4. b * (scale * k - 1) = b * (scale * k) - b
      BY <1>1, <1>6
    <2>5. QED
      BY <2>3, <2>4
  <1>8. b * R \in Nat /\ b * (scale * k) \in Nat
    BY <1>1, <1>5, <1>6
  <1>9. QED
    BY <1>1, <1>3, <1>4, <1>5, <1>6, <1>7, <1>8

(***************************************************************************)
(* Every step keeps the invariant.                                         *)
(***************************************************************************)
\* What a sequence holds.
LEMMA ElementOf == ASSUME NEW S, NEW s \in Seq(S), NEW i \in DOMAIN s PROVE s[i] \in S
  OBVIOUS

\* What a row of metrics.csv holds.
LEMMA RowFacts ==
    ASSUME RunInv, NEW i \in DOMAIN csv
    PROVE  csv[i].win \in 1 .. now /\ csv[i].replicas \in Ready \cup {0} /\ csv[i].cpu \in Nat
  <1> DEFINE Row == [win : 1 .. now, replicas : Ready \cup {0}, cpu : Nat]
  <1>1. csv \in Seq(Row)
    BY DEF RunInv
  <1> HIDE DEF Row
  <1>2. csv[i] \in Row
    BY <1>1, ElementOf
  <1>3. QED
    BY <1>2 DEF Row

\* The run begins so.
LEMMA InitRun == Start => SizingInv
  <1>1. SUFFICES ASSUME Start PROVE SizingInv
    OBVIOUS
  <1>2. load \in Seq(Loads) /\ Len(load) = 1
    <2>1. load \in [1 .. 1 -> Loads]
      BY <1>1 DEF Start, Init
    <2>2. load \in Seq(Loads)
      BY <2>1, SeqDef
    <2>3. Len(load) \in Nat /\ 1 .. Len(load) = 1 .. 1
      BY <2>1, <2>2, LenProperties
    <2>4. 1 \in 1 .. Len(load)
      BY <2>3
    <2>5. Len(load) \in 1 .. Len(load)
      BY <2>3, <2>4
    <2>6. Len(load) \in 1 .. 1
      <3> DEFINE n == Len(load)
      <3> HIDE DEF n
      <3>1. 1 .. n = 1 .. 1 /\ n \in 1 .. n
        BY <2>3, <2>5 DEF n
      <3>2. QED
        BY <3>1 DEF n
    <2>7. QED
      BY <2>2, <2>6
  <1>3. RunInv
    <2>1. pods \in Ready /\ had = <<{pods}>> /\ csv = <<>> /\ sampling = Asleep
      BY <1>1 DEF Start, Init
    <2>2. 1 \in 1 .. Windows
      BY LoadProfileAssumption
    <2>3. had \in Seq(SUBSET Ready) /\ Len(had) = 1 /\ pods \in had[1]
      BY <2>1
    <2>4. \A S : csv \in Seq(S)
      BY <2>1
    <2>5. QED
      BY <1>2, <2>1, <2>2, <2>3, <2>4 DEF RunInv, now
  <1>4. EvidenceInv /\ ReportInv /\ AdviceInv
    BY <1>1 DEF Start, Init, EvidenceInv, ReportInv, AdviceInv, Running, Advised
  <1>5. QED
    BY <1>3, <1>4 DEF SizingInv

\* The next window of k6 keeps what is known of the run.
LEMMA AdvanceRun == ASSUME RunInv, EvidenceInv, Advance PROVE RunInv' /\ EvidenceInv'
  <1>1. PICK l \in Loads : load' = Append(load, l)
    BY DEF Advance
  <1> DEFINE n == Len(load)
  <1>2. load' \in Seq(Loads) /\ Len(load') = n + 1 /\ n \in Nat /\ n + 1 \in 1 .. Windows
    BY <1>1, LoadProfileAssumption DEF RunInv, Advance, now
  <1>3. /\ had' \in Seq(SUBSET Ready) /\ Len(had') = n + 1
        /\ had'[n + 1] = {pods} /\ \A w \in 1 .. n : had'[w] = had[w]
    <2>1. had' = Append(had, {pods}) /\ {pods} \in SUBSET Ready /\ Len(had) = n
      BY DEF RunInv, Advance, now
    <2>2. had \in Seq(SUBSET Ready)
      BY DEF RunInv
    <2> DEFINE e == {pods}
    <2> HIDE DEF e
    <2>3. had' = Append(had, e) /\ e \in SUBSET Ready
      BY <2>1 DEF e
    <2>4. had' \in Seq(SUBSET Ready) /\ Len(had') = n + 1
      BY <2>1, <2>2, <2>3
    <2>5. had'[n + 1] = e /\ \A w \in 1 .. n : had'[w] = had[w]
      BY <2>1, <2>2, <2>3
    <2>6. QED
      BY <2>4, <2>5 DEF e
  <1>4. csv' = csv /\ csv \in Seq([win : 1 .. n, replicas : Ready \cup {0}, cpu : Nat])
    BY DEF RunInv, Advance, now
  <1>5. csv' \in Seq([win : 1 .. n + 1, replicas : Ready \cup {0}, cpu : Nat])
    <2> DEFINE Old == [win : 1 .. n, replicas : Ready \cup {0}, cpu : Nat]
               New == [win : 1 .. n + 1, replicas : Ready \cup {0}, cpu : Nat]
    <2>1. Old \subseteq New
      BY <1>2
    <2> HIDE DEF Old, New
    <2>2. csv \in Seq(Old)
      BY <1>4 DEF Old
    <2>3. csv \in Seq(New)
      BY <2>1, <2>2
    <2>4. QED
      BY <1>4, <2>3 DEF New
  <1>6. RunInv'
    BY <1>2, <1>3, <1>5 DEF RunInv, Advance, now, Asleep
  <1>7. EvidenceInv'
    <2>1. \A i \in DOMAIN csv : csv[i].win \in 1 .. n
      BY RowFacts DEF now
    <2>2. clean' = clean
      BY DEF Advance
    <2>3. QED
      BY <1>3, <1>4, <2>1, <2>2 DEF EvidenceInv
  <1>8. QED
    BY <1>6, <1>7

\* So does a change of the number of ready pods: had only grows.
LEMMA ScaleRun == ASSUME RunInv, EvidenceInv, Scale PROVE RunInv' /\ EvidenceInv'
  <1>1. PICK n \in Ready : pods' = n /\ had' = [had EXCEPT ![now] = @ \cup {n}]
    BY DEF Scale
  <1>2. now \in 1 .. Len(had) /\ load' = load
    BY DEF RunInv, Scale
  <1>3. /\ had' \in Seq(SUBSET Ready) /\ Len(had') = Len(had)
        /\ n \in had'[now] /\ \A w \in 1 .. Len(had) : had[w] \subseteq had'[w]
    BY <1>1, <1>2 DEF RunInv
  <1>4. RunInv'
    BY <1>1, <1>2, <1>3 DEF RunInv, Scale, now, Asleep
  <1>5. EvidenceInv'
    <2>1. \A i \in DOMAIN csv : csv[i].win \in 1 .. Len(had)
      BY RowFacts DEF RunInv
    <2>2. QED
      BY <1>3, <2>1 DEF EvidenceInv, Scale
  <1>6. QED
    BY <1>4, <1>5

\* So does the time taken by collect.sh.
LEMMA StampRun == ASSUME RunInv, EvidenceInv, Stamp PROVE RunInv' /\ EvidenceInv'
  <1>1. RunInv'
    BY DEF RunInv, Stamp, now, Asleep
  <1>2. EvidenceInv'
    BY DEF EvidenceInv, Stamp
  <1>3. QED
    BY <1>1, <1>2

\* So does a row that collect.sh writes: while clean, its number of replicas is that of now.
LEMMA ReadRun == ASSUME RunInv, EvidenceInv, Read PROVE RunInv' /\ EvidenceInv'
  <1> DEFINE Row == [win : 1 .. now, replicas : Ready \cup {0}, cpu : Nat]
  <1>1. PICK c \in PodCpu, told \in {pods, 0}, used \in BOOLEAN :
          LET row == [win |-> sampling[1], replicas |-> told,
                      cpu |-> IF used THEN pods * c ELSE 0]
          IN  /\ csv' = Append(csv, row)
              /\ clean' = (clean /\ told = pods /\ used /\ row.win = now)
    BY DEF Read
  <1> DEFINE row == [win |-> sampling[1], replicas |-> told,
                     cpu |-> IF used THEN pods * c ELSE 0]
  <1>2. sampling[1] \in 1 .. now
    BY DEF RunInv, Read, Asleep
  <1>3. pods * c \in Nat /\ pods \in Ready
    BY LoadProfileAssumption DEF RunInv
  <1>4. row \in Row
    BY <1>2, <1>3
  <1>5. csv' = Append(csv, row) /\ (clean' => clean /\ row.replicas = pods /\ row.win = now)
    BY <1>1
  <1>6. row.win \in 1 .. now
    BY <1>2
  <1> HIDE DEF row
  <1>7. csv' \in Seq(Row)
    BY <1>4, <1>5 DEF RunInv
  <1>8. RunInv'
    BY <1>7 DEF RunInv, Read, now
  <1>9. EvidenceInv'
    BY <1>5 DEF RunInv, EvidenceInv, Read
  <1>10. QED
    BY <1>8, <1>9

\* The summary depends on the log of k6 and on metrics.csv alone.
LEMMA ReportFrame ==
    ASSUME load' = load, csv' = csv
    PROVE  /\ buckets' = buckets
           /\ \A b : Exceeds(b)' = Exceeds(b) /\ ProfileRow(b)' = ProfileRow(b)
  <1>1. \A w : reqs(w)' = reqs(w)
    BY DEF reqs
  <1>2. \A b : WindowsOf(b)' = WindowsOf(b)
    BY <1>1 DEF WindowsOf
  <1>3. \A b : dur(b)' = dur(b) /\ RowsOf(b)' = RowsOf(b)
    BY <1>2 DEF dur, RowsOf
  <1>4. QED
    BY <1>2, <1>3 DEF buckets, Exceeds, ProfileRow

\* The advice depends on profile.csv alone.
LEMMA AdviceFrame ==
    ASSUME profile' = profile
    PROVE  /\ Running' = Running
           /\ find_capacity_per_pod' = find_capacity_per_pod
           /\ \A t, b : recommend_pods(t, b)' = recommend_pods(t, b)
           /\ \A b : Request(b)' = Request(b) /\ TargetCpu(b)' = TargetCpu(b)
  <1>1. \A b : replicas(b)' = replicas(b) /\ cpu(b)' = cpu(b)
    BY DEF replicas, cpu
  <1>2. Running' = Running /\ find_capacity_per_pod' = find_capacity_per_pod
    BY DEF Running, find_capacity_per_pod
  <1>3. \A b : Request(b)' = Request(b)
    BY <1>1 DEF Request
  <1>4. QED
    BY <1>1, <1>2, <1>3 DEF recommend_pods, TargetCpu

\* analyze.py makes the profile and the report of one load.
LEMMA AnalyseReports == ASSUME SizingInv, Analyse, UNCHANGED advice PROVE SizingInv'
  <1>1. UNCHANGED <<load, pods, sampling, csv, had, clean, advice>> /\ ~Advised
    BY DEF SizingInv, AdviceInv, Analyse, measured
  <1>2. RunInv' /\ EvidenceInv'
    BY <1>1 DEF SizingInv, RunInv, EvidenceInv, now
  <1>3. buckets' = buckets /\ \A b : Exceeds(b)' = Exceeds(b) /\ ProfileRow(b)' = ProfileRow(b)
    BY <1>1, ReportFrame
  <1>4. ReportInv'
    BY <1>3 DEF ReportInv, Analyse
  <1>5. AdviceInv'
    BY <1>1 DEF AdviceInv, Advised
  <1>6. QED
    BY <1>2, <1>4, <1>5 DEF SizingInv

\* A run that goes on has neither report nor advice.
LEMMA RunningKeeps ==
    ASSUME SizingInv, Running, UNCHANGED <<results, advice>>, RunInv', EvidenceInv'
    PROVE  SizingInv'
  <1>1. Running' /\ ~Advised'
    BY DEF SizingInv, AdviceInv, Running, NoProfile, Advised, results
  <1>2. QED
    BY <1>1 DEF SizingInv, ReportInv, AdviceInv

\* Once there is a report, nothing it was made of changes.
LEMMA ReportStays ==
    ASSUME SizingInv, UNCHANGED <<measured, results>>
    PROVE  RunInv' /\ EvidenceInv' /\ ReportInv'
  <1>1. UNCHANGED <<load, pods, sampling, csv, had, clean, profile, breach>>
    BY DEF measured, results
  <1>2. RunInv' /\ EvidenceInv'
    BY <1>1 DEF SizingInv, RunInv, EvidenceInv, now
  <1>3. buckets' = buckets /\ \A b : Exceeds(b)' = Exceeds(b) /\ ProfileRow(b)' = ProfileRow(b)
    BY <1>1, ReportFrame
  <1>4. Running' = Running
    BY <1>1, AdviceFrame
  <1>5. ReportInv'
    BY <1>1, <1>3, <1>4 DEF SizingInv, ReportInv
  <1>6. QED
    BY <1>2, <1>5

\* recommend.py says what the profile says.
LEMMA RecommendAdvises ==
    ASSUME SizingInv, NEW target \in Targets, NEW mode \in {"cost", "ha"}, Recommend(target, mode)
    PROVE  SizingInv'
  <1>1. UNCHANGED <<measured, results>> /\ ~Running /\ profile' = profile
    BY DEF Recommend, results
  <1>2. /\ Running' = Running
        /\ find_capacity_per_pod' = find_capacity_per_pod
        /\ \A t, b : recommend_pods(t, b)' = recommend_pods(t, b)
        /\ \A b : Request(b)' = Request(b) /\ TargetCpu(b)' = TargetCpu(b)
    BY <1>1, AdviceFrame
  <1> DEFINE minimum == IF mode = "ha" THEN 2 ELSE 1
             b == find_capacity_per_pod
             pod == Max({minimum, recommend_pods(target, b)})
  <1>3. /\ advice'.target = target /\ advice'.at = b /\ advice'.pods = pod
        /\ advice'.request = Request(b) /\ advice'.targetCPU = TargetCpu(b)
        /\ advice'.min = Max({minimum, 2, pod \div 3})
        /\ advice'.max = Max({pod * 2, pod + 2})
    BY DEF Recommend
  <1>4. AdviceInv'
    <2>1. minimum \in {1, 2}
      OBVIOUS
    <2> HIDE DEF minimum
    <2>2. QED
      BY <1>1, <1>2, <1>3, <2>1 DEF AdviceInv
  <1>5. QED
    BY <1>1, <1>4, ReportStays DEF SizingInv

\* Every step keeps the invariant.
LEMMA SizingNext == SizingInv /\ [Next]_vars => SizingInv'
  <1>1. SUFFICES ASSUME SizingInv, [Next]_vars PROVE SizingInv'
    OBVIOUS
  <1>2. CASE Advance /\ UNCHANGED advice
    BY <1>1, <1>2, AdvanceRun, RunningKeeps DEF SizingInv, Advance
  <1>3. CASE Scale /\ UNCHANGED advice
    BY <1>1, <1>3, ScaleRun, RunningKeeps DEF SizingInv, Scale
  <1>4. CASE Stamp /\ UNCHANGED advice
    BY <1>1, <1>4, StampRun, RunningKeeps DEF SizingInv, Stamp
  <1>5. CASE Read /\ UNCHANGED advice
    BY <1>1, <1>5, ReadRun, RunningKeeps DEF SizingInv, Read
  <1>6. CASE Analyse /\ UNCHANGED advice
    BY <1>1, <1>6, AnalyseReports
  <1>7. ASSUME NEW target \in Targets, NEW mode \in {"cost", "ha"}, Recommend(target, mode)
        PROVE SizingInv'
    BY <1>1, <1>7, RecommendAdvises
  <1>8. CASE Again
    <2>1. UNCHANGED <<measured, results>> /\ ~Advised'
      BY <1>8 DEF Again, Advised
    <2>2. QED
      BY <1>1, <2>1, ReportStays DEF SizingInv, AdviceInv
  <1>9. CASE UNCHANGED vars
    <2>1. UNCHANGED <<measured, results, advice>> /\ profile' = profile
      BY <1>9 DEF vars, results
    <2>2. RunInv' /\ EvidenceInv' /\ ReportInv'
      BY <1>1, <2>1, ReportStays
    <2>3. AdviceInv'
      BY <1>1, <2>1, AdviceFrame DEF SizingInv, AdviceInv, Advised
    <2>4. QED
      BY <2>2, <2>3 DEF SizingInv
  <1>10. QED
    BY <1>1, <1>2, <1>3, <1>4, <1>5, <1>6, <1>7, <1>8, <1>9 DEF Next

\* SizingInv holds in every state: the log, metrics.csv, profile.csv, the report and the
\* advice are what analyze.py and recommend.py make of each other.
THEOREM SizingInvariance == Spec => []SizingInv
  BY InitRun, SizingNext, PTL DEF Spec

(***************************************************************************)
(* What the profile holds.                                                 *)
(***************************************************************************)
\* A window has finitely many durations, each a number of times.
LEMMA WindowFacts ==
    ASSUME RunInv, NEW w \in DOMAIN load
    PROVE  /\ IsFiniteSet(DOMAIN load[w]) /\ DOMAIN load[w] \subseteq Nat
           /\ \A d \in DOMAIN load[w] : load[w][d] \in Nat
  <1>1. load[w] \in Loads
    BY ElementOf DEF RunInv
  <1>2. QED
    BY <1>1, LoadProfileAssumption

\* The windows of a bucket have durations, finitely many, and they add up to more than 0.
LEMMA DurFacts ==
    ASSUME RunInv, NEW b \in buckets
    PROVE  /\ DOMAIN dur(b) \subseteq Nat /\ IsFiniteSet(DOMAIN dur(b))
           /\ \A d \in DOMAIN dur(b) : dur(b)[d] \in Nat
           /\ SumFunction(dur(b)) > 0
  <1> DEFINE windows == WindowsOf(b)
             D(w) == DOMAIN load[w]
             durations == UNION {D(w) : w \in windows}
             times(w, d) == IF d \in DOMAIN load[w] THEN load[w][d] ELSE 0
             per(d) == [w \in windows |-> times(w, d)]
  <1>1. windows \subseteq DOMAIN load /\ windows # {} /\ IsFiniteSet(windows)
    <2>1. windows \subseteq DOMAIN load /\ windows # {}
      BY DEF WindowsOf, buckets
    <2>2. DOMAIN load = 1 .. now /\ now \in Nat
      BY LoadProfileAssumption DEF RunInv, now
    <2>3. IsFiniteSet(1 .. now)
      BY <2>2, FS_Interval
    <2>4. QED
      BY <2>1, <2>2, <2>3, FS_Subset
  <1>2. \A w \in windows : /\ IsFiniteSet(D(w)) /\ D(w) \subseteq Nat
                            /\ \A d \in D(w) : load[w][d] \in Nat
    BY <1>1, WindowFacts
  <1>3. dur(b) = [d \in durations |-> SumFunction(per(d))]
    BY DEF dur
  <1> HIDE DEF windows, D
  <1>4. durations \subseteq Nat /\ IsFiniteSet(durations)
    <2>1. durations \subseteq Nat
      BY <1>2
    <2> DEFINE T == {D(w) : w \in windows}
               f == [w \in windows |-> D(w)]
    <2>2. f \in Surjection(windows, T)
      BY DEF Surjection
    <2>3. IsFiniteSet(T)
      <3> HIDE DEF T, f
      <3>1. QED
        BY <1>1, <2>2, FS_Surjection
    <2>4. \A t \in T : IsFiniteSet(t)
      BY <1>2
    <2>5. IsFiniteSet(UNION T)
      <3> HIDE DEF T
      <3>1. QED
        BY <2>3, <2>4, FS_UNION
    <2>6. QED
      BY <2>1, <2>5
  <1>5. \A w \in windows, d \in durations : times(w, d) \in Nat
    BY <1>2 DEF D
  <1>6. \A d \in durations :
          /\ SumFunction(per(d)) \in Nat
          /\ \A w \in windows : times(w, d) <= SumFunction(per(d))
    <2> SUFFICES ASSUME NEW d \in durations
                 PROVE  /\ SumFunction(per(d)) \in Nat
                        /\ \A w \in windows : times(w, d) <= SumFunction(per(d))
      OBVIOUS
    <2> DEFINE f == per(d)
    <2>1. DOMAIN f = windows /\ \A w \in windows : f[w] = times(w, d) /\ f[w] \in Nat
      BY <1>5
    <2> HIDE DEF f
    <2>2. SumFunctionOnSet(f, windows) \in Nat
          /\ \A w \in windows : f[w] <= SumFunctionOnSet(f, windows)
      BY <1>1, <2>1, SumOfNaturals
    <2>3. SumFunction(f) = SumFunctionOnSet(f, windows)
      BY <2>1 DEF SumFunction
    <2>4. QED
      BY <2>1, <2>2, <2>3 DEF f
  <1>7. PICK w \in windows : \E d \in D(w) : load[w][d] > 0
    <2>1. PICK w \in windows : TRUE
      BY <1>1
    <2>2. SumFunctionOnSet(load[w], D(w)) > 0
      BY <2>1 DEF windows, WindowsOf, reqs, SumFunction, D
    <2>3. \E d \in D(w) : load[w][d] > 0
      BY <1>2, <2>1, <2>2, SumPositive
    <2>4. QED
      BY <2>1, <2>3
  <1>8. PICK d \in D(w) : load[w][d] > 0
    BY <1>7
  <1>9. d \in durations /\ times(w, d) = load[w][d] /\ times(w, d) \in Nat
    BY <1>2, <1>8 DEF D
  <1> DEFINE g == dur(b)
  <1>10. DOMAIN g = durations /\ \A e \in durations : g[e] \in Nat
    BY <1>3, <1>6
  <1>11. g[d] > 0
    <2>1. g[d] = SumFunction(per(d))
      BY <1>3, <1>9
    <2>2. SumFunction(per(d)) \in Nat /\ times(w, d) <= SumFunction(per(d))
      BY <1>6, <1>8, <1>9
    <2> HIDE DEF g, per, times
    <2>3. QED
      BY <1>8, <1>9, <2>1, <2>2
  <1> HIDE DEF g, durations
  <1>12. SumFunctionOnSet(g, durations) \in Nat /\ g[d] <= SumFunctionOnSet(g, durations)
    BY <1>4, <1>9, <1>10, SumOfNaturals
  <1>13. SumFunction(g) = SumFunctionOnSet(g, durations)
    BY <1>10 DEF SumFunction
  <1>14. g[d] \in Nat
    BY <1>9, <1>10
  <1>15. SumFunction(g) > 0
    BY <1>11, <1>12, <1>13, <1>14
  <1>16. QED
    BY <1>4, <1>10, <1>15 DEF g

\* So the percentile of a bucket exists.
LEMMA PercentileIsNat == ASSUME RunInv, NEW b \in buckets PROVE pct(dur(b), 95) \in Nat
  <1> DEFINE g == dur(b)
  <1>1. DOMAIN g \subseteq Nat /\ IsFiniteSet(DOMAIN g) /\ SumFunction(g) > 0
        /\ \A d \in DOMAIN g : g[d] \in Nat
    BY DurFacts
  <1> HIDE DEF g
  <1>2. pct(g, 95) \in Nat
    BY <1>1, PctIsNat
  <1>3. QED
    BY <1>2 DEF g

\* What profile.csv has of the rows of metrics.csv are numbers.
LEMMA RowAverages ==
    ASSUME RunInv, NEW b
    PROVE  ProfileRow(b).replicas \in Nat /\ ProfileRow(b).cpu \in Nat
  <1> DEFINE f == [i \in RowsOf(b) |-> csv[i].replicas]
             g == [i \in RowsOf(b) |-> csv[i].cpu]
  <1>1. RowsOf(b) \subseteq DOMAIN csv /\ IsFiniteSet(RowsOf(b))
    <2>1. RowsOf(b) \subseteq DOMAIN csv
      BY DEF RowsOf
    <2>2. DOMAIN csv = 1 .. Len(csv) /\ Len(csv) \in Nat
      BY DEF RunInv
    <2>3. IsFiniteSet(1 .. Len(csv))
      BY <2>2, FS_Interval
    <2>4. QED
      BY <2>1, <2>2, <2>3, FS_Subset
  <1>2. \A i \in RowsOf(b) : csv[i].replicas \in Nat /\ csv[i].cpu \in Nat
    <2>1. Ready \cup {0} \subseteq Nat
      BY LoadProfileAssumption
    <2>2. ASSUME NEW i \in RowsOf(b) PROVE csv[i].replicas \in Ready \cup {0} /\ csv[i].cpu \in Nat
      <3>1. i \in DOMAIN csv
        BY <1>1
      <3>2. QED
        BY <3>1, RowFacts
    <2>3. QED
      BY <2>1, <2>2
  <1>3. /\ IsFiniteSet(DOMAIN f) /\ \A i \in DOMAIN f : f[i] \in Nat
        /\ IsFiniteSet(DOMAIN g) /\ \A i \in DOMAIN g : g[i] \in Nat
    BY <1>1, <1>2
  <1> HIDE DEF f, g
  <1>4. avg(f, 100) \in Nat
    <2>1. CASE DOMAIN f = {}
      BY <2>1 DEF avg
    <2>2. CASE DOMAIN f # {}
      <3>1. \A i \in DOMAIN f : f[i] \in Nat /\ 0 <= f[i]
        BY <1>3
      <3>2. QED
        BY <1>3, <2>2, <3>1, AvgAtLeast
    <2>3. QED
      BY <2>1, <2>2
  <1>5. avg(g, 10) \in Nat
    <2>1. CASE DOMAIN g = {}
      BY <2>1 DEF avg
    <2>2. CASE DOMAIN g # {}
      <3>1. \A i \in DOMAIN g : g[i] \in Nat /\ 0 <= g[i]
        BY <1>3
      <3>2. QED
        BY <1>3, <2>2, <3>1, AvgAtLeast
    <2>3. QED
      BY <2>1, <2>2
  <1>6. QED
    BY <1>4, <1>5 DEF ProfileRow, f, g

\* Every bucket of the load has its row in profile.csv, and no other has.
LEMMA ProfileFacts ==
    ASSUME SizingInv, ~Running
    PROVE  /\ DOMAIN profile = buckets
           /\ buckets # {} /\ IsFiniteSet(buckets) /\ buckets \subseteq Nat \ {0}
           /\ \A b \in buckets : profile[b] = ProfileRow(b)
           /\ \A b \in buckets : profile[b].replicas \in Nat /\ profile[b].cpu \in Nat
  <1>1. buckets # {} /\ profile = [b \in buckets |-> ProfileRow(b)]
    BY DEF SizingInv, ReportInv
  <1> DEFINE last == 1500
             I == 1 .. last
  <1>2. last \in Nat
    OBVIOUS
  <1>3. buckets \subseteq I /\ I \subseteq Nat \ {0}
    BY DEF buckets, RPS_BUCKETS
  <1> HIDE DEF last
  <1>4. IsFiniteSet(I)
    BY <1>2, FS_Interval
  <1> HIDE DEF I
  <1>5. IsFiniteSet(buckets) /\ buckets \subseteq Nat \ {0}
    BY <1>3, <1>4, FS_Subset
  <1>6. RunInv
    BY DEF SizingInv
  <1>7. \A b \in buckets : profile[b] = ProfileRow(b)
    BY <1>1
  <1>8. QED
    BY <1>1, <1>5, <1>6, <1>7, RowAverages

\* The bucket that the advice is taken from is one of them; its pods are counted as one
\* at least.
LEMMA ChosenBucket ==
    ASSUME SizingInv, Advised
    PROVE  /\ ~Running /\ advice.at \in buckets
           /\ replicas(advice.at) \in Nat \ {0} /\ cpu(advice.at) \in Nat
  <1>1. ~Running /\ advice.at = find_capacity_per_pod
    BY DEF SizingInv, AdviceInv
  <1>2. find_capacity_per_pod \in buckets
    <2> DEFINE within == {b \in DOMAIN profile : profile[b].p95 <= 10 * SLA_MS}
    <2>1. DOMAIN profile = buckets /\ buckets # {} /\ IsFiniteSet(buckets) /\ buckets \subseteq Nat
      BY <1>1, ProfileFacts
    <2>2. within \subseteq buckets /\ within \subseteq Nat /\ IsFiniteSet(within)
      BY <2>1, FS_Subset
    <2>3. find_capacity_per_pod = IF within = {} THEN Min(DOMAIN profile) ELSE Max(within)
      BY DEF find_capacity_per_pod
    <2> HIDE DEF within
    <2>4. QED
      BY <2>1, <2>2, <2>3, MinIn, MaxIn
  <1>3. profile[advice.at].replicas \in Nat /\ profile[advice.at].cpu \in Nat
    BY <1>1, <1>2, ProfileFacts
  <1>4. QED
    BY <1>1, <1>2, <1>3 DEF replicas, cpu

\* The pods recommended for a rate bear it: in bucket b, replicas(b) bore b.
LEMMA CapacityIsEnough ==
    ASSUME NEW t \in Nat, NEW b \in Nat \ {0}, replicas(b) \in Nat \ {0}
    PROVE  /\ recommend_pods(t, b) \in Nat \ {0}
           /\ t * replicas(b) * Safety <= 10000 * b * recommend_pods(t, b)
  <1> DEFINE x == t * replicas(b) * Safety
             y == 100 * 100 * b
             q == CeilDiv(x, y)
  <1>1. x \in Nat /\ y \in Nat \ {0} /\ y = 10000 * b
    BY SizingAssumption
  <1> HIDE DEF x, y
  <1>2. q \in Nat /\ x <= y * q
    BY <1>1, CeilDivUp
  <1>3. recommend_pods(t, b) = Max({1, q})
    BY DEF recommend_pods, x, y
  <1> HIDE DEF q
  <1>4. Max({1, q}) = IF 1 >= q THEN 1 ELSE q
    BY <1>2, MaxOfTwo
  <1> DEFINE m == recommend_pods(t, b)
  <1>5. m \in Nat \ {0} /\ q <= m
    BY <1>2, <1>3, <1>4
  <1> HIDE DEF m
  <1>6. y * q <= y * m
    BY <1>1, <1>2, <1>5
  <1>7. x <= y * m
    BY <1>1, <1>2, <1>5, <1>6
  <1>8. QED
    BY <1>1, <1>5, <1>7 DEF x, m

(***************************************************************************)
(* What the advice promises.                                               *)
(***************************************************************************)
\* A pod at the target uses no more than was measured: from 75 millicores up, the request is
\* at most twice the use, and so even the least target, 50 %, asks for no more than the use.
LEMMA RequestIs ==
    ASSUME NEW b, cpu(b) \in Nat, replicas(b) \in Nat \ {0}, cpu(b) >= 75 * replicas(b)
    PROVE  /\ Request(b) \in Nat /\ TargetCpu(b) \in Nat
           /\ Request(b) * TargetCpu(b) * replicas(b) <= 100 * cpu(b)
  <1> DEFINE c == cpu(b)
             r == replicas(b)
             q == (3 * c) \div (100 * r)
             step == (q + 1) * 50
             R == Request(b)
             u == (100 * c) \div (r * R)
             v == Min({80, u})
             T == TargetCpu(b)
  <1>1. c \in Nat /\ r \in Nat \ {0} /\ c >= 75 * r
    OBVIOUS
  <1>2. R = Max({100, step})
    BY DEF Request
  <1>3. T = Max({50, v})
    BY DEF TargetCpu
  <1> HIDE DEF c, r, R, T
  <1>4. q \in Int /\ step \in Int
    BY <1>1
  <1> HIDE DEF step
  <1>5. R = IF 100 >= step THEN 100 ELSE step
    BY <1>2, <1>4, MaxOfTwo
  <1>6. R \in Nat \ {0}
    BY <1>4, <1>5
  <1>7. r * R \in Nat \ {0}
    BY <1>1, <1>6
  <1>8. u \in Int
    BY <1>1, <1>7
  <1> HIDE DEF u
  <1>9. v = Min({80, u})
    OBVIOUS
  <1> HIDE DEF v
  <1>10. v = IF 80 <= u THEN 80 ELSE u
    BY <1>8, <1>9, MinOfTwo
  <1>11. T = IF 50 >= v THEN 50 ELSE v
    BY <1>3, <1>8, <1>10, MaxOfTwo
  <1> HIDE DEF q
  <1>12. q = (3 * c) \div (100 * r)
    BY DEF q
  <1>13. R = IF 100 >= (q + 1) * 50 THEN 100 ELSE (q + 1) * 50
    BY <1>5 DEF step
  <1>14. u = (100 * c) \div (r * R)
    BY DEF u
  <1>15. v \in Int /\ T \in Int
    BY <1>8, <1>10, <1>11
  <1>16. R \in Nat /\ T \in Nat /\ R * T * r <= 100 * c
    <2> USE <1>1, <1>10, <1>11, <1>12, <1>13, <1>14
    <2>1. q \in Nat /\ 100 * (r * q) <= 3 * c /\ 3 * c < 100 * (r * q) + 100 * r
      <3>1. 100 * r \in Nat \ {0} /\ 3 * c \in Nat
        OBVIOUS
      <3>2. q \in Int /\ (100 * r) * q <= 3 * c /\ 3 * c < (100 * r) * q + 100 * r
        BY <3>1
      <3>3. (100 * r) * q = 100 * (r * q)
        BY <3>2
      <3>4. q < 0 => r * q <= -r
        BY <3>2
      <3>5. QED
        BY <3>2, <3>3, <3>4
    <2>2. R \in Nat \ {0} /\ r * R \in Nat \ {0}
      BY <2>1
    <2>3. u \in Nat /\ (r * R) * u <= 100 * c
      <3> DEFINE d == r * R
      <3>1. d \in Nat \ {0} /\ 100 * c \in Nat
        BY <2>2
      <3> HIDE DEF d
      <3>2. u = (100 * c) \div d
        BY DEF d
      <3>3. u \in Int /\ d * u <= 100 * c /\ 100 * c < d * u + d
        BY <3>1, <3>2
      <3>4. u < 0 => d * u <= -d
        BY <3>1, <3>3
      <3>5. QED
        BY <3>1, <3>3, <3>4 DEF d
    <2>4. r * R <= 2 * c
      <3>1. CASE R = 100
        BY <3>1
      <3>2. CASE R = (q + 1) * 50 /\ c >= 100 * r
        <4>1. r * R = 50 * (r * q) + 50 * r
          BY <2>1, <3>2
        <4>2. QED
          BY <2>1, <3>2, <4>1
      <3>3. CASE R = (q + 1) * 50 /\ c < 100 * r
        <4>1. r * q < r * 3
          BY <2>1, <3>3
        <4>2. q < 3
          BY <2>1, <4>1
        <4>3. R <= 150
          BY <2>1, <3>3, <4>2
        <4>4. r * R <= r * 150
          BY <2>2, <4>3
        <4>5. QED
          BY <2>2, <4>4
      <3>4. QED
        BY <2>1, <3>1, <3>2, <3>3
    <2>5. T \in Nat /\ (T = 50 \/ T <= u)
      BY <2>3
    <2>6. R * T * r = (r * R) * T
      BY <2>2, <2>5
    <2>7. CASE T = 50
      BY <2>2, <2>4, <2>5, <2>6, <2>7
    <2>8. CASE T <= u
      <3>1. (r * R) * T <= (r * R) * u
        BY <2>2, <2>3, <2>5, <2>8
      <3>2. QED
        BY <2>2, <2>3, <2>5, <2>6, <3>1
    <2>9. QED
      BY <2>2, <2>5, <2>7, <2>8
  <1>17. QED
    BY <1>16 DEF c, r, R, T

\* The pods advised are no fewer than those recommended, which bear the rate, and the
\* autoscaler may go up to them.
LEMMA PodsAdvised ==
    ASSUME SizingInv, Advised
    PROVE  /\ advice.pods \in Nat \ {0} /\ advice.min \in Nat
           /\ advice.pods >= recommend_pods(advice.target, advice.at)
           /\ recommend_pods(advice.target, advice.at) \in Nat \ {0}
           /\ advice.target * replicas(advice.at) * Safety
                <= 10000 * advice.at * recommend_pods(advice.target, advice.at)
           /\ advice.min <= advice.max /\ advice.pods <= advice.max
  <1> DEFINE need == recommend_pods(advice.target, advice.at)
             pod == advice.pods
  <1>1. advice.target \in Nat /\ advice.at \in Nat \ {0} /\ replicas(advice.at) \in Nat \ {0}
    BY ChosenBucket, ProfileFacts, SizingAssumption DEF SizingInv, AdviceInv
  <1>2. /\ need \in Nat \ {0}
        /\ advice.target * replicas(advice.at) * Safety <= 10000 * advice.at * need
    BY <1>1, CapacityIsEnough
  <1>3. PICK minimum \in {1, 2} : /\ pod = Max({minimum, need})
                                  /\ advice.min = Max({minimum, 2, pod \div 3})
    BY DEF SizingInv, AdviceInv
  <1>4. advice.max = Max({pod * 2, pod + 2})
    BY DEF SizingInv, AdviceInv
  <1> HIDE DEF need, pod
  <1>5. pod = IF minimum >= need THEN minimum ELSE need
    BY <1>2, <1>3, MaxOfTwo
  <1>6. pod \in Nat \ {0} /\ pod >= need
    BY <1>2, <1>5
  <1> DEFINE third == pod \div 3
             twice == pod * 2
             more == pod + 2
  <1>7. third \in Nat /\ third <= pod /\ twice \in Nat /\ more \in Nat
    BY <1>6
  <1>8. advice.min = Max({minimum, 2, third}) /\ advice.max = Max({twice, more})
    BY <1>3, <1>4
  <1> HIDE DEF third
  <1>9. advice.min \in {minimum, 2, third}
    <2>1. minimum \in Int /\ 2 \in Int /\ third \in Int
      BY <1>7
    <2>2. Max({minimum, 2, third}) \in {minimum, 2, third}
      BY <2>1, MaxOfThree
    <2>3. QED
      BY <1>8, <2>2
  <1>10. advice.max = IF twice >= more THEN twice ELSE more
    <2> HIDE DEF twice, more
    <2>1. QED
      BY <1>7, <1>8, MaxOfTwo
  <1>11. advice.min \in Nat /\ advice.min <= advice.max /\ pod <= advice.max
    BY <1>6, <1>7, <1>9, <1>10
  <1>12. QED
    BY <1>2, <1>6, <1>11 DEF need, pod

\* The invariant implies that the autoscaler's settings keep the advice.
LEMMA HpaInv == SizingInv => HpaKeepsSizing
  <1> SUFFICES ASSUME SizingInv, Advised, cpu(advice.at) >= 75 * replicas(advice.at)
               PROVE  /\ advice.request * advice.targetCPU * replicas(advice.at) <= 100 * cpu(advice.at)
                      /\ advice.min <= advice.max /\ advice.pods <= advice.max
    BY DEF HpaKeepsSizing
  <1>1. advice.request = Request(advice.at) /\ advice.targetCPU = TargetCpu(advice.at)
    BY DEF SizingInv, AdviceInv
  <1>2. QED
    BY <1>1, ChosenBucket, RequestIs, PodsAdvised

\* The settings that recommend.py prints for the autoscaler keep the number of pods it
\* prints, whatever was measured.
THEOREM SizingKeepsHpa == Spec => []HpaKeepsSizing
  BY SizingInvariance, HpaInv, PTL

\* What rounding may hide: a bucket that keeps the limit keeps it in profile.csv as well,
\* and one that keeps it there exceeds it by half a tenth at most.
LEMMA LimitRounded ==
    ASSUME SizingInv, ~Running, NEW b \in buckets
    PROVE  /\ profile[b].p95 \in Nat /\ pct(dur(b), 95) \in Nat
           /\ ~Exceeds(b) => profile[b].p95 <= 10 * SLA_MS
           /\ profile[b].p95 <= 10 * SLA_MS => pct(dur(b), 95) <= 100 * SLA_MS + 5
  <1> DEFINE p == pct(dur(b), 95)
             R == Round(p, 10)
  <1>1. p \in Nat
    BY PercentileIsNat DEF SizingInv
  <1>2. profile[b].p95 = R
    <2>1. profile[b] = ProfileRow(b)
      BY ProfileFacts
    <2>2. QED
      BY <2>1 DEF ProfileRow
  <1>3. Exceeds(b) <=> p > 100 * SLA_MS
    BY DEF Exceeds
  <1>4. SLA_MS \in Nat
    BY LoadProfileAssumption
  <1> HIDE DEF p
  <1>5. R \in Nat /\ 2 * p - 10 <= 2 * (10 * R) /\ 2 * (10 * R) <= 2 * p + 10
    <2> DEFINE ten == 10
    <2>1. ten \in Nat \ {0}
      OBVIOUS
    <2> HIDE DEF ten
    <2>2. Round(p, ten) \in Nat /\ 2 * p - ten <= 2 * (ten * Round(p, ten))
            /\ 2 * (ten * Round(p, ten)) <= 2 * p + ten
      BY <1>1, <2>1, RoundB
    <2>3. QED
      BY <2>2 DEF ten
  <1> HIDE DEF R
  <1>6. QED
    BY <1>1, <1>2, <1>3, <1>4, <1>5 DEF p

\* The invariant implies that the advice and the report agree.
LEMMA FollowsInv == SizingInv => AdviceFollowsReport
  <1> SUFFICES ASSUME SizingInv, Advised
               PROVE  /\ breach = 0 => advice.at = Max(DOMAIN profile)
                      /\ (\E b \in buckets : ~Exceeds(b)) => pct(dur(advice.at), 95) <= 100 * SLA_MS + 5
    BY DEF AdviceFollowsReport
  <1> DEFINE within == {b \in DOMAIN profile : profile[b].p95 <= 10 * SLA_MS}
             over == {b \in buckets : Exceeds(b)}
  <1>1. /\ ~Running
        /\ advice.at = IF within = {} THEN Min(DOMAIN profile) ELSE Max(within)
    BY DEF SizingInv, AdviceInv, find_capacity_per_pod
  <1>2. /\ DOMAIN profile = buckets
        /\ buckets # {} /\ IsFiniteSet(buckets) /\ buckets \subseteq Nat \ {0}
    BY <1>1, ProfileFacts
  <1>3. breach = IF \E b \in buckets : Exceeds(b) THEN Min(over) ELSE 0
    BY <1>1 DEF SizingInv, ReportInv
  <1>4. breach = 0 => advice.at = Max(DOMAIN profile)
    <2> SUFFICES ASSUME breach = 0 PROVE advice.at = Max(DOMAIN profile)
      OBVIOUS
    <2>1. over = {}
      <3> SUFFICES ASSUME over # {} PROVE FALSE
        OBVIOUS
      <3>1. over \subseteq Nat \ {0}
        BY <1>2
      <3>2. breach = Min(over)
        BY <1>3
      <3> HIDE DEF over
      <3>3. Min(over) \in over
        BY <3>1, MinIn
      <3>4. QED
        BY <3>1, <3>2, <3>3
    <2>2. \A b \in buckets : profile[b].p95 <= 10 * SLA_MS
      BY <1>1, <2>1, LimitRounded
    <2>3. within = DOMAIN profile
      BY <1>2, <2>2
    <2>4. QED
      BY <1>1, <1>2, <2>3
  <1>5. ASSUME NEW b \in buckets, ~Exceeds(b)
        PROVE  pct(dur(advice.at), 95) <= 100 * SLA_MS + 5
    <2>1. b \in within
      BY <1>1, <1>2, <1>5, LimitRounded
    <2>2. within \subseteq buckets /\ within \subseteq Nat /\ IsFiniteSet(within)
      BY <1>2, FS_Subset
    <2>3. advice.at = Max(within)
      BY <1>1, <2>1
    <2>4. advice.at \in within
      <3> HIDE DEF within
      <3>1. QED
        BY <2>1, <2>2, <2>3, MaxIn
    <2>5. advice.at \in buckets /\ profile[advice.at].p95 <= 10 * SLA_MS
      BY <2>2, <2>4
    <2>6. QED
      BY <1>1, <2>5, LimitRounded
  <1>6. QED
    BY <1>4, <1>5

\* How many requests a window had is a number.
LEMMA ReqsIsNat == ASSUME RunInv, NEW w \in DOMAIN load PROVE reqs(w) \in Nat
  <1> DEFINE l == load[w]
  <1>1. IsFiniteSet(DOMAIN l) /\ \A d \in DOMAIN l : l[d] \in Nat
    <2>1. l \in Loads
      BY DEF RunInv
    <2>2. QED
      BY <2>1, LoadProfileAssumption
  <1> HIDE DEF l
  <1>2. SumFunctionOnSet(l, DOMAIN l) \in Nat
    BY <1>1, SumOfNaturals
  <1>3. QED
    BY <1>2 DEF l, reqs, SumFunction

\* A bucket's upper end is at most two and a half times its lower end, but for the
\* lowest bucket.
LEMMA BucketOverstates ==
    ASSUME NEW n \in Nat, bucket_for(n) > Min(RPS_BUCKETS)
    PROVE  2 * bucket_for(n) * WINDOW <= 5 * n
  <1> DEFINE above == {b \in RPS_BUCKETS : n <= b * WINDOW}
  <1>1. Min(RPS_BUCKETS) \in RPS_BUCKETS /\ \A b \in RPS_BUCKETS : Min(RPS_BUCKETS) <= b
    BY MinIn DEF RPS_BUCKETS
  <1>2. Min(RPS_BUCKETS) = 10
    BY <1>1 DEF RPS_BUCKETS
  <1>3. CASE above = {}
    <2>1. IsFiniteSet(RPS_BUCKETS)
      <3> DEFINE last == 1500
                 I == 1 .. last
      <3>1. last \in Nat /\ RPS_BUCKETS \subseteq I
        BY DEF RPS_BUCKETS
      <3> HIDE DEF last
      <3>2. IsFiniteSet(I)
        BY <3>1, FS_Interval
      <3> HIDE DEF I
      <3>3. QED
        BY <3>1, <3>2, FS_Subset
    <2>2. Max(RPS_BUCKETS) \in RPS_BUCKETS
      BY <2>1, MaxIn DEF RPS_BUCKETS
    <2>3. bucket_for(n) = Max(RPS_BUCKETS)
      BY <1>3 DEF bucket_for
    <2>4. bucket_for(n) \in RPS_BUCKETS /\ bucket_for(n) * WINDOW < n
      BY <1>3, <2>2, <2>3 DEF RPS_BUCKETS, WINDOW
    <2>5. QED
      BY <2>4 DEF RPS_BUCKETS, WINDOW
  <1>4. CASE above # {}
    <2>1. Min(above) \in above /\ \A b \in above : Min(above) <= b
      BY <1>4, MinIn DEF RPS_BUCKETS
    <2>2. bucket_for(n) = Min(above)
      BY <1>4 DEF bucket_for
    <2> DEFINE at == bucket_for(n)
    <2>3. at \in RPS_BUCKETS /\ \A b \in RPS_BUCKETS : b < at => b * WINDOW < n
      <3>1. at \in above /\ \A b \in above : at <= b
        BY <2>1, <2>2
      <3> HIDE DEF at
      <3>2. QED
        BY <3>1 DEF RPS_BUCKETS, WINDOW
    <2>4. at > 10
      BY <1>2
    <2> HIDE DEF at
    <2>5. 2 * at * WINDOW <= 5 * n
      BY <2>3, <2>4 DEF RPS_BUCKETS, WINDOW
    <2>6. QED
      BY <2>5 DEF at
  <1>5. QED
    BY <1>3, <1>4

\* The invariant implies that some window is evidence for the advice: the one with the
\* fewest pods, as the average is no less.
LEMMA EvidenceSuffices == SizingInv => SizedByEvidence
  <1> DEFINE at == advice.at
             R == RowsOf(at)
             f == [i \in R |-> csv[i].replicas]
  <1> SUFFICES ASSUME SizingInv, Advised, clean, \E i \in DOMAIN csv : csv[i].win \in WindowsOf(at)
               PROVE  \E w \in WindowsOf(at) : \E n \in had[w] :
                          /\ advice.target * n * Safety <= 100 * at * advice.pods
                          /\ at > Min(RPS_BUCKETS) =>
                                2 * WINDOW * (advice.target * n * Safety)
                                    <= 5 * 100 * reqs(w) * advice.pods
    BY DEF SizedByEvidence
  <1>1. R # {} /\ R \subseteq DOMAIN csv /\ IsFiniteSet(R)
    <2>1. R # {} /\ R \subseteq DOMAIN csv
      BY DEF RowsOf
    <2>2. DOMAIN csv = 1 .. Len(csv) /\ Len(csv) \in Nat
      BY DEF SizingInv, RunInv
    <2>3. IsFiniteSet(DOMAIN csv)
      BY <2>2, FS_Interval
    <2>4. QED
      BY <2>1, <2>3, FS_Subset
  <1>2. ASSUME NEW i \in R
        PROVE  /\ csv[i].win \in WindowsOf(at)
               /\ csv[i].replicas \in had[csv[i].win]
               /\ csv[i].replicas \in Nat \ {0}
    <2>1. i \in DOMAIN csv /\ csv[i].win \in WindowsOf(at)
      BY DEF RowsOf
    <2>2. csv[i].replicas \in had[csv[i].win]
      BY <2>1 DEF SizingInv, EvidenceInv
    <2>3. csv[i].win \in 1 .. now
      BY <2>1, RowFacts DEF SizingInv
    <2>4. DOMAIN had = 1 .. now /\ had \in Seq(SUBSET Ready)
      BY DEF SizingInv, RunInv
    <2>5. had[csv[i].win] \in SUBSET Ready
      BY <2>3, <2>4, ElementOf
    <2>6. QED
      BY <2>1, <2>2, <2>5, LoadProfileAssumption
  <1>3. PICK j \in R : \A i \in R : csv[j].replicas <= csv[i].replicas
    <2> DEFINE N == {csv[i].replicas : i \in R}
    <2>1. N \subseteq Nat /\ N # {}
      BY <1>1, <1>2
    <2>2. \E m \in N : \A n \in N : m <= n
      <3> HIDE DEF N
      <3>1. QED
        BY <2>1, NatLeast
    <2>3. QED
      BY <2>2
  <1> DEFINE k == csv[j].replicas
             w == csv[j].win
  <1>4. k \in Nat \ {0} /\ w \in WindowsOf(at) /\ k \in had[w]
    BY <1>2
  <1>5. DOMAIN f = R /\ \A i \in R : f[i] \in Nat /\ k <= f[i]
    BY <1>2, <1>3
  <1>6. profile[at].replicas = avg(f, 100)
    <2>1. profile[at] = ProfileRow(at)
      BY ChosenBucket, ProfileFacts
    <2>2. QED
      BY <2>1 DEF ProfileRow
  <1>7. avg(f, 100) \in Nat /\ 100 * k <= avg(f, 100)
    <2> DEFINE scale == 100
    <2>1. scale \in Nat
      OBVIOUS
    <2> HIDE DEF scale, f, k, R
    <2>2. avg(f, scale) \in Nat /\ scale * k <= avg(f, scale)
      BY <1>1, <1>4, <1>5, <2>1, AvgAtLeast
    <2>3. QED
      BY <2>2 DEF scale
  <1> HIDE DEF f, k
  <1>8. replicas(at) \in Nat /\ 100 * k <= replicas(at)
    BY <1>4, <1>6, <1>7 DEF replicas
  <1>9. advice.target * k * Safety <= 100 * at * advice.pods
    <2> DEFINE t == advice.target
               r == replicas(at)
               need == recommend_pods(t, at)
               pod == advice.pods
    <2>1. t \in Nat /\ at \in Nat \ {0} /\ Safety \in Nat
      BY ChosenBucket, ProfileFacts, SizingAssumption DEF SizingInv, AdviceInv
    <2>2. need \in Nat /\ pod \in Nat /\ pod >= need /\ t * r * Safety <= 10000 * at * need
      BY PodsAdvised
    <2>3. r \in Nat /\ 100 * k <= r /\ k \in Nat
      BY <1>4, <1>8
    <2> HIDE DEF t, r, need, pod, at
    <2>4. (t * Safety) * (100 * k) <= (t * Safety) * r
      <3> DEFINE ts == t * Safety
      <3>1. ts \in Nat
        BY <2>1
      <3> HIDE DEF ts
      <3>2. ts * (100 * k) <= ts * r
        BY <2>3, <3>1
      <3>3. QED
        BY <3>2 DEF ts
    <2>5. at * need <= at * pod
      BY <2>1, <2>2
    <2>6. 100 * (t * k * Safety) = (t * Safety) * (100 * k) /\ t * r * Safety = (t * Safety) * r
      BY <2>1, <2>3
    <2>7. 10000 * at * need = 10000 * (at * need) /\ 100 * at * pod = 100 * (at * pod)
      BY <2>1, <2>2
    <2>8. t * k * Safety \in Nat /\ at * pod \in Nat /\ at * need \in Nat
      BY <2>1, <2>2, <2>3
    <2>9. t * k * Safety <= 100 * at * pod
      BY <2>1, <2>2, <2>3, <2>4, <2>5, <2>6, <2>7, <2>8
    <2>10. QED
      BY <2>9 DEF t, pod
  <1>10. ASSUME at > Min(RPS_BUCKETS)
         PROVE  2 * WINDOW * (advice.target * k * Safety) <= 5 * 100 * reqs(w) * advice.pods
    <2> DEFINE needed == advice.target * k * Safety
               pod == advice.pods
               n == reqs(w)
    <2>1. w \in DOMAIN load /\ at = bucket_for(n)
      BY <1>4 DEF WindowsOf
    <2>2. n \in Nat
      BY <2>1, ReqsIsNat DEF SizingInv
    <2>3. 2 * at * WINDOW <= 5 * n
      BY <1>10, <2>1, <2>2, BucketOverstates
    <2>4. at \in Nat /\ pod \in Nat /\ needed \in Nat /\ needed <= 100 * at * pod
      <3>1. at \in Nat /\ pod \in Nat
        BY ChosenBucket, ProfileFacts, PodsAdvised
      <3>2. advice.target \in Nat /\ Safety \in Nat /\ k \in Nat
        BY <1>4, SizingAssumption DEF SizingInv, AdviceInv
      <3>3. needed \in Nat
        BY <3>2
      <3>4. QED
        BY <1>9, <3>1, <3>3
    <2> HIDE DEF needed, pod, n, at
    <2>5. (2 * at * WINDOW) * pod <= (5 * n) * pod
      <3> DEFINE x == 2 * at * WINDOW
                 y == 5 * n
      <3>1. x \in Nat /\ y \in Nat /\ x <= y
        BY <2>2, <2>3, <2>4 DEF WINDOW
      <3> HIDE DEF x, y
      <3>2. x * pod <= y * pod
        BY <2>4, <3>1
      <3>3. QED
        BY <3>2 DEF x, y
    <2>6. /\ (2 * at * WINDOW) * pod = 20 * (at * pod) /\ (5 * n) * pod = 5 * (n * pod)
          /\ 5 * 100 * n * pod = 500 * (n * pod) /\ 100 * at * pod = 100 * (at * pod)
          /\ at * pod \in Nat /\ n * pod \in Nat
      BY <2>2, <2>4 DEF WINDOW
    <2>7. 2 * WINDOW * needed <= 5 * 100 * n * pod
      BY <2>4, <2>5, <2>6 DEF WINDOW
    <2>8. QED
      BY <2>7 DEF needed, pod, n
  <1>11. QED
    BY <1>4, <1>9, <1>10 DEF k

\* recommend.py and the report of analyze.py read one load alike, up to the rounding of
\* profile.csv.
THEOREM SizingFollowsReport == Spec => []AdviceFollowsReport
  BY SizingInvariance, FollowsInv, PTL

\* If metrics.csv is true, the number of pods that recommend.py advises is borne out
\* by a window of the bucket: at the bucket's upper end, and so, from the second bucket
\* on, at two and a half times that window's rate.
THEOREM SizingByEvidence == Spec => []SizedByEvidence
  BY SizingInvariance, EvidenceSuffices, PTL
=============================================================================
