--------------------------- MODULE ComputationProofs ---------------------------
(***************************************************************************)
(* Proofs, for every value of their constants, that what is computed is     *)
(* what was meant: the feature calculators (FeatureCalculators) and the     *)
(* quality rules of a partition (QualityRules).  Both walk along a list     *)
(* with a fold or a recursion; what it keeps is carried from one position   *)
(* to the next.                                                             *)
(***************************************************************************)
EXTENDS FeatureCalculators, QualityRules, TLAPS, WellFoundedInduction,
        SequenceTheorems, FiniteSetTheorems

-----------------------------------------------------------------------------
(* Numbers                                                                  *)

(* A set of numbers that is not empty has a least one, and Min names it.    *)
LEMMA MinIsLeast ==
  ASSUME NEW S \in SUBSET Nat, S # {}
  PROVE  Min(S) \in S /\ \A k \in S : Min(S) <= k
<1> DEFINE R == OpToRel(<, Nat)
<1>1. \E n \in S : \A k \in S : ~(<<k, n>> \in R)
  <2>1. IsWellFoundedOn(R, Nat)
    BY NatLessThanWellFounded
  <2> HIDE DEF R
  <2> QED BY <2>1, WFMin
<1>2. \A n, k \in S : ~(<<k, n>> \in R) => n <= k
  BY DEF OpToRel
<1>3. \E n \in S : \A k \in S : n <= k
  BY <1>1, <1>2
<1> QED BY <1>3 DEF Min

(* Numbers up to a bound, if there are any, have a greatest one.            *)
LEMMA MaxIsGreatest ==
  ASSUME NEW N \in Nat, NEW S \in SUBSET (0 .. N), S # {}
  PROVE  Max(S) \in S /\ \A k \in S : k <= Max(S)
<1> DEFINE D == {d \in 0 .. N : N - d \in S}
<1>1. D \in SUBSET Nat /\ \A k \in S : N - k \in D
  OBVIOUS
<1>2. D # {}
  BY <1>1
<1>3. Min(D) \in D /\ \A d \in D : Min(D) <= d
  BY <1>1, <1>2, MinIsLeast
<1>4. PICK d \in D : \A e \in D : d <= e
  BY <1>3
<1>5. N - d \in S /\ \A k \in S : N - d >= k
  BY <1>1, <1>4
<1> QED BY <1>5 DEF Max

-----------------------------------------------------------------------------
(* Folds                                                                    *)

(* What a fold computes on the sets of the first n positions: it takes the  *)
(* greatest position last.                                                  *)
IsIterated(it, n, b, F) ==
  \A t \in SUBSET (1 .. n) :
    it[t] = IF t = {} THEN b ELSE F[<<Max(t), it[t \ {Max(t)}]>>]

(* Of a position and those before it, it is the greatest.                   *)
LEMMA MaxOfFirst ==
  ASSUME NEW k \in Nat, NEW t \in SUBSET (1 .. k + 1), k + 1 \in t
  PROVE  Max(t) = k + 1 /\ t \ {k + 1} \in SUBSET (1 .. k)
<1>1. t \in SUBSET (0 .. k + 1) /\ t # {} /\ k + 1 \in Nat
  OBVIOUS
<1>2. Max(t) \in t /\ \A i \in t : i <= Max(t)
  BY <1>1, MaxIsGreatest
<1>3. Max(t) \in 1 .. k + 1 /\ k + 1 <= Max(t)
  BY <1>2
<1> HIDE DEF Max
<1> QED BY <1>3

(* A step that takes a position and a value to a value can be iterated.     *)
LEMMA IterationExists ==
  ASSUME NEW n \in Nat, NEW B, NEW b \in B, NEW F \in [(1 .. n) \X B -> B]
  PROVE  \E it \in [SUBSET (1 .. n) -> B] : IsIterated(it, n, b, F)
<1> DEFINE Good(k) == \E it \in [SUBSET (1 .. k) -> B] : IsIterated(it, k, b, F)
<1> DEFINE Bad == {k \in 0 .. n : ~Good(k)}
<1>1. Good(0)
  <2> DEFINE it == [t \in SUBSET (1 .. 0) |-> b]
  <2>1. \A t \in SUBSET (1 .. 0) : t = {}
    OBVIOUS
  <2>2. it \in [SUBSET (1 .. 0) -> B] /\ IsIterated(it, 0, b, F)
    BY <2>1 DEF IsIterated
  <2> HIDE DEF it
  <2> QED BY <2>2
<1>2. ASSUME NEW k \in 0 .. n - 1, Good(k) PROVE Good(k + 1)
  <2>1. PICK g \in [SUBSET (1 .. k) -> B] : IsIterated(g, k, b, F)
    BY <1>2
  <2> DEFINE it == [t \in SUBSET (1 .. k + 1) |->
                      IF k + 1 \in t THEN F[<<k + 1, g[t \ {k + 1}]>>] ELSE g[t]]
  <2>2. k \in Nat /\ k + 1 \in 1 .. n
    OBVIOUS
  <2>3. ASSUME NEW t \in SUBSET (1 .. k + 1), k + 1 \notin t PROVE t \in SUBSET (1 .. k)
    BY <2>2, <2>3
  <2>4. ASSUME NEW t \in SUBSET (1 .. k + 1)
        PROVE  it[t] \in B /\ it[t] = IF t = {} THEN b ELSE F[<<Max(t), it[t \ {Max(t)}]>>]
    <3>1. CASE k + 1 \in t
      <4>1. Max(t) = k + 1 /\ t \ {k + 1} \in SUBSET (1 .. k)
        BY <2>2, <3>1, MaxOfFirst
      <4>2. it[t] = F[<<k + 1, g[t \ {k + 1}]>>]
        BY <3>1
      <4>3. it[t \ {k + 1}] = g[t \ {k + 1}]
        BY <4>1, <2>2
      <4>4. g[t \ {k + 1}] \in B
        BY <4>1
      <4> HIDE DEF it
      <4> QED BY <2>2, <3>1, <4>1, <4>2, <4>3, <4>4
    <3>2. CASE k + 1 \notin t
      <4>1. t \in SUBSET (1 .. k) /\ it[t] = g[t]
        BY <2>3, <3>2
      <4>2. g[t] \in B /\ g[t] = IF t = {} THEN b ELSE F[<<Max(t), g[t \ {Max(t)}]>>]
        BY <2>1, <4>1 DEF IsIterated
      <4>3. it[t \ {Max(t)}] = g[t \ {Max(t)}]
        BY <3>2
      <4> HIDE DEF it
      <4> QED BY <4>1, <4>2, <4>3
    <3> QED BY <3>1, <3>2
  <2>5. it \in [SUBSET (1 .. k + 1) -> B]
    BY <2>4
  <2> HIDE DEF it
  <2>6. IsIterated(it, k + 1, b, F)
    BY <2>4 DEF IsIterated
  <2> QED BY <2>5, <2>6
<1>3. Bad \in SUBSET Nat
  OBVIOUS
<1>4. ASSUME Bad # {} PROVE FALSE
  <2>1. PICK m \in Bad : \A k \in Bad : m <= k
    BY <1>3, <1>4, MinIsLeast
  <2>2. m \in 0 .. n /\ ~Good(m)
    BY <2>1
  <2> HIDE DEF Good
  <2>3. m # 0
    BY <1>1, <2>2
  <2>4. m - 1 \in 0 .. n - 1 /\ m - 1 \in 0 .. n /\ (m - 1) + 1 = m
    BY <2>2, <2>3
  <2>5. Good(m - 1)
    BY <2>1, <2>4
  <2>6. Good((m - 1) + 1)
    BY <1>2, <2>4, <2>5
  <2> QED BY <2>2, <2>4, <2>6
<1> HIDE DEF Good
<1>5. Good(n)
  BY <1>4
<1> QED BY <1>5 DEF Good

(* The first k positions are the kth and the ones before it.                *)
LEMMA FirstPositions ==
  ASSUME NEW n \in Nat, NEW k \in 1 .. n
  PROVE  /\ 1 .. k \in SUBSET (1 .. n) /\ 1 .. k # {}
         /\ Max(1 .. k) = k /\ (1 .. k) \ {Max(1 .. k)} = 1 .. k - 1
<1>1. k - 1 \in Nat /\ (k - 1) + 1 = k /\ 1 .. k \in SUBSET (1 .. n) /\ 1 .. k # {}
  OBVIOUS
<1>2. 1 .. k \in SUBSET (1 .. (k - 1) + 1) /\ (k - 1) + 1 \in 1 .. k
  BY <1>1
<1>3. Max(1 .. k) = k
  BY <1>1, <1>2, MaxOfFirst
<1>4. (1 .. k) \ {k} = 1 .. k - 1
  BY <1>1
<1> QED BY <1>1, <1>3, <1>4

(* What is known of a fold's steps on the values it reaches.                *)
StepsFollow(it, n, B, b, F) ==
  /\ n \in Nat /\ b \in B /\ F \in [(1 .. n) \X B -> B]
  /\ it[{}] = b
  /\ \A k \in 1 .. n : it[1 .. k - 1] \in B => it[1 .. k] = F[<<k, it[1 .. k - 1]>>]

StepsListed(it, n, B, b, F) ==
  \E g \in [0 .. n -> B] :
    /\ g[0] = b /\ g[n] = it[1 .. n]
    /\ \A k \in 1 .. n : g[k] = F[<<k, g[k - 1]>>]

(* A fold whose steps are known on the values it reaches is the last of a   *)
(* list of values, each the step from the one before.                       *)
LEMMA IterationSteps ==
  \A it, n, B, b, F : StepsFollow(it, n, B, b, F) => StepsListed(it, n, B, b, F)
<1> SUFFICES ASSUME NEW it, NEW n, NEW B, NEW b, NEW F, StepsFollow(it, n, B, b, F)
             PROVE  StepsListed(it, n, B, b, F)
  OBVIOUS
<1>0. n \in Nat /\ b \in B /\ F \in [(1 .. n) \X B -> B] /\ it[{}] = b
  BY DEF StepsFollow
<1> DEFINE g == [k \in 0 .. n |-> it[1 .. k]]
<1>1. g = [k \in 0 .. n |-> g[k]] /\ \A k \in 0 .. n : g[k] = it[1 .. k]
  OBVIOUS
<1> HIDE DEF g
<1>2. g[0] = b
  <2>1. 1 .. 0 = {}
    OBVIOUS
  <2> QED BY <1>0, <2>1, <1>1
<1>3. ASSUME NEW k \in 1 .. n, g[k - 1] \in B PROVE g[k] = F[<<k, g[k - 1]>>] /\ g[k] \in B
  <2>1. g[k] = it[1 .. k] /\ g[k - 1] = it[1 .. k - 1]
    BY <1>0, <1>1
  <2>2. g[k] = F[<<k, g[k - 1]>>]
    BY <1>3, <2>1 DEF StepsFollow
  <2> QED BY <1>0, <1>3, <2>2
<1> DEFINE Bad == {k \in 0 .. n : g[k] \notin B}
<1>4. Bad = {}
  <2>1. Bad \in SUBSET Nat
    BY <1>0
  <2> SUFFICES ASSUME Bad # {} PROVE FALSE
    OBVIOUS
  <2>2. PICK m \in Bad : \A k \in Bad : m <= k
    BY <2>1, MinIsLeast
  <2>3. m \in 0 .. n /\ g[m] \notin B /\ m # 0
    BY <1>0, <1>2, <2>2
  <2>4. m \in 1 .. n /\ m - 1 \in 0 .. n /\ m - 1 \notin Bad
    BY <1>0, <2>2, <2>3
  <2>5. g[m - 1] \in B
    BY <2>4
  <2> QED BY <1>3, <2>3, <2>4, <2>5
<1>5. \A k \in 0 .. n : g[k] \in B
  BY <1>4
<1>6. g \in [0 .. n -> B] /\ g[n] = it[1 .. n] /\ \A k \in 1 .. n : g[k - 1] \in B
  BY <1>0, <1>1, <1>5
<1> QED BY <1>2, <1>3, <1>6 DEF StepsListed

(* A step that takes a position and a value to a value can be listed.       *)
StepOn(n, B, b, F) == n \in Nat /\ b \in B /\ F \in [(1 .. n) \X B -> B]
ListOf(n, B, b, F) ==
  \E g \in [0 .. n -> B] : g[0] = b /\ \A k \in 1 .. n : g[k] = F[<<k, g[k - 1]>>]

(* Such a step has its list.                                                *)
LEMMA ListExists == \A n, B, b, F : StepOn(n, B, b, F) => ListOf(n, B, b, F)
<1> SUFFICES ASSUME NEW n, NEW B, NEW b, NEW F, StepOn(n, B, b, F) PROVE ListOf(n, B, b, F)
  OBVIOUS
<1>0. n \in Nat /\ b \in B /\ F \in [(1 .. n) \X B -> B]
  BY DEF StepOn
<1>1. PICK it \in [SUBSET (1 .. n) -> B] : IsIterated(it, n, b, F)
  BY <1>0, IterationExists
<1>2. it[{}] = b
  BY <1>0, <1>1 DEF IsIterated
<1>3. ASSUME NEW k \in 1 .. n PROVE it[1 .. k] = F[<<k, it[1 .. k - 1]>>]
  BY <1>0, <1>1, FirstPositions DEF IsIterated
<1>4. StepsFollow(it, n, B, b, F)
  BY <1>0, <1>2, <1>3 DEF StepsFollow
<1>5. StepsListed(it, n, B, b, F)
  BY <1>4, IterationSteps
<1> QED BY <1>5 DEF StepsListed, ListOf

-----------------------------------------------------------------------------
(* Recursion over an interval                                               *)

(* What holds of the first number of an interval, and of a number if of the *)
(* one before, holds of all of them.                                        *)
Upwards(a, b, G) == (a <= b => a \in G) /\ \A k \in a + 1 .. b : k - 1 \in G => k \in G

(* Such a set has all of the interval.                                      *)
LEMMA UpwardsHolds == \A a, b \in Int : \A G : Upwards(a, b, G) => a .. b \subseteq G
<1> SUFFICES ASSUME NEW a \in Int, NEW b \in Int, NEW G, Upwards(a, b, G),
                    NEW c \in a .. b, c \notin G
             PROVE  FALSE
  OBVIOUS
<1> DEFINE Bad == {n \in Nat : a + n <= b /\ a + n \notin G}
<1>1. c - a \in Bad
  OBVIOUS
<1>2. PICK m \in Bad : \A k \in Bad : m <= k
  <2>1. Bad \in SUBSET Nat /\ Bad # {}
    BY <1>1
  <2> HIDE DEF Bad
  <2> QED BY <2>1, MinIsLeast
<1>3. m \in Nat /\ a + m <= b /\ a + m \notin G
  BY <1>2
<1>4. m # 0
  BY <1>3 DEF Upwards
<1>5. m - 1 \in Nat /\ a + (m - 1) <= b /\ m - 1 \notin Bad
  BY <1>2, <1>3, <1>4
<1>6. a + m \in a + 1 .. b /\ (a + m) - 1 = a + (m - 1) /\ a + (m - 1) \in G
  BY <1>3, <1>4, <1>5
<1> QED BY <1>3, <1>6 DEF Upwards

(* A recursion from a to b: its value at a, and a step from each number's   *)
(* value to the next one's, within a set of values.                         *)
StepFrom(a, b, B, v, F) == a \in Int /\ b \in Int /\ v \in B /\ F \in [(a + 1 .. b) \X B -> B]
RunFrom(a, b, B, v, F) ==
  \E g \in [a .. b -> B] :
    (a <= b => g[a] = v) /\ \A k \in a + 1 .. b : g[k] = F[<<k, g[k - 1]>>]

(* There is such a recursion.                                               *)
LEMMA RunExists == \A a, b, B, v, F : StepFrom(a, b, B, v, F) => RunFrom(a, b, B, v, F)
<1> SUFFICES ASSUME NEW a, NEW b, NEW B, NEW v, NEW F, StepFrom(a, b, B, v, F)
             PROVE  RunFrom(a, b, B, v, F)
  OBVIOUS
<1>1. a \in Int /\ b \in Int /\ v \in B /\ F \in [(a + 1 .. b) \X B -> B]
  BY DEF StepFrom
<1> DEFINE n == b - a
<1> DEFINE H == [p \in (1 .. n) \X B |-> F[<<a + p[1], p[2]>>]]
<1>2. CASE a <= b
  <2>1. n \in Nat
    BY <1>1, <1>2
  <2>2. \A k \in 1 .. n : a + k \in a + 1 .. b
    BY <1>1
  <2>3. H \in [(1 .. n) \X B -> B] /\ \A k \in 1 .. n, x \in B : H[<<k, x>>] = F[<<a + k, x>>]
    BY <1>1, <2>2
  <2> HIDE DEF H
  <2>4. ListOf(n, B, v, H)
    BY <1>1, <2>1, <2>3, ListExists DEF StepOn
  <2>5. PICK h \in [0 .. n -> B] : h[0] = v /\ \A k \in 1 .. n : h[k] = H[<<k, h[k - 1]>>]
    BY <2>4 DEF ListOf
  <2> DEFINE g == [i \in a .. b |-> h[i - a]]
  <2>6. g \in [a .. b -> B] /\ g[a] = v
    <3>1. \A i \in a .. b : i - a \in 0 .. n
      BY <1>1
    <3>2. a \in a .. b /\ a - a = 0
      BY <1>1, <1>2
    <3> QED BY <2>5, <3>1, <3>2
  <2>7. ASSUME NEW k \in a + 1 .. b PROVE g[k] = F[<<k, g[k - 1]>>]
    <3>1. /\ k \in a .. b /\ k - 1 \in a .. b /\ k - a \in 1 .. n /\ (k - a) - 1 \in 0 .. n
          /\ (k - 1) - a = (k - a) - 1 /\ a + (k - a) = k
      BY <1>1
    <3>2. g[k] = h[k - a] /\ g[k - 1] = h[(k - a) - 1] /\ h[(k - a) - 1] \in B
      BY <2>5, <3>1
    <3> HIDE DEF g, n
    <3>3. h[k - a] = H[<<k - a, h[(k - a) - 1]>>]
      BY <2>5, <3>1
    <3> QED BY <2>3, <3>1, <3>2, <3>3
  <2> HIDE DEF g
  <2> QED BY <2>6, <2>7 DEF RunFrom
<1>3. CASE ~(a <= b)
  <2> DEFINE g == [i \in a .. b |-> v]
  <2>1. a + 1 .. b = {}
    BY <1>1, <1>3
  <2>2. g \in [a .. b -> B]
    BY <1>1
  <2> HIDE DEF g
  <2> QED BY <1>3, <2>1, <2>2 DEF RunFrom
<1> QED BY <1>2, <1>3

(* A function whose value at a is one of a set, and whose steps stay in it, *)
(* has all its values there.                                                *)
LEMMA ValuesWithin ==
  \A a, b \in Int : \A B, f :
    (a <= b => f[a] \in B) /\ (\A k \in a + 1 .. b : f[k - 1] \in B => f[k] \in B) =>
    \A k \in a .. b : f[k] \in B
<1> SUFFICES ASSUME NEW a \in Int, NEW b \in Int, NEW B, NEW f,
                    a <= b => f[a] \in B, \A k \in a + 1 .. b : f[k - 1] \in B => f[k] \in B
             PROVE  \A k \in a .. b : f[k] \in B
  OBVIOUS
<1> DEFINE G == {k \in a .. b : f[k] \in B}
<1>1. Upwards(a, b, G)
  BY DEF Upwards
<1>2. a .. b \subseteq G
  BY <1>1, UpwardsHolds
<1> QED BY <1>2

(* Two functions that agree at a, and at a number if at the one before.     *)
AgreeStepwise(a, b, f, g) ==
  (a <= b => f[a] = g[a]) /\ \A k \in a + 1 .. b : f[k - 1] = g[k - 1] => f[k] = g[k]
Agree(a, b, f, g) == \A k \in a .. b : f[k] = g[k]

(* Such functions agree on the interval.                                    *)
LEMMA ValuesAgree == \A a, b \in Int : \A f, g : AgreeStepwise(a, b, f, g) => Agree(a, b, f, g)
<1> SUFFICES ASSUME NEW a \in Int, NEW b \in Int, NEW f, NEW g, AgreeStepwise(a, b, f, g)
             PROVE  Agree(a, b, f, g)
  OBVIOUS
<1> DEFINE G == {k \in a .. b : f[k] = g[k]}
<1>1. Upwards(a, b, G)
  BY DEF Upwards, AgreeStepwise
<1>2. a .. b \subseteq G
  BY <1>1, UpwardsHolds
<1> QED BY <1>2 DEF Agree

-----------------------------------------------------------------------------
(* Rounding                                                                 *)

(* A product with a positive number has the sign of the other factor.       *)
LEMMA SignOfProduct ==
  \A d \in Nat \ {0}, x \in Int : (d * x <= 0 => x <= 0) /\ (0 <= d * x => 0 <= x)
                                  /\ (0 <= x => 0 <= d * x)
OBVIOUS

(* A rounded quotient is at most half a quantum off.                        *)
LEMMA RoundedNear ==
  ASSUME NEW num \in Int, NEW den \in Nat \ {0}
  PROVE  /\ Quantize(num, den) \in Int
         /\ 2 * (Quantize(num, den) * den - num) <= den
         /\ 2 * (num - Quantize(num, den) * den) <= den
<1> DEFINE below == num \div den
<1> DEFINE over == num % den
<1>1. below \in Int /\ over \in 0 .. den - 1 /\ num = den * below + over
  OBVIOUS
<1>2. Quantize(num, den) = IF 2 * over < den \/ (2 * over = den /\ below % 2 = 0)
                           THEN below ELSE below + 1
  BY DEF Quantize
<1> HIDE DEF below, over
<1>3. below * den = den * below /\ (below + 1) * den = den * below + den
  BY <1>1
<1> QED BY <1>1, <1>2, <1>3

(* It is not negative if the number is not, and no more than a whole number *)
(* the quotient does not exceed.                                            *)
LEMMA RoundedWithin ==
  ASSUME NEW num \in Int, NEW den \in Nat \ {0}
  PROVE  /\ num >= 0 => Quantize(num, den) \in Nat
         /\ \A k \in Int : num <= k * den => Quantize(num, den) <= k
<1>1. PICK q : q = Quantize(num, den)
  OBVIOUS
<1>2. q \in Int /\ 2 * (q * den - num) <= den /\ 2 * (num - q * den) <= den
  BY <1>1, RoundedNear
<1>3. ASSUME num >= 0 PROVE q >= 0
  <2>1. den * (2 * q + 1) = 2 * (q * den) + den
    BY <1>2
  <2>2. 0 <= den * (2 * q + 1)
    BY <1>2, <1>3, <2>1
  <2>3. 0 <= 2 * q + 1
    BY <1>2, <2>2, SignOfProduct
  <2> QED BY <1>2, <2>3
<1>4. ASSUME NEW k \in Int, num <= k * den PROVE q <= k
  <2>1. den * (2 * q - 2 * k - 1) = 2 * (q * den) - 2 * (k * den) - den
    BY <1>2
  <2>2. den * (2 * q - 2 * k - 1) <= 0
    BY <1>2, <1>4, <2>1
  <2>3. 2 * q - 2 * k - 1 <= 0
    BY <1>2, <2>2, SignOfProduct
  <2> QED BY <1>2, <2>3
<1> QED BY <1>1, <1>2, <1>3, <1>4

-----------------------------------------------------------------------------
(* Sums                                                                     *)

(* The sum of a series.                                                     *)
SumOf(q) == FoldLeft(LAMBDA sum, x : sum + x, 0, q)
Additive(B) == B \in {Int, Nat}

(* Numbers add up to a number of their kind.                                *)
LEMMA SumTyped ==
  ASSUME NEW B, Additive(B), NEW q \in Seq(B)
  PROVE  SumOf(q) \in B
<1> DEFINE n == Len(q)
<1> DEFINE F == [p \in (1 .. n) \X B |-> p[2] + q[p[1]]]
<1> DEFINE body(it) ==
      [t \in SUBSET DOMAIN q |-> IF t = {} THEN 0 ELSE it[t \ {Max(t)}] + q[Max(t)]]
<1>1. n \in Nat /\ DOMAIN q = 1 .. n /\ 0 \in B /\ \A x, y \in B : x + y \in B
  BY DEF Additive
<1>2. \A k \in 1 .. n : q[k] \in B
  OBVIOUS
<1> HIDE DEF n
<1>3. F \in [(1 .. n) \X B -> B] /\ \A k \in 1 .. n, x \in B : F[<<k, x>>] = x + q[k]
  BY <1>1, <1>2
<1> HIDE DEF F
<1>4. PICK it \in [SUBSET (1 .. n) -> B] : IsIterated(it, n, 0, F)
  BY <1>1, <1>3, IterationExists
<1>5. ASSUME NEW t \in SUBSET (1 .. n), t # {}
      PROVE  Max(t) \in 1 .. n /\ t \ {Max(t)} \in SUBSET (1 .. n)
  <2>1. t \in SUBSET (0 .. n)
    OBVIOUS
  <2> QED BY <1>1, <1>5, <2>1, MaxIsGreatest
<1>6. it = body(it)
  <2>1. ASSUME NEW t \in SUBSET (1 .. n)
        PROVE  it[t] = IF t = {} THEN 0 ELSE it[t \ {Max(t)}] + q[Max(t)]
    <3>1. CASE t = {}
      BY <3>1, <1>4 DEF IsIterated
    <3>2. CASE t # {}
      <4>1. Max(t) \in 1 .. n /\ it[t \ {Max(t)}] \in B
        BY <3>2, <1>4, <1>5
      <4>2. it[t] = F[<<Max(t), it[t \ {Max(t)}]>>]
        BY <3>2, <1>4 DEF IsIterated
      <4> QED BY <3>2, <4>1, <4>2, <1>3
    <3> QED BY <3>1, <3>2
  <2> QED BY <2>1, <1>1
<1> DEFINE sums == CHOOSE x : x = body(x)
<1>7. sums = body(sums)
  BY <1>6
<1>8. SumOf(q) = sums[1 .. n]
  BY <1>1 DEF SumOf, FoldLeft, MapThenFoldSet
<1> HIDE DEF sums
<1>9. \A t \in SUBSET (1 .. n) : sums[t] = IF t = {} THEN 0 ELSE sums[t \ {Max(t)}] + q[Max(t)]
  BY <1>1, <1>7
<1>10. sums[{}] = 0
  BY <1>9
<1>11. ASSUME NEW k \in 1 .. n PROVE sums[1 .. k] = sums[1 .. k - 1] + q[k]
  BY <1>1, <1>9, FirstPositions
<1>12. StepsFollow(sums, n, B, 0, F)
  <2>1. \A k \in 1 .. n : sums[1 .. k - 1] \in B => sums[1 .. k] = F[<<k, sums[1 .. k - 1]>>]
    BY <1>3, <1>11
  <2> QED BY <1>1, <1>3, <1>10, <2>1 DEF StepsFollow
<1>13. PICK g \in [0 .. n -> B] : g[n] = sums[1 .. n]
  BY <1>12, IterationSteps DEF StepsListed
<1> QED BY <1>1, <1>8, <1>13

(* The second series goes no further than the first, which it agrees with.  *)
Begins(t, s) == Len(t) <= Len(s) /\ \A i \in 1 .. Len(t) : t[i] = s[i]

(* The mean of a window: a number of the kind of the window's, the same in  *)
(* every series the window is in.                                           *)
LEMMA MeanTyped ==
  ASSUME NEW B, Additive(B), NEW s \in Seq(B), NEW from \in 1 .. Len(s), NEW to \in from .. Len(s)
  PROVE  /\ Total(s, from, to) \in B
         /\ Mean(s, from, to) = Quantize(Total(s, from, to), to - from + 1)
         /\ Mean(s, from, to) \in B
<1>1. SubSeq(s, from, to) \in Seq(B)
  BY SubSeqProperties
<1>2. Total(s, from, to) = SumOf(SubSeq(s, from, to))
  BY DEF Total, SumOf
<1>3. Total(s, from, to) \in B
  BY <1>1, <1>2, SumTyped
<1>4. Mean(s, from, to) = Quantize(Total(s, from, to), to - from + 1)
  BY DEF Mean
<1>5. to - from + 1 \in Nat \ {0}
  OBVIOUS
<1>6. Total(s, from, to) \in Int /\ (B = Nat => Total(s, from, to) >= 0)
  BY <1>3 DEF Additive
<1>7. PICK total : total = Total(s, from, to)
  OBVIOUS
<1>8. Quantize(total, to - from + 1) \in Int
      /\ (total >= 0 => Quantize(total, to - from + 1) \in Nat)
  BY <1>5, <1>6, <1>7, RoundedNear, RoundedWithin
<1> QED BY <1>3, <1>4, <1>6, <1>7, <1>8 DEF Additive

(* Series that begin alike have the same means there.                       *)
LEMMA MeanAgrees ==
  ASSUME NEW s \in Seq(Int), NEW t \in Seq(Int), Begins(t, s),
         NEW from \in 1 .. Len(t), NEW to \in from .. Len(t)
  PROVE  Mean(t, from, to) = Mean(s, from, to) /\ Total(t, from, to) = Total(s, from, to)
<1>1. to \in from .. Len(s) /\ from \in 1 .. Len(s)
  BY DEF Begins
<1>2. /\ SubSeq(t, from, to) \in Seq(Int) /\ Len(SubSeq(t, from, to)) = to - from + 1
      /\ \A i \in 1 .. to - from + 1 : SubSeq(t, from, to)[i] = t[from + i - 1]
  BY SubSeqProperties
<1>3. /\ SubSeq(s, from, to) \in Seq(Int) /\ Len(SubSeq(s, from, to)) = to - from + 1
      /\ \A i \in 1 .. to - from + 1 : SubSeq(s, from, to)[i] = s[from + i - 1]
  BY <1>1, SubSeqProperties
<1>4. ASSUME NEW i \in 1 .. to - from + 1
      PROVE SubSeq(t, from, to)[i] = SubSeq(s, from, to)[i]
  <2>1. from + i - 1 \in 1 .. Len(t)
    OBVIOUS
  <2> QED BY <1>2, <1>3, <2>1 DEF Begins
<1>5. SubSeq(t, from, to) = SubSeq(s, from, to)
  BY <1>2, <1>3, <1>4, SeqEqual
<1> QED BY <1>5 DEF Mean, Total

-----------------------------------------------------------------------------
(* Averages                                                                 *)

(* An average starts at a with the mean of the first values and goes on     *)
(* from one to the next with p parts of itself and c of the next value, of  *)
(* q parts; the exact one does not round.                                   *)
Weights(a, p, c, q) == a \in Nat \ {0} /\ p \in Nat /\ c \in Nat /\ q \in Nat /\ p < q
Averages(s, a, p, c, q, E) ==
  /\ E = [i \in a .. Len(s) |-> E[i]]
  /\ a <= Len(s) => E[a] = Mean(s, 1, a)
  /\ \A i \in a + 1 .. Len(s) : E[i] = Quantize(E[i - 1] * p + c * s[i], q)
Fractions == [num : Int, den : Nat \ {0}]
AveragesExactly(s, a, p, c, q, X) ==
  /\ X = [i \in a .. Len(s) |-> X[i]]
  /\ a <= Len(s) => X[a] = Fraction(Total(s, 1, a), a)
  /\ \A i \in a + 1 .. Len(s) :
       X[i] = Fraction(X[i - 1].num * p + c * s[i] * X[i - 1].den, X[i - 1].den * q)

(* A step of an average gives a number of the kind of the values.           *)
LEMMA AverageStep ==
  ASSUME NEW B, Additive(B), NEW p \in Nat, NEW c \in Nat, NEW q \in Nat \ {0},
         NEW e \in B, NEW x \in B
  PROVE  Quantize(e * p + c * x, q) \in B
<1>1. e \in Int /\ x \in Int /\ e * p \in Int /\ c * x \in Int
  BY DEF Additive
<1>2. PICK sum : sum = e * p + c * x
  OBVIOUS
<1>3. sum \in Int /\ (B = Nat => sum >= 0)
  <2>1. ASSUME B = Nat PROVE e * p \in Nat /\ c * x \in Nat
    BY <2>1
  <2> QED BY <1>1, <1>2, <2>1
<1>4. Quantize(sum, q) \in Int /\ (sum >= 0 => Quantize(sum, q) \in Nat)
  BY <1>3, RoundedNear, RoundedWithin
<1> QED BY <1>2, <1>3, <1>4 DEF Additive

(* So all of an average's values are of that kind.                         *)
LEMMA AverageTyped ==
  ASSUME NEW B, Additive(B), NEW s \in Seq(B), NEW a, NEW p, NEW c, NEW q, Weights(a, p, c, q),
         NEW E, Averages(s, a, p, c, q, E)
  PROVE  E \in [a .. Len(s) -> B]
<1>1. /\ a \in Nat \ {0} /\ p \in Nat /\ c \in Nat /\ q \in Nat \ {0} /\ Len(s) \in Nat
      /\ a \in Int /\ Len(s) \in Int
  BY DEF Weights
<1>2. ASSUME a <= Len(s) PROVE E[a] \in B
  <2>1. 1 \in 1 .. Len(s) /\ a \in 1 .. Len(s)
    BY <1>1, <1>2
  <2> QED BY <1>2, <2>1, MeanTyped DEF Averages
<1>3. ASSUME NEW i \in a + 1 .. Len(s), E[i - 1] \in B PROVE E[i] \in B
  <2>1. s[i] \in B
    BY <1>1
  <2>2. E[i] = Quantize(E[i - 1] * p + c * s[i], q)
    BY DEF Averages
  <2>3. PICK e, x : e = E[i - 1] /\ x = s[i]
    OBVIOUS
  <2>4. Quantize(e * p + c * x, q) \in B
    BY <1>1, <1>3, <2>1, <2>3, AverageStep
  <2> QED BY <2>2, <2>3, <2>4
<1>4. \A i \in a .. Len(s) : E[i] \in B
  BY <1>1, <1>2, <1>3, ValuesWithin
<1> QED BY <1>4 DEF Averages

(* There is such an average.                                                *)
LEMMA AverageExists ==
  ASSUME NEW B, Additive(B), NEW s \in Seq(B), NEW a, NEW p, NEW c, NEW q, Weights(a, p, c, q)
  PROVE  \E E : Averages(s, a, p, c, q, E)
<1> DEFINE b == Len(s)
<1> DEFINE v == IF a <= b THEN Mean(s, 1, a) ELSE 0
<1> DEFINE F == [k \in (a + 1 .. b) \X B |-> Quantize(k[2] * p + c * s[k[1]], q)]
<1>1. /\ a \in Nat \ {0} /\ p \in Nat /\ c \in Nat /\ q \in Nat \ {0} /\ b \in Nat
      /\ a \in Int /\ b \in Int
  BY DEF Weights
<1>2. v \in B
  <2>1. CASE a <= b
    <3>1. 1 \in 1 .. Len(s) /\ a \in 1 .. Len(s)
      BY <1>1, <2>1
    <3> QED BY <2>1, <3>1, MeanTyped
  <2>2. CASE ~(a <= b)
    BY <2>2 DEF Additive
  <2> QED BY <2>1, <2>2
<1>3. F \in [(a + 1 .. b) \X B -> B]
  <2>1. ASSUME NEW k \in (a + 1 .. b) \X B PROVE Quantize(k[2] * p + c * s[k[1]], q) \in B
    <3>1. k[2] \in B /\ k[1] \in 1 .. Len(s)
      BY <1>1
    <3>2. s[k[1]] \in B
      BY <3>1
    <3> QED BY <1>1, <3>1, <3>2, AverageStep
  <2> QED BY <2>1
<1>4. \A i \in a + 1 .. b, x \in B : F[<<i, x>>] = Quantize(x * p + c * s[i], q)
  OBVIOUS
<1> HIDE DEF F, v
<1>5. RunFrom(a, b, B, v, F)
  <2>1. StepFrom(a, b, B, v, F)
    BY <1>1, <1>2, <1>3 DEF StepFrom
  <2> QED BY <2>1, RunExists
<1>6. PICK g \in [a .. b -> B] :
        (a <= b => g[a] = v) /\ \A k \in a + 1 .. b : g[k] = F[<<k, g[k - 1]>>]
  BY <1>5 DEF RunFrom
<1>7. \A k \in a + 1 .. b : g[k] = Quantize(g[k - 1] * p + c * s[k], q)
  <2>1. \A k \in a + 1 .. b : g[k - 1] \in B
    BY <1>1, <1>6
  <2> QED BY <1>4, <1>6, <2>1
<1>8. a <= b => g[a] = Mean(s, 1, a)
  BY <1>6 DEF v
<1> QED BY <1>6, <1>7, <1>8 DEF Averages

(* The exact average is a fraction.                                         *)
LEMMA FractionStep ==
  ASSUME NEW p \in Nat, NEW c \in Nat, NEW q \in Nat \ {0}, NEW x \in Fractions, NEW y \in Int
  PROVE  Fraction(x.num * p + c * y * x.den, x.den * q) \in Fractions
<1>1. x.num \in Int /\ x.den \in Nat \ {0}
  BY DEF Fractions
<1>2. x.num * p + c * y * x.den \in Int /\ x.den * q \in Nat \ {0}
  BY <1>1
<1> QED BY <1>2 DEF Fraction, Fractions

(* So all values of the exact average are fractions.                        *)
LEMMA ExactTyped ==
  ASSUME NEW s \in Seq(Int), NEW a, NEW p, NEW c, NEW q, Weights(a, p, c, q),
         NEW X, AveragesExactly(s, a, p, c, q, X)
  PROVE  X \in [a .. Len(s) -> Fractions]
<1>1. /\ a \in Nat \ {0} /\ p \in Nat /\ c \in Nat /\ q \in Nat \ {0} /\ Len(s) \in Nat
      /\ a \in Int /\ Len(s) \in Int
  BY DEF Weights
<1>2. ASSUME a <= Len(s) PROVE X[a] \in Fractions
  <2>1. 1 \in 1 .. Len(s) /\ a \in 1 .. Len(s) /\ Additive(Int)
    BY <1>1, <1>2 DEF Additive
  <2>2. Total(s, 1, a) \in Int
    BY <2>1, MeanTyped
  <2> QED BY <1>1, <1>2, <2>2 DEF AveragesExactly, Fraction, Fractions
<1>3. ASSUME NEW i \in a + 1 .. Len(s), X[i - 1] \in Fractions PROVE X[i] \in Fractions
  <2>1. s[i] \in Int
    BY <1>1
  <2>2. X[i] = Fraction(X[i - 1].num * p + c * s[i] * X[i - 1].den, X[i - 1].den * q)
    BY DEF AveragesExactly
  <2>3. PICK x, y : x = X[i - 1] /\ y = s[i]
    OBVIOUS
  <2>4. Fraction(x.num * p + c * y * x.den, x.den * q) \in Fractions
    BY <1>1, <1>3, <2>1, <2>3, FractionStep
  <2> QED BY <2>2, <2>3, <2>4
<1>4. \A i \in a .. Len(s) : X[i] \in Fractions
  BY <1>1, <1>2, <1>3, ValuesWithin
<1> QED BY <1>4 DEF AveragesExactly

(* There is such an exact average.                                          *)
LEMMA ExactExists ==
  ASSUME NEW s \in Seq(Int), NEW a, NEW p, NEW c, NEW q, Weights(a, p, c, q)
  PROVE  \E X : AveragesExactly(s, a, p, c, q, X)
<1> DEFINE b == Len(s)
<1> DEFINE v == IF a <= b THEN Fraction(Total(s, 1, a), a) ELSE Fraction(0, 1)
<1> DEFINE F == [k \in (a + 1 .. b) \X Fractions |->
                   Fraction(k[2].num * p + c * s[k[1]] * k[2].den, k[2].den * q)]
<1>1. /\ a \in Nat \ {0} /\ p \in Nat /\ c \in Nat /\ q \in Nat \ {0} /\ b \in Nat
      /\ a \in Int /\ b \in Int
  BY DEF Weights
<1>2. v \in Fractions
  <2>1. CASE a <= b
    <3>1. 1 \in 1 .. Len(s) /\ a \in 1 .. Len(s) /\ Additive(Int)
      BY <1>1, <2>1 DEF Additive
    <3>2. Total(s, 1, a) \in Int
      BY <3>1, MeanTyped
    <3> QED BY <1>1, <2>1, <3>2 DEF Fraction, Fractions
  <2>2. CASE ~(a <= b)
    BY <2>2 DEF Fraction, Fractions
  <2> QED BY <2>1, <2>2
<1>3. F \in [(a + 1 .. b) \X Fractions -> Fractions]
  <2>1. ASSUME NEW k \in (a + 1 .. b) \X Fractions
        PROVE  Fraction(k[2].num * p + c * s[k[1]] * k[2].den, k[2].den * q) \in Fractions
    <3>1. k[2] \in Fractions /\ k[1] \in 1 .. Len(s)
      BY <1>1
    <3>2. s[k[1]] \in Int
      BY <3>1
    <3> QED BY <1>1, <3>1, <3>2, FractionStep
  <2> QED BY <2>1
<1>4. \A i \in a + 1 .. b, x \in Fractions :
        F[<<i, x>>] = Fraction(x.num * p + c * s[i] * x.den, x.den * q)
  OBVIOUS
<1> HIDE DEF F, v
<1>5. RunFrom(a, b, Fractions, v, F)
  <2>1. StepFrom(a, b, Fractions, v, F)
    BY <1>1, <1>2, <1>3 DEF StepFrom
  <2> QED BY <2>1, RunExists
<1>6. PICK g \in [a .. b -> Fractions] :
        (a <= b => g[a] = v) /\ \A k \in a + 1 .. b : g[k] = F[<<k, g[k - 1]>>]
  BY <1>5 DEF RunFrom
<1>7. \A k \in a + 1 .. b :
        g[k] = Fraction(g[k - 1].num * p + c * s[k] * g[k - 1].den, g[k - 1].den * q)
  <2>1. ASSUME NEW k \in a + 1 .. b PROVE g[k - 1] \in Fractions
    <3>1. k - 1 \in a .. b
      BY <1>1
    <3> QED BY <1>6, <3>1
  <2> QED BY <1>4, <1>6, <2>1
<1>8. a <= b => g[a] = Fraction(Total(s, 1, a), a)
  BY <1>6 DEF v
<1> QED BY <1>6, <1>7, <1>8 DEF AveragesExactly

(* Two averages of series that begin alike are alike there.                 *)
LEMMA AveragesAgree ==
  ASSUME NEW s \in Seq(Int), NEW t \in Seq(Int), Begins(t, s),
         NEW a, NEW p, NEW c, NEW q, Weights(a, p, c, q),
         NEW E, Averages(s, a, p, c, q, E), NEW G, Averages(t, a, p, c, q, G)
  PROVE  \A i \in a .. Len(t) : G[i] = E[i]
<1>1. /\ a \in Nat \ {0} /\ Len(t) \in Nat /\ Len(s) \in Nat /\ Len(t) <= Len(s)
      /\ a \in Int /\ Len(t) \in Int
  BY DEF Weights, Begins
<1>2. ASSUME a <= Len(t) PROVE G[a] = E[a]
  <2>1. 1 \in 1 .. Len(t) /\ a \in 1 .. Len(t) /\ a <= Len(s)
    BY <1>1, <1>2
  <2>2. Mean(t, 1, a) = Mean(s, 1, a)
    BY <2>1, MeanAgrees
  <2> QED BY <1>2, <2>1, <2>2 DEF Averages
<1>3. ASSUME NEW i \in a + 1 .. Len(t), G[i - 1] = E[i - 1] PROVE G[i] = E[i]
  <2>1. i \in a + 1 .. Len(s) /\ i \in 1 .. Len(t)
    BY <1>1
  <2>2. t[i] = s[i]
    BY <2>1 DEF Begins
  <2> QED BY <1>3, <2>1, <2>2 DEF Averages
<1>4. \A i \in a + 1 .. Len(t) : G[i - 1] = E[i - 1] => G[i] = E[i]
  BY <1>3
<1>5. a <= Len(t) => G[a] = E[a]
  BY <1>2
<1>6. AgreeStepwise(a, Len(t), G, E)
  BY <1>4, <1>5 DEF AgreeStepwise
<1> QED BY <1>1, <1>6, ValuesAgree DEF Agree

(* The exponential average, and Wilder's, exact and rounded.               *)
LEMMA EmaAverages ==
  ASSUME NEW s \in Seq(Int), NEW w \in Nat \ {0, 1}
  PROVE  Averages(s, w, w - 1, 2, w + 1, EmaSeries(s, w))
<1> DEFINE body(x) ==
      [i \in w .. Len(s) |-> IF i = w THEN Mean(s, 1, w)
                             ELSE Quantize(x[i - 1] * (w - 1) + 2 * s[i], w + 1)]
<1>0. Weights(w, w - 1, 2, w + 1)
  BY DEF Weights
<1>1. PICK E : Averages(s, w, w - 1, 2, w + 1, E)
  BY <1>0, AverageExists DEF Additive
<1>2. w \in Nat /\ Len(s) \in Nat
  OBVIOUS
<1>3. E = body(E)
  <2>1. ASSUME NEW i \in w .. Len(s)
        PROVE  E[i] = IF i = w THEN Mean(s, 1, w)
                      ELSE Quantize(E[i - 1] * (w - 1) + 2 * s[i], w + 1)
    <3>1. CASE i = w
      BY <1>1, <3>1 DEF Averages
    <3>2. CASE i # w
      <4>1. i \in w + 1 .. Len(s)
        BY <1>2, <3>2
      <4> QED BY <1>1, <3>2, <4>1 DEF Averages
    <3> QED BY <3>1, <3>2
  <2>2. E = [i \in w .. Len(s) |-> E[i]]
    BY <1>1 DEF Averages
  <2> QED BY <2>1, <2>2
<1> DEFINE x == CHOOSE x : x = body(x)
<1>4. x = body(x)
  BY <1>3
<1>5. EmaSeries(s, w) = x
  BY DEF EmaSeries
<1> HIDE DEF x
<1>6. x = [i \in w .. Len(s) |-> x[i]]
  BY <1>4
<1>7. w <= Len(s) => x[w] = Mean(s, 1, w)
  BY <1>2, <1>4
<1>8. ASSUME NEW i \in w + 1 .. Len(s)
      PROVE  x[i] = Quantize(x[i - 1] * (w - 1) + 2 * s[i], w + 1)
  <2>1. i \in w .. Len(s) /\ i # w
    BY <1>2
  <2> QED BY <1>4, <2>1
<1> QED BY <1>5, <1>6, <1>7, <1>8 DEF Averages

(* The exponential average without rounding.                                *)
LEMMA ExactEmaAverages ==
  ASSUME NEW s \in Seq(Int), NEW w \in Nat \ {0, 1}
  PROVE  AveragesExactly(s, w, w - 1, 2, w + 1, ExactEma(s, w))
<1> DEFINE body(x) ==
      [i \in w .. Len(s) |-> IF i = w THEN Fraction(Total(s, 1, w), w)
                             ELSE Fraction(x[i - 1].num * (w - 1) + 2 * s[i] * x[i - 1].den, x[i - 1].den * (w + 1))]
<1>0. Weights(w, w - 1, 2, w + 1)
  BY DEF Weights
<1>1. PICK E : AveragesExactly(s, w, w - 1, 2, w + 1, E)
  BY <1>0, ExactExists DEF Additive
<1>2. w \in Nat /\ Len(s) \in Nat
  OBVIOUS
<1>3. E = body(E)
  <2>1. ASSUME NEW i \in w .. Len(s)
        PROVE  E[i] = IF i = w THEN Fraction(Total(s, 1, w), w)
                      ELSE Fraction(E[i - 1].num * (w - 1) + 2 * s[i] * E[i - 1].den, E[i - 1].den * (w + 1))
    <3>1. CASE i = w
      BY <1>1, <3>1 DEF AveragesExactly
    <3>2. CASE i # w
      <4>1. i \in w + 1 .. Len(s)
        BY <1>2, <3>2
      <4> QED BY <1>1, <3>2, <4>1 DEF AveragesExactly
    <3> QED BY <3>1, <3>2
  <2>2. E = [i \in w .. Len(s) |-> E[i]]
    BY <1>1 DEF AveragesExactly
  <2> QED BY <2>1, <2>2
<1> DEFINE x == CHOOSE x : x = body(x)
<1>4. x = body(x)
  BY <1>3
<1>5. ExactEma(s, w) = x
  BY DEF ExactEma
<1> HIDE DEF x
<1>6. x = [i \in w .. Len(s) |-> x[i]]
  BY <1>4
<1>7. w <= Len(s) => x[w] = Fraction(Total(s, 1, w), w)
  BY <1>2, <1>4
<1>8. ASSUME NEW i \in w + 1 .. Len(s)
      PROVE  x[i] = Fraction(x[i - 1].num * (w - 1) + 2 * s[i] * x[i - 1].den, x[i - 1].den * (w + 1))
  <2>1. i \in w .. Len(s) /\ i # w
    BY <1>2
  <2> QED BY <1>4, <2>1
<1> QED BY <1>5, <1>6, <1>7, <1>8 DEF AveragesExactly

(* Wilder's average.                                                       *)
LEMMA WilderAverages ==
  ASSUME NEW s \in Seq(Int), NEW w \in Nat \ {0, 1}
  PROVE  Averages(s, w, w - 1, 1, w, WilderAverage(s, w))
<1> DEFINE body(x) ==
      [i \in w .. Len(s) |-> IF i = w THEN Mean(s, 1, w)
                             ELSE Quantize(x[i - 1] * (w - 1) + s[i], w)]
<1>0. Weights(w, w - 1, 1, w)
  BY DEF Weights
<1>1. PICK E : Averages(s, w, w - 1, 1, w, E)
  BY <1>0, AverageExists DEF Additive
<1>2. w \in Nat /\ Len(s) \in Nat
  OBVIOUS
<1>9. \A i \in w + 1 .. Len(s) : 1 * s[i] = s[i]
  OBVIOUS
<1>3. E = body(E)
  <2>1. ASSUME NEW i \in w .. Len(s)
        PROVE  E[i] = IF i = w THEN Mean(s, 1, w)
                      ELSE Quantize(E[i - 1] * (w - 1) + s[i], w)
    <3>1. CASE i = w
      BY <1>1, <3>1 DEF Averages
    <3>2. CASE i # w
      <4>1. i \in w + 1 .. Len(s)
        BY <1>2, <3>2
      <4> QED BY <1>1, <1>9, <3>2, <4>1 DEF Averages
    <3> QED BY <3>1, <3>2
  <2>2. E = [i \in w .. Len(s) |-> E[i]]
    BY <1>1 DEF Averages
  <2> QED BY <2>1, <2>2
<1> DEFINE x == CHOOSE x : x = body(x)
<1>4. x = body(x)
  BY <1>3
<1>5. WilderAverage(s, w) = x
  BY DEF WilderAverage
<1> HIDE DEF x
<1>6. x = [i \in w .. Len(s) |-> x[i]]
  BY <1>4
<1>7. w <= Len(s) => x[w] = Mean(s, 1, w)
  BY <1>2, <1>4
<1>8. ASSUME NEW i \in w + 1 .. Len(s)
      PROVE  x[i] = Quantize(x[i - 1] * (w - 1) + s[i], w)
  <2>1. i \in w .. Len(s) /\ i # w
    BY <1>2
  <2> QED BY <1>4, <2>1
<1> QED BY <1>5, <1>6, <1>7, <1>8, <1>9 DEF Averages

(* Wilder's average without rounding.                                      *)
LEMMA ExactWilderAverages ==
  ASSUME NEW s \in Seq(Int), NEW w \in Nat \ {0, 1}
  PROVE  AveragesExactly(s, w, w - 1, 1, w, ExactWilder(s, w))
<1> DEFINE body(x) ==
      [i \in w .. Len(s) |-> IF i = w THEN Fraction(Total(s, 1, w), w)
                             ELSE Fraction(x[i - 1].num * (w - 1) + s[i] * x[i - 1].den, x[i - 1].den * w)]
<1>0. Weights(w, w - 1, 1, w)
  BY DEF Weights
<1>1. PICK E : AveragesExactly(s, w, w - 1, 1, w, E)
  BY <1>0, ExactExists DEF Additive
<1>2. w \in Nat /\ Len(s) \in Nat
  OBVIOUS
<1>9. \A i \in w + 1 .. Len(s) : 1 * s[i] = s[i]
  OBVIOUS
<1>3. E = body(E)
  <2>1. ASSUME NEW i \in w .. Len(s)
        PROVE  E[i] = IF i = w THEN Fraction(Total(s, 1, w), w)
                      ELSE Fraction(E[i - 1].num * (w - 1) + s[i] * E[i - 1].den, E[i - 1].den * w)
    <3>1. CASE i = w
      BY <1>1, <3>1 DEF AveragesExactly
    <3>2. CASE i # w
      <4>1. i \in w + 1 .. Len(s)
        BY <1>2, <3>2
      <4> QED BY <1>1, <1>9, <3>2, <4>1 DEF AveragesExactly
    <3> QED BY <3>1, <3>2
  <2>2. E = [i \in w .. Len(s) |-> E[i]]
    BY <1>1 DEF AveragesExactly
  <2> QED BY <2>1, <2>2
<1> DEFINE x == CHOOSE x : x = body(x)
<1>4. x = body(x)
  BY <1>3
<1>5. ExactWilder(s, w) = x
  BY DEF ExactWilder
<1> HIDE DEF x
<1>6. x = [i \in w .. Len(s) |-> x[i]]
  BY <1>4
<1>7. w <= Len(s) => x[w] = Fraction(Total(s, 1, w), w)
  BY <1>2, <1>4
<1>8. ASSUME NEW i \in w + 1 .. Len(s)
      PROVE  x[i] = Fraction(x[i - 1].num * (w - 1) + s[i] * x[i - 1].den, x[i - 1].den * w)
  <2>1. i \in w .. Len(s) /\ i # w
    BY <1>2
  <2> QED BY <1>4, <2>1
<1> QED BY <1>5, <1>6, <1>7, <1>8, <1>9 DEF AveragesExactly

(* A number times more is more.                                             *)
LEMMA TimesMore == \A d \in Nat, x, y \in Int : x <= y => d * x <= d * y
<1> SUFFICES ASSUME NEW d \in Nat, NEW x \in Int, NEW y \in Int, x <= y PROVE d * x <= d * y
  OBVIOUS
<1>1. y - x \in Nat /\ d * (y - x) \in Nat
  OBVIOUS
<1>2. d * (y - x) = d * y - d * x
  OBVIOUS
<1> QED BY <1>1, <1>2

(* The errors of one side: what a step adds is at most half of q parts, and *)
(* of what there was only p parts of q stay.                                *)
LEMMA DriftOneSide ==
  ASSUME NEW p \in Nat, NEW q \in Nat, p < q, NEW D \in Nat \ {0}, NEW err \in Int, NEW r \in Int,
         2 * (q - p) * err <= q * D, 2 * r <= q
  PROVE  2 * (q - p) * (D * r + p * err) <= q * (D * q)
<1> DEFINE d == q - p
<1>1. d \in Nat /\ q = d + p
  OBVIOUS
<1>2. p * (2 * d * err) <= p * (q * D)
  <2>1. 2 * d * err \in Int /\ q * D \in Int /\ 2 * d * err <= q * D
    BY <1>1
  <2> HIDE DEF d
  <2> QED BY <2>1, TimesMore
<1>3. (d * D) * (2 * r) <= (d * D) * q
  <2>1. d * D \in Nat /\ 2 * r \in Int
    BY <1>1
  <2> HIDE DEF d
  <2> QED BY <2>1, TimesMore
<1> HIDE DEF d
<1>4. 2 * d * (D * r + p * err) = (d * D) * (2 * r) + p * (2 * d * err)
  BY <1>1
<1>5. q * (D * q) = (d * D) * q + p * (q * D)
  <2>1. q * (D * q) = (d + p) * (D * q)
    BY <1>1
  <2>2. (d + p) * (D * q) = d * (D * q) + p * (D * q)
    BY <1>1
  <2>3. d * (D * q) = (d * D) * q /\ D * q = q * D
    BY <1>1
  <2> QED BY <2>1, <2>2, <2>3
<1>6. /\ p * (2 * d * err) \in Int /\ p * (q * D) \in Int
      /\ (d * D) * (2 * r) \in Int /\ (d * D) * q \in Int
  BY <1>1
<1>7. 2 * d * (D * r + p * err) <= q * (D * q)
  BY <1>2, <1>3, <1>4, <1>5, <1>6
<1> QED BY <1>7 DEF d

(* Both sides: a step keeps the error within the same bound.                *)
LEMMA DriftStep ==
  ASSUME NEW p \in Nat, NEW q \in Nat, p < q, NEW x \in Fractions, NEW e \in Int, NEW y \in Int,
         Near(e, x, q, 2 * (q - p))
  PROVE  Near(Quantize(e * p + y, q), Fraction(x.num * p + y * x.den, x.den * q), q, 2 * (q - p))
<1>1. PICK n, D : n = x.num /\ D = x.den
  OBVIOUS
<1>2. n \in Int /\ D \in Nat \ {0} /\ q \in Nat \ {0} /\ e * p + y \in Int
  BY <1>1 DEF Fractions
<1>3. PICK next : next = Quantize(e * p + y, q)
  OBVIOUS
<1>4. /\ next \in Int
      /\ 2 * (next * q - (e * p + y)) <= q /\ 2 * ((e * p + y) - next * q) <= q
  BY <1>2, <1>3, RoundedNear
<1>5. PICK r : r = next * q - (e * p + y)
  OBVIOUS
<1>6. r \in Int /\ 2 * r <= q /\ 2 * (0 - r) <= q /\ 0 - r \in Int
  BY <1>2, <1>4, <1>5
<1>7. PICK err : err = e * D - n
  OBVIOUS
<1>8. err \in Int /\ 0 - err \in Int
  BY <1>2, <1>7
<1>9. 2 * (q - p) * err <= q * D /\ 2 * (q - p) * (0 - err) <= q * D
  <2>1. 0 - err = n - e * D
    BY <1>2, <1>7
  <2> QED BY <1>1, <1>7, <2>1 DEF Near
<1>10. 2 * (q - p) * (D * r + p * err) <= q * (D * q)
  BY <1>2, <1>6, <1>8, <1>9, DriftOneSide
<1>11. 2 * (q - p) * (D * (0 - r) + p * (0 - err)) <= q * (D * q)
  BY <1>2, <1>6, <1>8, <1>9, DriftOneSide
<1>12. next * (D * q) - (n * p + y * D) = D * r + p * err
  <2>1. D * r = next * (D * q) - (e * p) * D - y * D
    BY <1>2, <1>4, <1>5
  <2>2. p * err = (e * p) * D - n * p
    BY <1>2, <1>7
  <2> QED BY <1>2, <1>4, <2>1, <2>2
<1>13. (n * p + y * D) - next * (D * q) = D * (0 - r) + p * (0 - err)
  <2>1. D * (0 - r) = 0 - D * r /\ p * (0 - err) = 0 - p * err
    BY <1>2, <1>6, <1>8
  <2>2. D * r \in Int /\ p * err \in Int
    BY <1>2, <1>6, <1>8
  <2>3. next * (D * q) \in Int /\ n * p + y * D \in Int
    BY <1>2, <1>4
  <2> QED BY <1>12, <2>1, <2>2, <2>3
<1> QED BY <1>1, <1>3, <1>10, <1>11, <1>12, <1>13 DEF Near, Fraction

(* Rounding does not accumulate: an average stays within q of 2(q - p)      *)
(* quanta of the exact one.                                                 *)
LEMMA AverageStaysNear ==
  ASSUME NEW s \in Seq(Int), NEW a, NEW p, NEW c, NEW q, Weights(a, p, c, q), a <= q,
         NEW E, Averages(s, a, p, c, q, E), NEW X, AveragesExactly(s, a, p, c, q, X)
  PROVE  \A i \in a .. Len(s) : Near(E[i], X[i], q, 2 * (q - p))
<1>1. /\ a \in Nat \ {0} /\ p \in Nat /\ c \in Nat /\ q \in Nat \ {0} /\ p < q
      /\ Len(s) \in Nat /\ a \in Int /\ Len(s) \in Int
  BY DEF Weights
<1>2. E \in [a .. Len(s) -> Int] /\ X \in [a .. Len(s) -> Fractions]
  BY AverageTyped, ExactTyped DEF Additive
<1> DEFINE G == {i \in a .. Len(s) : Near(E[i], X[i], q, 2 * (q - p))}
<1>3. ASSUME a <= Len(s) PROVE Near(E[a], X[a], q, 2 * (q - p))
  <2>1. 1 \in 1 .. Len(s) /\ a \in 1 .. Len(s) /\ a - 1 + 1 = a
    BY <1>1, <1>3
  <2>2. Total(s, 1, a) \in Int /\ Mean(s, 1, a) = Quantize(Total(s, 1, a), a - 1 + 1)
    BY <2>1, MeanTyped DEF Additive
  <2>3. PICK total, mean : total = Total(s, 1, a) /\ mean = E[a]
    OBVIOUS
  <2>4. total \in Int /\ mean = Quantize(total, a) /\ X[a] = Fraction(total, a)
    BY <1>3, <2>1, <2>2, <2>3 DEF Averages, AveragesExactly
  <2>5. mean \in Int /\ 2 * (mean * a - total) <= a /\ 2 * (total - mean * a) <= a
    BY <1>1, <2>4, RoundedNear
  <2>6. ASSUME NEW z \in Int, 2 * z <= a PROVE 2 * (q - p) * z <= q * a
    <3>1. q - p \in Nat /\ (q - p) * (2 * z) <= (q - p) * a
      BY <1>1, <2>6, TimesMore
    <3>2. a * (q - p) <= a * q
      BY <1>1, TimesMore
    <3>3. (q - p) * (2 * z) = 2 * (q - p) * z /\ (q - p) * a = a * (q - p) /\ a * q = q * a
      BY <1>1
    <3> QED BY <1>1, <3>1, <3>2, <3>3
  <2>7. mean * a - total \in Int /\ total - mean * a \in Int
    <3>1. mean \in Int /\ total \in Int /\ a \in Int
      BY <1>1, <2>4, <2>5
    <3> QED BY <3>1
  <2>8. 2 * (q - p) * (mean * a - total) <= q * a /\ 2 * (q - p) * (total - mean * a) <= q * a
    BY <2>5, <2>6, <2>7
  <2> QED BY <2>3, <2>4, <2>8 DEF Near, Fraction
<1>4. ASSUME NEW i \in a + 1 .. Len(s), Near(E[i - 1], X[i - 1], q, 2 * (q - p))
      PROVE  Near(E[i], X[i], q, 2 * (q - p))
  <2>1. i - 1 \in a .. Len(s) /\ i \in 1 .. Len(s)
    BY <1>1
  <2>2. PICK e, x, y : e = E[i - 1] /\ x = X[i - 1] /\ y = c * s[i]
    OBVIOUS
  <2>3. e \in Int /\ x \in Fractions /\ y \in Int
    <3>1. s[i] \in Int
      BY <2>1
    <3>2. c * s[i] \in Int
      BY <1>1, <3>1
    <3>3. E[i - 1] \in Int /\ X[i - 1] \in Fractions
      BY <1>2, <2>1
    <3> QED BY <2>2, <3>2, <3>3
  <2>4. E[i] = Quantize(e * p + y, q) /\ X[i] = Fraction(x.num * p + y * x.den, x.den * q)
    BY <2>2 DEF Averages, AveragesExactly
  <2>5. Near(e, x, q, 2 * (q - p))
    BY <1>4, <2>2
  <2>6. Near(Quantize(e * p + y, q), Fraction(x.num * p + y * x.den, x.den * q), q, 2 * (q - p))
    <3>1. p \in Nat /\ q \in Nat /\ p < q
      BY <1>1
    <3> QED BY <2>3, <2>5, <3>1, DriftStep
  <2> QED BY <2>4, <2>6
<1>5. Upwards(a, Len(s), G)
  BY <1>1, <1>3, <1>4 DEF Upwards
<1>6. a .. Len(s) \subseteq G
  BY <1>1, <1>5, UpwardsHolds
<1> QED BY <1>6

-----------------------------------------------------------------------------
(* The series behind the index and the MACD                                 *)

(* A function from the first n numbers is a series of length n.             *)
LEMMA SeriesTyped == \A n \in Nat : \A S : \A g \in [1 .. n -> S] : g \in Seq(S) /\ Len(g) = n
BY SeqDef, LenProperties

(* The changes of a series are one fewer than its values.                   *)
LEMMA ChangesTyped ==
  ASSUME NEW s \in Seq(Int), Len(s) >= 1
  PROVE  /\ Gains(s) \in Seq(Nat) /\ Len(Gains(s)) = Len(s) - 1
         /\ Losses(s) \in Seq(Nat) /\ Len(Losses(s)) = Len(s) - 1
         /\ Gains(s) \in Seq(Int) /\ Losses(s) \in Seq(Int)
<1>1. Len(s) - 1 \in Nat
  OBVIOUS
<1>2. ASSUME NEW i \in 1 .. Len(s) - 1 PROVE s[i] \in Int /\ s[i + 1] \in Int
  <2>1. i \in 1 .. Len(s) /\ i + 1 \in 1 .. Len(s)
    OBVIOUS
  <2> QED BY <2>1
<1>3. Gains(s) \in [1 .. Len(s) - 1 -> Nat] /\ Losses(s) \in [1 .. Len(s) - 1 -> Nat]
  <2>1. ASSUME NEW i \in 1 .. Len(s) - 1
        PROVE  /\ (IF s[i + 1] > s[i] THEN s[i + 1] - s[i] ELSE 0) \in Nat
               /\ (IF s[i + 1] < s[i] THEN s[i] - s[i + 1] ELSE 0) \in Nat
    <3>1. PICK x \in Int, y \in Int : x = s[i] /\ y = s[i + 1]
      BY <1>2
    <3>2. (IF y > x THEN y - x ELSE 0) \in Nat /\ (IF y < x THEN x - y ELSE 0) \in Nat
      OBVIOUS
    <3> QED BY <3>1, <3>2
  <2>2. Gains(s) \in [1 .. Len(s) - 1 -> Nat]
    BY <2>1, Zenon DEF Gains
  <2>3. Losses(s) \in [1 .. Len(s) - 1 -> Nat]
    BY <2>1, Zenon DEF Losses
  <2> QED BY <2>2, <2>3
<1>4. /\ Gains(s) \in Seq(Nat) /\ Len(Gains(s)) = Len(s) - 1
      /\ Losses(s) \in Seq(Nat) /\ Len(Losses(s)) = Len(s) - 1
  BY <1>1, <1>3, SeriesTyped
<1>5. Nat \subseteq Int
  OBVIOUS
<1> QED BY <1>4, <1>5, SeqMonotonic

(* The changes of series that begin alike begin alike.                      *)
LEMMA ChangesBegin ==
  ASSUME NEW s \in Seq(Int), NEW t \in Seq(Int), Begins(t, s), Len(t) >= 1
  PROVE  Begins(Gains(t), Gains(s)) /\ Begins(Losses(t), Losses(s))
<1>1. Len(t) \in Nat /\ Len(s) \in Nat /\ Len(t) <= Len(s) /\ Len(s) >= 1
  BY DEF Begins
<1>2. /\ Len(Gains(t)) = Len(t) - 1 /\ Len(Gains(s)) = Len(s) - 1
      /\ Len(Losses(t)) = Len(t) - 1 /\ Len(Losses(s)) = Len(s) - 1
  BY <1>1, ChangesTyped
<1>3. ASSUME NEW i \in 1 .. Len(t) - 1
      PROVE  i \in 1 .. Len(s) - 1 /\ t[i] = s[i] /\ t[i + 1] = s[i + 1]
  <2>1. i \in 1 .. Len(t) /\ i + 1 \in 1 .. Len(t)
    BY <1>1
  <2> QED BY <1>1, <2>1 DEF Begins
<1>4. \A i \in 1 .. Len(t) - 1 : Gains(t)[i] = Gains(s)[i] /\ Losses(t)[i] = Losses(s)[i]
  BY <1>3 DEF Gains, Losses
<1> QED BY <1>1, <1>2, <1>4 DEF Begins

(* The legs of the MACD.                                                    *)
LEMMA EmaTyped ==
  ASSUME NEW s \in Seq(Int), NEW w \in Nat \ {0, 1}
  PROVE  EmaSeries(s, w) \in [w .. Len(s) -> Int]
<1>1. Weights(w, w - 1, 2, w + 1)
  BY DEF Weights
<1> QED BY <1>1, EmaAverages, AverageTyped DEF Additive

(* Series that begin alike have the same exponential averages there.        *)
LEMMA EmaAgrees ==
  ASSUME NEW s \in Seq(Int), NEW t \in Seq(Int), Begins(t, s), NEW w \in Nat \ {0, 1}
  PROVE  \A i \in w .. Len(t) : EmaSeries(t, w)[i] = EmaSeries(s, w)[i]
<1>1. Weights(w, w - 1, 2, w + 1)
  BY DEF Weights
<1>2. Averages(s, w, w - 1, 2, w + 1, EmaSeries(s, w))
      /\ Averages(t, w, w - 1, 2, w + 1, EmaSeries(t, w))
  BY EmaAverages
<1> QED BY <1>1, <1>2, AveragesAgree

(* Wilder's average of numbers of a kind is of that kind.                   *)
LEMMA WilderTyped ==
  ASSUME NEW s \in Seq(Nat), NEW w \in Nat \ {0, 1}
  PROVE  WilderAverage(s, w) \in [w .. Len(s) -> Nat]
<1>1. Weights(w, w - 1, 1, w)
  BY DEF Weights
<1>2. s \in Seq(Int)
  BY SeqMonotonic
<1>3. Averages(s, w, w - 1, 1, w, WilderAverage(s, w))
  BY <1>2, WilderAverages
<1> QED BY <1>1, <1>3, AverageTyped DEF Additive

(* Series that begin alike have the same of Wilder's averages there.        *)
LEMMA WilderAgrees ==
  ASSUME NEW s \in Seq(Int), NEW t \in Seq(Int), Begins(t, s), NEW w \in Nat \ {0, 1}
  PROVE  \A i \in w .. Len(t) : WilderAverage(t, w)[i] = WilderAverage(s, w)[i]
<1>1. Weights(w, w - 1, 1, w)
  BY DEF Weights
<1>2. Averages(s, w, w - 1, 1, w, WilderAverage(s, w))
      /\ Averages(t, w, w - 1, 1, w, WilderAverage(t, w))
  BY WilderAverages
<1> QED BY <1>1, <1>2, AveragesAgree

(* The periods of the MACD.                                                 *)
MacdPeriods ==
  /\ Window \in Nat \ {0, 1} /\ Period \in Nat \ {0, 1} /\ FastPeriod \in Nat \ {0, 1}
  /\ SlowPeriod \in Nat \ {0, 1} /\ SignalPeriod \in Nat \ {0, 1} /\ FastPeriod < SlowPeriod
  /\ Lag \in Nat \ {0} /\ Unit \in Nat \ {0}

(* The periods of the MACD are positive and in order.                       *)
LEMMA PeriodsTyped == MacdPeriods
BY CalculatorAssumption DEF MacdPeriods

(* The MACD is a series from the slow leg on.                               *)
LEMMA MacdTyped ==
  ASSUME NEW s \in Seq(Int), Len(s) >= SlowPeriod
  PROVE  MacdLine(s) \in Seq(Int) /\ Len(MacdLine(s)) = Len(s) - SlowPeriod + 1
<1>1. /\ SlowPeriod \in Nat \ {0, 1} /\ FastPeriod \in Nat \ {0, 1} /\ FastPeriod < SlowPeriod
      /\ Len(s) \in Nat /\ Len(s) - SlowPeriod + 1 \in Nat
  BY PeriodsTyped DEF MacdPeriods
<1>2. /\ EmaSeries(s, FastPeriod) \in [FastPeriod .. Len(s) -> Int]
      /\ EmaSeries(s, SlowPeriod) \in [SlowPeriod .. Len(s) -> Int]
  BY <1>1, EmaTyped
<1>3. ASSUME NEW i \in 1 .. Len(s) - SlowPeriod + 1
      PROVE  EmaSeries(s, FastPeriod)[i + SlowPeriod - 1]
               - EmaSeries(s, SlowPeriod)[i + SlowPeriod - 1] \in Int
  <2>1. i + SlowPeriod - 1 \in FastPeriod .. Len(s) /\ i + SlowPeriod - 1 \in SlowPeriod .. Len(s)
    BY <1>1
  <2>2. /\ EmaSeries(s, FastPeriod)[i + SlowPeriod - 1] \in Int
        /\ EmaSeries(s, SlowPeriod)[i + SlowPeriod - 1] \in Int
    BY <1>2, <2>1
  <2> QED BY <2>2
<1>4. MacdLine(s) \in [1 .. Len(s) - SlowPeriod + 1 -> Int]
  BY <1>3 DEF MacdLine
<1> QED BY <1>1, <1>4, SeriesTyped

(* The MACDs of series that begin alike begin alike.                        *)
LEMMA MacdBegins ==
  ASSUME NEW s \in Seq(Int), NEW t \in Seq(Int), Begins(t, s), Len(t) >= SlowPeriod
  PROVE  Begins(MacdLine(t), MacdLine(s))
<1>1. /\ SlowPeriod \in Nat \ {0, 1} /\ FastPeriod \in Nat \ {0, 1} /\ FastPeriod < SlowPeriod
      /\ Len(s) \in Nat /\ Len(t) \in Nat /\ Len(t) <= Len(s) /\ Len(s) >= SlowPeriod
  BY PeriodsTyped DEF MacdPeriods, Begins
<1>2. Len(MacdLine(s)) = Len(s) - SlowPeriod + 1 /\ Len(MacdLine(t)) = Len(t) - SlowPeriod + 1
  BY <1>1, MacdTyped
<1>3. ASSUME NEW i \in 1 .. Len(t) - SlowPeriod + 1 PROVE MacdLine(t)[i] = MacdLine(s)[i]
  <2>1. i + SlowPeriod - 1 \in FastPeriod .. Len(t) /\ i + SlowPeriod - 1 \in SlowPeriod .. Len(t)
    BY <1>1
  <2>2. /\ EmaSeries(t, FastPeriod)[i + SlowPeriod - 1] = EmaSeries(s, FastPeriod)[i + SlowPeriod - 1]
        /\ EmaSeries(t, SlowPeriod)[i + SlowPeriod - 1] = EmaSeries(s, SlowPeriod)[i + SlowPeriod - 1]
    BY <1>1, <2>1, EmaAgrees
  <2>3. i \in 1 .. Len(s) - SlowPeriod + 1
    BY <1>1
  <2> QED BY <2>2, <2>3 DEF MacdLine
<1> QED BY <1>1, <1>2, <1>3 DEF Begins

-----------------------------------------------------------------------------
(* The values of a feature                                                  *)

(* A feature has its values from the required history on, and they are the  *)
(* ones a series that goes further has there.                               *)
ValuesAt(f, s) == DOMAIN FeatureValues(f, s) = RequiredHistory(f) .. Len(s)
ValuesKept(f, t, s) ==
  \A i \in RequiredHistory(f) .. Len(t) : FeatureValues(f, s)[i] = FeatureValues(f, t)[i]

(* Every feature requires some history.                                     *)
LEMMA HistoryTyped == \A f \in Feature : RequiredHistory(f) \in Nat \ {0}
<1> SUFFICES ASSUME NEW f \in Feature PROVE RequiredHistory(f) \in Nat \ {0}
  OBVIOUS
<1> QED BY PeriodsTyped DEF MacdPeriods, RequiredHistory, Feature

(* A shorter series has no values.                                          *)
LEMMA TooShort ==
  ASSUME NEW f \in Feature, NEW s \in Seq(Int), Len(s) < RequiredHistory(f)
  PROVE  ValuesAt(f, s)
<1>1. RequiredHistory(f) \in Nat /\ Len(s) \in Nat
  BY HistoryTyped
<1>2. RequiredHistory(f) .. Len(s) = {}
  BY <1>1
<1>3. FeatureValues(f, s) = <<>>
  BY DEF FeatureValues
<1> QED BY <1>2, <1>3 DEF ValuesAt

(* Where the moving average has values.                                     *)
LEMMA SmaValues ==
  ASSUME NEW s \in Seq(Int), Len(s) >= RequiredHistory("SMA")
  PROVE  FeatureValues("SMA", s) = [i \in Window .. Len(s) |-> Mean(s, i - Window + 1, i)]
         /\ RequiredHistory("SMA") = Window
<1>1. ~(Len(s) < RequiredHistory("SMA")) /\ RequiredHistory("SMA") = Window
  BY HistoryTyped DEF RequiredHistory, Feature
<1> QED BY <1>1 DEF FeatureValues, SimpleMovingAverage

(* Where the exponential average has values.                                *)
LEMMA EmaValues ==
  ASSUME NEW s \in Seq(Int), Len(s) >= RequiredHistory("EMA")
  PROVE  FeatureValues("EMA", s) = EmaSeries(s, Window) /\ RequiredHistory("EMA") = Window
<1>1. ~(Len(s) < RequiredHistory("EMA")) /\ RequiredHistory("EMA") = Window
  BY HistoryTyped DEF RequiredHistory, Feature
<1> QED BY <1>1 DEF FeatureValues, ExponentialMovingAverage

(* Where the return has values.                                             *)
LEMMA ReturnValues ==
  ASSUME NEW s \in Seq(Int), Len(s) >= RequiredHistory("RETURN_PCT")
  PROVE  /\ FeatureValues("RETURN_PCT", s) = ReturnPercent(s, Lag)
         /\ RequiredHistory("RETURN_PCT") = Lag + 1
<1>1. /\ ~(Len(s) < RequiredHistory("RETURN_PCT"))
      /\ RequiredHistory("RETURN_PCT") = Lag + 1
  BY HistoryTyped DEF RequiredHistory, Feature
<1> QED BY <1>1 DEF FeatureValues

(* Where the index has values.                                              *)
LEMMA IndexValues ==
  ASSUME NEW s \in Seq(Int), Len(s) >= RequiredHistory("RSI")
  PROVE  /\ FeatureValues("RSI", s) = RelativeStrengthIndex(s, Period)
         /\ RequiredHistory("RSI") = Period + 1
<1>1. ~(Len(s) < RequiredHistory("RSI")) /\ RequiredHistory("RSI") = Period + 1
  BY HistoryTyped DEF RequiredHistory, Feature
<1> QED BY <1>1 DEF FeatureValues

(* Where the MACD has values.                                               *)
LEMMA MacdValues ==
  ASSUME NEW f \in {"MACD", "SIGNAL", "HISTOGRAM"}, NEW s \in Seq(Int),
         Len(s) >= RequiredHistory(f)
  PROVE  /\ FeatureValues(f, s) = Macd(s, f)
         /\ RequiredHistory(f) = IF f = "MACD" THEN SlowPeriod ELSE SlowPeriod + SignalPeriod - 1
<1>1. ~(Len(s) < RequiredHistory(f))
  BY HistoryTyped DEF Feature
<1>2. f # "SMA" /\ f # "EMA" /\ f # "RETURN_PCT" /\ f # "RSI"
  OBVIOUS
<1>3. RequiredHistory(f) = IF f = "MACD" THEN SlowPeriod ELSE SlowPeriod + SignalPeriod - 1
  BY <1>2 DEF RequiredHistory
<1>4. FeatureValues(f, s) = Macd(s, f)
  BY <1>1, <1>2 DEF FeatureValues
<1> QED BY <1>3, <1>4

(* Where a feature has values.                                              *)
LEMMA EveryFeatureValuesAt ==
  ASSUME NEW f \in Feature, NEW s \in Seq(Int)
  PROVE  ValuesAt(f, s)
<1>1. CASE Len(s) < RequiredHistory(f)
  BY <1>1, TooShort
<1>2. CASE ~(Len(s) < RequiredHistory(f))
  <2>1. Len(s) >= RequiredHistory(f)
    BY <1>2, HistoryTyped
  <2>2. CASE f = "SMA"
    BY <2>1, <2>2, SmaValues DEF ValuesAt
  <2>3. CASE f = "EMA"
    <3>1. EmaSeries(s, Window) \in [Window .. Len(s) -> Int]
      BY PeriodsTyped, EmaTyped DEF MacdPeriods
    <3> QED BY <2>1, <2>3, <3>1, EmaValues DEF ValuesAt
  <2>4. CASE f = "RETURN_PCT"
    BY <2>1, <2>4, ReturnValues DEF ValuesAt, ReturnPercent
  <2>5. CASE f = "RSI"
    BY <2>1, <2>5, IndexValues DEF ValuesAt, RelativeStrengthIndex
  <2>6. CASE f \in {"MACD", "SIGNAL", "HISTOGRAM"}
    <3>1. DOMAIN Macd(s, f) = IF f = "MACD" THEN SlowPeriod .. Len(s)
                              ELSE SlowPeriod + SignalPeriod - 1 .. Len(s)
      BY DEF Macd
    <3>2. DOMAIN FeatureValues(f, s) = RequiredHistory(f) .. Len(s)
      BY <2>1, <2>6, <3>1, MacdValues
    <3> QED BY <3>2 DEF ValuesAt
  <2> QED BY <2>2, <2>3, <2>4, <2>5, <2>6 DEF Feature
<1> QED BY <1>1, <1>2

(* A longer series keeps the values of the one it continues, feature by     *)
(* feature.                                                                 *)
LEMMA SmaKept ==
  ASSUME NEW s \in Seq(Int), NEW t \in Seq(Int), Begins(t, s), Len(t) >= RequiredHistory("SMA"),
         Len(s) >= RequiredHistory("SMA")
  PROVE  ValuesKept("SMA", t, s)
<1>1. ASSUME NEW i \in Window .. Len(t)
      PROVE  FeatureValues("SMA", s)[i] = FeatureValues("SMA", t)[i]
  <2>1. Window \in Nat \ {0} /\ Len(t) \in Nat /\ Len(s) \in Nat /\ Len(t) <= Len(s)
    BY PeriodsTyped DEF MacdPeriods, Begins
  <2>2. i \in Window .. Len(s) /\ i - Window + 1 \in 1 .. Len(t) /\ i \in i - Window + 1 .. Len(t)
    BY <2>1
  <2>3. Mean(t, i - Window + 1, i) = Mean(s, i - Window + 1, i)
    BY <2>2, MeanAgrees
  <2> QED BY <2>2, <2>3, SmaValues
<1> QED BY <1>1, SmaValues DEF ValuesKept

(* The exponential average keeps its values.                                *)
LEMMA EmaKept ==
  ASSUME NEW s \in Seq(Int), NEW t \in Seq(Int), Begins(t, s), Len(t) >= RequiredHistory("EMA"),
         Len(s) >= RequiredHistory("EMA")
  PROVE  ValuesKept("EMA", t, s)
<1>1. \A i \in Window .. Len(t) : EmaSeries(t, Window)[i] = EmaSeries(s, Window)[i]
  BY PeriodsTyped, EmaAgrees DEF MacdPeriods
<1> QED BY <1>1, EmaValues DEF ValuesKept

(* The return keeps its values.                                             *)
LEMMA ReturnKept ==
  ASSUME NEW s \in Seq(Int), NEW t \in Seq(Int), Begins(t, s),
         Len(t) >= RequiredHistory("RETURN_PCT"), Len(s) >= RequiredHistory("RETURN_PCT")
  PROVE  ValuesKept("RETURN_PCT", t, s)
<1>1. ASSUME NEW i \in Lag + 1 .. Len(t)
      PROVE  FeatureValues("RETURN_PCT", s)[i] = FeatureValues("RETURN_PCT", t)[i]
  <2>1. Lag \in Nat \ {0} /\ Len(t) \in Nat /\ Len(s) \in Nat /\ Len(t) <= Len(s)
    BY PeriodsTyped DEF MacdPeriods, Begins
  <2>2. i \in Lag + 1 .. Len(s) /\ i \in 1 .. Len(t) /\ i - Lag \in 1 .. Len(t)
    BY <2>1
  <2>3. t[i] = s[i] /\ t[i - Lag] = s[i - Lag]
    BY <2>2 DEF Begins
  <2>4. /\ ReturnPercent(s, Lag)[i] = Quantize((s[i] - s[i - Lag]) * 100 * Unit, s[i - Lag])
        /\ ReturnPercent(t, Lag)[i] = Quantize((t[i] - t[i - Lag]) * 100 * Unit, t[i - Lag])
    BY <2>2 DEF ReturnPercent
  <2> QED BY <2>3, <2>4, ReturnValues
<1> QED BY <1>1, ReturnValues DEF ValuesKept

(* The index keeps its values.                                              *)
LEMMA IndexKept ==
  ASSUME NEW s \in Seq(Int), NEW t \in Seq(Int), Begins(t, s), Len(t) >= RequiredHistory("RSI"),
         Len(s) >= RequiredHistory("RSI")
  PROVE  ValuesKept("RSI", t, s)
<1>1. /\ Period \in Nat \ {0, 1} /\ Len(t) \in Nat /\ Len(s) \in Nat /\ Len(t) <= Len(s)
      /\ Len(t) >= 1 /\ Len(s) >= 1 /\ RequiredHistory("RSI") = Period + 1
  BY PeriodsTyped, IndexValues DEF MacdPeriods, Begins
<1>2. /\ Gains(t) \in Seq(Int) /\ Gains(s) \in Seq(Int) /\ Len(Gains(t)) = Len(t) - 1
      /\ Losses(t) \in Seq(Int) /\ Losses(s) \in Seq(Int) /\ Len(Losses(t)) = Len(t) - 1
  BY <1>1, ChangesTyped
<1>3. Begins(Gains(t), Gains(s)) /\ Begins(Losses(t), Losses(s))
  BY <1>1, ChangesBegin
<1>4. ASSUME NEW i \in Period .. Len(t) - 1
      PROVE  /\ WilderAverage(Gains(t), Period)[i] = WilderAverage(Gains(s), Period)[i]
             /\ WilderAverage(Losses(t), Period)[i] = WilderAverage(Losses(s), Period)[i]
  <2>1. \A j \in Period .. Len(Gains(t)) :
          WilderAverage(Gains(t), Period)[j] = WilderAverage(Gains(s), Period)[j]
    BY <1>1, <1>2, <1>3, WilderAgrees
  <2>2. \A j \in Period .. Len(Losses(t)) :
          WilderAverage(Losses(t), Period)[j] = WilderAverage(Losses(s), Period)[j]
    BY <1>1, <1>2, <1>3, WilderAgrees
  <2> QED BY <1>2, <2>1, <2>2
<1>5. ASSUME NEW i \in Period + 1 .. Len(t)
      PROVE  FeatureValues("RSI", s)[i] = FeatureValues("RSI", t)[i]
  <2>1. i - 1 \in Period .. Len(t) - 1 /\ i \in Period + 1 .. Len(s)
    BY <1>1
  <2>2. RelativeStrengthIndex(s, Period)[i] = RelativeStrengthIndex(t, Period)[i]
    BY <1>4, <2>1 DEF RelativeStrengthIndex
  <2> QED BY <2>2, IndexValues
<1> QED BY <1>1, <1>5 DEF ValuesKept

(* The MACD keeps its values.                                               *)
LEMMA MacdKept ==
  ASSUME NEW f \in {"MACD", "SIGNAL", "HISTOGRAM"},
         NEW s \in Seq(Int), NEW t \in Seq(Int), Begins(t, s), Len(t) >= RequiredHistory(f),
         Len(s) >= RequiredHistory(f)
  PROVE  ValuesKept(f, t, s)
<1>1. /\ SlowPeriod \in Nat \ {0, 1} /\ SignalPeriod \in Nat \ {0, 1}
      /\ Len(t) \in Nat /\ Len(s) \in Nat /\ Len(t) <= Len(s)
  BY PeriodsTyped DEF MacdPeriods, Begins
<1>2. RequiredHistory(f) = IF f = "MACD" THEN SlowPeriod ELSE SlowPeriod + SignalPeriod - 1
  BY MacdValues
<1>3. Len(t) >= SlowPeriod /\ Len(s) >= SlowPeriod
  BY <1>1, <1>2
<1>4. /\ MacdLine(t) \in Seq(Int) /\ Len(MacdLine(t)) = Len(t) - SlowPeriod + 1
      /\ MacdLine(s) \in Seq(Int) /\ Begins(MacdLine(t), MacdLine(s))
  BY <1>3, MacdTyped, MacdBegins
<1>5. \A i \in 1 .. Len(t) - SlowPeriod + 1 : MacdLine(t)[i] = MacdLine(s)[i]
  BY <1>4 DEF Begins
<1>6. \A i \in SignalPeriod .. Len(t) - SlowPeriod + 1 :
        EmaSeries(MacdLine(t), SignalPeriod)[i] = EmaSeries(MacdLine(s), SignalPeriod)[i]
  <2>1. PICK u, v : u = MacdLine(t) /\ v = MacdLine(s)
    OBVIOUS
  <2>2. /\ u \in Seq(Int) /\ v \in Seq(Int) /\ Begins(u, v)
        /\ Len(u) = Len(t) - SlowPeriod + 1 /\ SignalPeriod \in Nat \ {0, 1}
    BY <1>1, <1>4, <2>1
  <2>3. \A i \in SignalPeriod .. Len(u) : EmaSeries(u, SignalPeriod)[i] = EmaSeries(v, SignalPeriod)[i]
    BY <2>2, EmaAgrees
  <2> QED BY <2>1, <2>2, <2>3
<1>7. ASSUME NEW i \in RequiredHistory(f) .. Len(t) PROVE Macd(s, f)[i] = Macd(t, f)[i]
  <2>1. CASE f = "MACD"
    <3>1. /\ i \in SlowPeriod .. Len(t) /\ i \in SlowPeriod .. Len(s)
          /\ i - (SlowPeriod - 1) \in 1 .. Len(t) - SlowPeriod + 1
      BY <1>1, <1>2, <2>1
    <3>2. Macd(s, f)[i] = MacdLine(s)[i - (SlowPeriod - 1)]
          /\ Macd(t, f)[i] = MacdLine(t)[i - (SlowPeriod - 1)]
      BY <2>1, <3>1 DEF Macd
    <3> QED BY <1>5, <3>1, <3>2
  <2>2. CASE f # "MACD"
    <3>1. /\ i \in SlowPeriod + SignalPeriod - 1 .. Len(t)
          /\ i \in SlowPeriod + SignalPeriod - 1 .. Len(s)
          /\ i - (SlowPeriod - 1) \in 1 .. Len(t) - SlowPeriod + 1
          /\ i - (SlowPeriod - 1) \in SignalPeriod .. Len(t) - SlowPeriod + 1
      BY <1>1, <1>2, <2>2
    <3>2. PICK at : at = i - (SlowPeriod - 1)
      OBVIOUS
    <3>3. Macd(s, f)[i] = (IF f = "SIGNAL" THEN EmaSeries(MacdLine(s), SignalPeriod)[at]
                           ELSE MacdLine(s)[at] - EmaSeries(MacdLine(s), SignalPeriod)[at])
      BY <2>2, <3>1, <3>2 DEF Macd
    <3>4. Macd(t, f)[i] = (IF f = "SIGNAL" THEN EmaSeries(MacdLine(t), SignalPeriod)[at]
                           ELSE MacdLine(t)[at] - EmaSeries(MacdLine(t), SignalPeriod)[at])
      BY <2>2, <3>1, <3>2 DEF Macd
    <3>5. /\ MacdLine(t)[at] = MacdLine(s)[at]
          /\ EmaSeries(MacdLine(t), SignalPeriod)[at] = EmaSeries(MacdLine(s), SignalPeriod)[at]
      BY <1>5, <1>6, <3>1, <3>2
    <3> QED BY <3>3, <3>4, <3>5
  <2> QED BY <2>1, <2>2
<1>8. FeatureValues(f, s) = Macd(s, f) /\ FeatureValues(f, t) = Macd(t, f)
  BY MacdValues
<1> QED BY <1>7, <1>8 DEF ValuesKept

(* Every feature keeps its values.                                          *)
LEMMA EveryFeatureKept ==
  ASSUME NEW f \in Feature, NEW s \in Seq(Int), NEW t \in Seq(Int), Begins(t, s)
  PROVE  ValuesKept(f, t, s)
<1>1. RequiredHistory(f) \in Nat /\ Len(t) \in Nat /\ Len(s) \in Nat /\ Len(t) <= Len(s)
  BY HistoryTyped DEF Begins
<1>2. CASE Len(t) < RequiredHistory(f)
  BY <1>1, <1>2 DEF ValuesKept
<1>3. CASE ~(Len(t) < RequiredHistory(f))
  <2>1. Len(t) >= RequiredHistory(f) /\ Len(s) >= RequiredHistory(f)
    BY <1>1, <1>3
  <2>2. f \in {"SMA", "EMA", "RETURN_PCT", "RSI"} \/ f \in {"MACD", "SIGNAL", "HISTOGRAM"}
    BY DEF Feature
  <2> QED BY <2>1, <2>2, SmaKept, EmaKept, ReturnKept, IndexKept, MacdKept
<1> QED BY <1>2, <1>3

(* The series without its last bar.                                         *)
LEMMA FrontBegins ==
  ASSUME NEW s \in Seq(Int), Len(s) > 0
  PROVE  Front(s) \in Seq(Int) /\ Len(Front(s)) = Len(s) - 1 /\ Begins(Front(s), s)
<1>1. Front(s) = SubSeq(s, 1, Len(s) - 1)
  BY DEF Front
<1>2. 1 \in Int /\ Len(s) - 1 \in Int /\ \A i \in 1 .. Len(s) - 1 : s[i] \in Int
  OBVIOUS
<1>3. /\ SubSeq(s, 1, Len(s) - 1) \in Seq(Int)
      /\ Len(SubSeq(s, 1, Len(s) - 1)) = IF 1 <= Len(s) - 1 THEN (Len(s) - 1) - 1 + 1 ELSE 0
      /\ \A i \in 1 .. (Len(s) - 1) - 1 + 1 : SubSeq(s, 1, Len(s) - 1)[i] = s[1 + i - 1]
  BY <1>2, SubSeqProperties
<1>4. Len(SubSeq(s, 1, Len(s) - 1)) = Len(s) - 1
  <2>1. PICK n : n = Len(s)
    OBVIOUS
  <2>2. n \in Nat /\ n > 0
    BY <2>1
  <2>3. (IF 1 <= n - 1 THEN (n - 1) - 1 + 1 ELSE 0) = n - 1
    BY <2>2
  <2> QED BY <1>3, <2>1, <2>3
<1>5. \A i \in 1 .. Len(s) - 1 : SubSeq(s, 1, Len(s) - 1)[i] = s[i]
  <2>1. ASSUME NEW i \in 1 .. Len(s) - 1 PROVE i \in 1 .. (Len(s) - 1) - 1 + 1 /\ 1 + i - 1 = i
    OBVIOUS
  <2> QED BY <1>3, <2>1
<1>6. Len(s) - 1 <= Len(s)
  OBVIOUS
<1> QED BY <1>1, <1>3, <1>4, <1>5, <1>6 DEF Begins

(* The averages of the closes and of their changes stay near the exact ones.*)
LEMMA EmaStaysNear ==
  ASSUME NEW s \in Seq(Int), NEW w \in Nat \ {0, 1}
  PROVE  \A i \in w .. Len(s) : Near(EmaSeries(s, w)[i], ExactEma(s, w)[i], w + 1, 4)
<1>1. Weights(w, w - 1, 2, w + 1) /\ w <= w + 1 /\ 2 * ((w + 1) - (w - 1)) = 4
  BY DEF Weights
<1>2. /\ Averages(s, w, w - 1, 2, w + 1, EmaSeries(s, w))
      /\ AveragesExactly(s, w, w - 1, 2, w + 1, ExactEma(s, w))
  BY EmaAverages, ExactEmaAverages
<1>3. \A i \in w .. Len(s) :
        Near(EmaSeries(s, w)[i], ExactEma(s, w)[i], w + 1, 2 * ((w + 1) - (w - 1)))
  BY <1>1, <1>2, AverageStaysNear
<1> QED BY <1>1, <1>3

(* Wilder's average stays near its exact one.                              *)
LEMMA WilderStaysNear ==
  ASSUME NEW s \in Seq(Int), NEW w \in Nat \ {0, 1}
  PROVE  \A i \in w .. Len(s) : Near(WilderAverage(s, w)[i], ExactWilder(s, w)[i], w, 2)
<1>1. Weights(w, w - 1, 1, w) /\ w <= w /\ 2 * (w - (w - 1)) = 2
  BY DEF Weights
<1>2. /\ Averages(s, w, w - 1, 1, w, WilderAverage(s, w))
      /\ AveragesExactly(s, w, w - 1, 1, w, ExactWilder(s, w))
  BY WilderAverages, ExactWilderAverages
<1>3. \A i \in w .. Len(s) :
        Near(WilderAverage(s, w)[i], ExactWilder(s, w)[i], w, 2 * (w - (w - 1)))
  BY <1>1, <1>2, AverageStaysNear
<1> QED BY <1>1, <1>3

(* The index of two averages that are not negative is between 0 and 100.    *)
LEMMA IndexBounded ==
  ASSUME NEW gain \in Nat, NEW loss \in Nat
  PROVE  Index(gain, loss) \in 0 .. 100 * Unit
<1>1. Unit \in Nat \ {0}
  BY PeriodsTyped DEF MacdPeriods
<1>2. 50 * Unit \in 0 .. 100 * Unit /\ 100 * Unit \in 0 .. 100 * Unit
  BY <1>1
<1>3. ASSUME loss # 0 PROVE Quantize(100 * Unit * gain, gain + loss) \in 0 .. 100 * Unit
  <2>1. PICK top : top = 100 * Unit
    OBVIOUS
  <2>2. top \in Nat /\ top * gain \in Nat /\ gain + loss \in Nat \ {0} /\ top * loss \in Nat
    BY <1>1, <1>3, <2>1
  <2>3. top * gain <= top * (gain + loss)
    <3>1. top * (gain + loss) = top * gain + top * loss
      BY <2>2
    <3> QED BY <2>2, <3>1
  <2>4. PICK share, whole : share = top * gain /\ whole = gain + loss
    OBVIOUS
  <2>5. share \in Int /\ share >= 0 /\ whole \in Nat \ {0} /\ share <= top * whole
    BY <2>2, <2>3, <2>4
  <2>6. Quantize(share, whole) \in Nat /\ Quantize(share, whole) <= top
    BY <2>2, <2>5, RoundedWithin
  <2> QED BY <2>1, <2>2, <2>4, <2>6
<1> QED BY <1>2, <1>3 DEF Index

(* So the index of every series is between 0 and 100.                       *)
LEMMA StrengthBounded ==
  ASSUME NEW s \in Seq(Int), Len(s) > Period
  PROVE  RelativeStrengthIndex(s, Period)[Len(s)] \in 0 .. 100 * Unit
<1>1. Period \in Nat \ {0, 1} /\ Len(s) \in Nat /\ Len(s) >= 1
  BY PeriodsTyped DEF MacdPeriods
<1>2. /\ Gains(s) \in Seq(Nat) /\ Len(Gains(s)) = Len(s) - 1
      /\ Losses(s) \in Seq(Nat) /\ Len(Losses(s)) = Len(s) - 1
  BY <1>1, ChangesTyped
<1>3. /\ WilderAverage(Gains(s), Period) \in [Period .. Len(s) - 1 -> Nat]
      /\ WilderAverage(Losses(s), Period) \in [Period .. Len(s) - 1 -> Nat]
  BY <1>1, <1>2, WilderTyped
<1>4. Len(s) - 1 \in Period .. Len(s) - 1 /\ Len(s) \in Period + 1 .. Len(s)
  BY <1>1
<1>5. PICK gain, loss : /\ gain = WilderAverage(Gains(s), Period)[Len(s) - 1]
                        /\ loss = WilderAverage(Losses(s), Period)[Len(s) - 1]
  OBVIOUS
<1>6. gain \in Nat /\ loss \in Nat
  BY <1>3, <1>4, <1>5
<1>7. RelativeStrengthIndex(s, Period)[Len(s)] = Index(gain, loss)
  BY <1>4, <1>5 DEF RelativeStrengthIndex
<1> QED BY <1>6, <1>7, IndexBounded

(* Of every series of prices.                                               *)
LEMMA ValuesFinalOfPrices == CalculatorTypeOK => ValuesAreFinal
<1> SUFFICES ASSUME CalculatorTypeOK PROVE ValuesAreFinal
  OBVIOUS
<1> DEFINE n == Len(closes)
<1>1. closes \in Seq(Int) /\ n \in Nat
  <2>1. Price \subseteq Int
    BY CalculatorAssumption
  <2>2. closes \in Seq(Price)
    BY DEF CalculatorTypeOK
  <2>3. closes \in Seq(Int)
    BY <2>1, <2>2, SeqMonotonic
  <2> QED BY <2>3, LenProperties
<1>2. ASSUME NEW f \in Feature
      PROVE  /\ DOMAIN FeatureValues(f, closes) = RequiredHistory(f) .. n
             /\ n > 0 => \A i \in DOMAIN FeatureValues(f, Front(closes)) :
                           FeatureValues(f, closes)[i] = FeatureValues(f, Front(closes))[i]
  <2>1. ValuesAt(f, closes)
    BY <1>1, EveryFeatureValuesAt
  <2>2. ASSUME n > 0
        PROVE  \A i \in DOMAIN FeatureValues(f, Front(closes)) :
                 FeatureValues(f, closes)[i] = FeatureValues(f, Front(closes))[i]
    <3>1. Front(closes) \in Seq(Int) /\ Begins(Front(closes), closes)
      BY <1>1, <2>2, FrontBegins
    <3>2. ValuesAt(f, Front(closes)) /\ ValuesKept(f, Front(closes), closes)
      BY <1>1, <3>1, EveryFeatureValuesAt, EveryFeatureKept
    <3> QED BY <3>2 DEF ValuesAt, ValuesKept
  <2> QED BY <2>1, <2>2 DEF ValuesAt
<1>3. Window \in Nat \ {0, 1} /\ Period \in Nat \ {0, 1}
  BY PeriodsTyped DEF MacdPeriods
<1>4. ASSUME n >= Window
      PROVE  Near(EmaSeries(closes, Window)[n], ExactEma(closes, Window)[n], Window + 1, 4)
  <2>1. n \in Window .. n
    BY <1>1, <1>3, <1>4
  <2> QED BY <1>1, <1>3, <2>1, EmaStaysNear
<1>5. ASSUME n > Period, NEW changes \in {Gains(closes), Losses(closes)}
      PROVE  Near(WilderAverage(changes, Period)[n - 1], ExactWilder(changes, Period)[n - 1],
                  Period, 2)
  <2>1. changes \in Seq(Int) /\ Len(changes) = n - 1
    BY <1>1, <1>3, <1>5, ChangesTyped
  <2>2. n - 1 \in Period .. n - 1
    BY <1>1, <1>3, <1>5
  <2> QED BY <1>3, <2>1, <2>2, WilderStaysNear
<1>6. ASSUME n > Period PROVE RelativeStrengthIndex(closes, Period)[n] \in 0 .. 100 * Unit
  BY <1>1, <1>6, StrengthBounded
<1> QED BY <1>2, <1>4, <1>5, <1>6 DEF ValuesAreFinal

-----------------------------------------------------------------------------
(* Bars in time order                                                       *)

(* Of two bars the first one has fewer before it.                           *)
Earlier(T, t) == {u \in T : u < t}

(* The bars before a bar are fewer than all, and fewer than those before a  *)
(* later one.                                                               *)
LEMMA FewerEarlier ==
  ASSUME NEW T \in SUBSET Nat, IsFiniteSet(T), NEW t \in T
  PROVE  /\ Cardinality(Earlier(T, t)) \in 0 .. Cardinality(T) - 1
         /\ \A u \in T : t < u => Cardinality(Earlier(T, t)) < Cardinality(Earlier(T, u))
<1>1. ASSUME NEW U \in SUBSET T, NEW V \in SUBSET U, t \in U, t \notin V
      PROVE  Cardinality(V) < Cardinality(U)
  <2>1. IsFiniteSet(U) /\ IsFiniteSet(V) /\ Cardinality(U) \in Nat /\ Cardinality(V) \in Nat
    BY FS_Subset, FS_CardinalityType
  <2>2. Cardinality(V) <= Cardinality(U) /\ (Cardinality(U) = Cardinality(V) => U = V)
    BY <2>1, FS_Subset
  <2> QED BY <1>1, <2>1, <2>2
<1>2. t \notin Earlier(T, t) /\ Earlier(T, t) \in SUBSET T
  BY DEF Earlier
<1>3. Cardinality(Earlier(T, t)) < Cardinality(T)
  BY <1>1, <1>2
<1>4. Cardinality(Earlier(T, t)) \in Nat /\ Cardinality(T) \in Nat
  BY <1>2, FS_Subset, FS_CardinalityType
<1>5. ASSUME NEW u \in T, t < u
      PROVE  Cardinality(Earlier(T, t)) < Cardinality(Earlier(T, u))
  <2>1. /\ Earlier(T, u) \in SUBSET T /\ Earlier(T, t) \in SUBSET Earlier(T, u)
        /\ t \in Earlier(T, u)
    <3>1. \A w \in T : w < t => w < u
      BY <1>5
    <3> QED BY <1>5, <3>1 DEF Earlier
  <2> QED BY <1>1, <1>2, <2>1
<1> QED BY <1>3, <1>4, <1>5

(* So the list is ascending and has every bar.                              *)
LEMMA AscendingIs ==
  ASSUME NEW T \in SUBSET Nat, IsFiniteSet(T)
  PROVE  /\ Cardinality(T) \in Nat
         /\ Ascending(T) \in Seq(T) /\ Len(Ascending(T)) = Cardinality(T)
         /\ \A k \in 1 .. Cardinality(T) : \A j \in 1 .. k - 1 :
              Ascending(T)[j] < Ascending(T)[k]
         /\ \A t \in T : \E k \in 1 .. Cardinality(T) : Ascending(T)[k] = t
<1> DEFINE n == Cardinality(T)
<1> DEFINE place == [t \in T |-> Cardinality(Earlier(T, t))]
<1>1. n \in Nat
  BY FS_CardinalityType
<1>2. IsFiniteSet(0 .. n - 1) /\ Cardinality(0 .. n - 1) = n
  <2>1. 0 \in Int /\ n - 1 \in Int
    BY <1>1
  <2>2. IsFiniteSet(0 .. n - 1)
        /\ Cardinality(0 .. n - 1) = IF 0 > n - 1 THEN 0 ELSE (n - 1) - 0 + 1
    BY <2>1, FS_Interval
  <2> HIDE DEF n
  <2> QED BY <1>1, <2>2
<1>3. place \in [T -> 0 .. n - 1]
  BY FewerEarlier
<1>4. ASSUME NEW t \in T, NEW u \in T, Cardinality(Earlier(T, t)) = Cardinality(Earlier(T, u))
      PROVE  t = u
  <2>1. /\ t < u => Cardinality(Earlier(T, t)) < Cardinality(Earlier(T, u))
        /\ u < t => Cardinality(Earlier(T, u)) < Cardinality(Earlier(T, t))
        /\ Cardinality(Earlier(T, t)) \in 0 .. n - 1
        /\ Cardinality(Earlier(T, u)) \in 0 .. n - 1
    BY FewerEarlier
  <2> QED BY <1>1, <1>4, <2>1
<1>5. \A t, u \in T : place[t] = place[u] => t = u
  BY <1>4
<1> HIDE DEF place
<1>6. place \in Injection(T, 0 .. n - 1)
  BY <1>3, <1>5 DEF Injection, IsInjective
<1>7. place \in Surjection(T, 0 .. n - 1)
  BY <1>1, <1>2, <1>6, FS_Injection
<1>8. ASSUME NEW k \in 1 .. n PROVE \E t \in T : place[t] = k - 1
  <2>1. k - 1 \in 0 .. n - 1
    BY <1>1
  <2> QED BY <1>7, <2>1 DEF Surjection
<1> DEFINE At(k) == CHOOSE t \in T : Cardinality({u \in T : u < t}) = k - 1
<1>9. \A k \in 1 .. n : At(k) \in T /\ Cardinality(Earlier(T, At(k))) = k - 1
  <2>1. ASSUME NEW k \in 1 .. n PROVE \E t \in T : Cardinality({u \in T : u < t}) = k - 1
    BY <1>8 DEF place, Earlier
  <2> QED BY <2>1 DEF Earlier
<1>10. Ascending(T) = [k \in 1 .. n |-> At(k)]
  BY DEF Ascending
<1> HIDE DEF At
<1>11. Ascending(T) \in [1 .. n -> T] /\ \A k \in 1 .. n : Ascending(T)[k] = At(k)
  BY <1>9, <1>10
<1> HIDE DEF n
<1>12. Ascending(T) \in Seq(T) /\ Len(Ascending(T)) = n
  BY <1>1, <1>11, SeriesTyped
<1>13. ASSUME NEW k \in 1 .. n, NEW j \in 1 .. k - 1 PROVE At(j) < At(k)
  <2>1. j \in 1 .. n
    BY <1>1
  <2>2. /\ At(j) \in T /\ At(k) \in T /\ At(j) \in Nat /\ At(k) \in Nat
        /\ Cardinality(Earlier(T, At(j))) = j - 1 /\ Cardinality(Earlier(T, At(k))) = k - 1
    BY <1>9, <2>1
  <2>3. At(k) < At(j) => Cardinality(Earlier(T, At(k))) < Cardinality(Earlier(T, At(j)))
    BY <2>2, FewerEarlier
  <2>4. ~(At(k) < At(j)) /\ At(j) # At(k)
    BY <1>1, <2>1, <2>2, <2>3
  <2> QED BY <2>2, <2>4
<1>14. ASSUME NEW t \in T PROVE \E k \in 1 .. n : At(k) = t
  <2>1. PICK r \in 0 .. n - 1 : r = place[t]
    BY <1>3
  <2>2. r + 1 \in 1 .. n /\ (r + 1) - 1 = r
    BY <1>1
  <2>3. At(r + 1) \in T /\ Cardinality(Earlier(T, At(r + 1))) = r
    BY <1>9, <2>2
  <2>4. Cardinality(Earlier(T, t)) = r
    BY <2>1 DEF place
  <2>5. At(r + 1) = t
    BY <1>4, <2>3, <2>4
  <2> QED BY <2>2, <2>5
<1>15. /\ \A k \in 1 .. n : \A j \in 1 .. k - 1 : Ascending(T)[j] < Ascending(T)[k]
       /\ \A t \in T : \E k \in 1 .. n : Ascending(T)[k] = t
  <2>1. \A k \in 1 .. n : \A j \in 1 .. k - 1 : j \in 1 .. n
    BY <1>1
  <2> QED BY <1>11, <1>13, <1>14, <2>1
<1> QED BY <1>1, <1>12, <1>15 DEF n

-----------------------------------------------------------------------------
(* The scans                                                                *)

(* The runs of a scan, and the pairs of bars that may be joined.            *)
Run == [from : Nat, to : Nat]
Joins(R) == R \in SUBSET (Nat \X Nat) /\ \A p \in R : p[2] = p[1] + 1

(* Runs of joined bars that are the bars of S, in time order.               *)
IsRuns(S, R, runs) ==
  /\ runs \in Seq(Run)
  /\ \A k \in 1 .. Len(runs) : runs[k].from < runs[k].to
  /\ \A k \in 1 .. Len(runs) : \A j \in 1 .. k - 1 : runs[j].to <= runs[k].from
  /\ \A k \in 1 .. Len(runs) : runs[k].from .. runs[k].to - 1 \subseteq S
  /\ \A t \in S : \E k \in 1 .. Len(runs) : t \in runs[k].from .. runs[k].to - 1
  /\ \A k \in 1 .. Len(runs) : \A t \in runs[k].from .. runs[k].to - 2 : <<t, t + 1>> \in R
  /\ \A k \in 2 .. Len(runs) : <<runs[k - 1].to - 1, runs[k].from>> \notin R

(* A step of a scan gives runs.                                             *)
LEMMA ScanTyped ==
  ASSUME NEW runs \in Seq(Run), NEW t \in Nat, NEW joins \in BOOLEAN, joins => runs # <<>>
  PROVE  ScanStep(runs, t, joins) \in Seq(Run)
<1>1. PICK r : r = [from |-> t, to |-> t + 1]
  OBVIOUS
<1>2. r \in Run
  BY <1>1 DEF Run
<1>3. Append(runs, r) \in Seq(Run)
  BY <1>2
<1>4. ASSUME joins PROVE [runs EXCEPT ![Len(runs)].to = t + 1] \in Seq(Run)
  <2>1. Len(runs) \in 1 .. Len(runs)
    BY <1>4, EmptySeq
  <2>2. PICK e : e = [runs[Len(runs)] EXCEPT !.to = t + 1]
    OBVIOUS
  <2>3. e \in Run
    <3>1. PICK p : p = runs[Len(runs)]
      OBVIOUS
    <3>2. p \in Run
      BY <2>1, <3>1
    <3>3. [p EXCEPT !.to = t + 1] \in Run
      BY <3>2 DEF Run
    <3> QED BY <2>2, <3>1, <3>3
  <2>4. [runs EXCEPT ![Len(runs)] = e] \in Seq(Run)
    BY <2>1, <2>3, ExceptSeq
  <2> QED BY <2>2, <2>4
<1> QED BY <1>1, <1>3, <1>4 DEF ScanStep

(* A bar later than all the ones scanned, as a run of its own.              *)
LEMMA ScanApart ==
  ASSUME NEW S \in SUBSET Nat, NEW R, Joins(R), NEW runs, IsRuns(S, R, runs),
         NEW t \in Nat, \A u \in S : u < t,
         runs = <<>> \/ <<runs[Len(runs)].to - 1, t>> \notin R
  PROVE  IsRuns(S \cup {t}, R, Append(runs, [from |-> t, to |-> t + 1]))
<1>1. PICK r : r = [from |-> t, to |-> t + 1]
  OBVIOUS
<1>2. r \in Run /\ r.from = t /\ r.to = t + 1
  BY <1>1 DEF Run
<1>3. PICK n : n = Len(runs)
  OBVIOUS
<1>4. runs \in Seq(Run) /\ n \in Nat
  BY <1>3 DEF IsRuns
<1>5. PICK new : new = Append(runs, r)
  OBVIOUS
<1>6. /\ new \in Seq(Run) /\ Len(new) = n + 1 /\ new[n + 1] = r
      /\ \A k \in 1 .. n : new[k] = runs[k]
  BY <1>2, <1>3, <1>4, <1>5
<1>7. \A k \in 1 .. n : runs[k].from \in Nat /\ runs[k].to \in Nat /\ runs[k].from < runs[k].to
  <2>1. ASSUME NEW k \in 1 .. n
        PROVE  runs[k].from \in Nat /\ runs[k].to \in Nat /\ runs[k].from < runs[k].to
    <3>1. runs[k] \in Run /\ runs[k].from < runs[k].to
      BY <1>3, <1>4 DEF IsRuns
    <3> QED BY <3>1 DEF Run
  <2> QED BY <2>1
<1>8. \A k \in 1 .. n : runs[k].to <= t
  <2>1. ASSUME NEW k \in 1 .. n PROVE runs[k].to <= t
    <3>1. runs[k].to - 1 \in runs[k].from .. runs[k].to - 1
      BY <1>7
    <3>2. runs[k].to - 1 \in S
      BY <1>3, <3>1 DEF IsRuns
    <3> QED BY <1>7, <3>2
  <2> QED BY <2>1
<1>9. ASSUME NEW k \in 1 .. n + 1 PROVE k \in 1 .. n \/ k = n + 1
  BY <1>4
<1>10. \A k \in 1 .. n + 1 : new[k].from < new[k].to
  BY <1>2, <1>6, <1>7, <1>9
<1>11. ASSUME NEW k \in 1 .. n + 1, NEW j \in 1 .. k - 1 PROVE new[j].to <= new[k].from
  <2>1. j \in 1 .. n
    BY <1>4
  <2>2. CASE k = n + 1
    BY <1>2, <1>6, <1>8, <2>1, <2>2
  <2>3. CASE k \in 1 .. n
    BY <1>3, <1>6, <2>1, <2>3 DEF IsRuns
  <2> QED BY <1>9, <2>2, <2>3
<1>12. ASSUME NEW k \in 1 .. n + 1 PROVE new[k].from .. new[k].to - 1 \subseteq S \cup {t}
  <2>1. CASE k = n + 1
    BY <1>2, <1>6, <2>1
  <2>2. CASE k \in 1 .. n
    BY <1>3, <1>6, <2>2 DEF IsRuns
  <2> QED BY <1>9, <2>1, <2>2
<1>13. ASSUME NEW u \in S \cup {t}
       PROVE  \E k \in 1 .. n + 1 : u \in new[k].from .. new[k].to - 1
  <2>1. CASE u = t
    <3>1. n + 1 \in 1 .. n + 1 /\ u \in new[n + 1].from .. new[n + 1].to - 1
      BY <1>2, <1>4, <1>6, <2>1
    <3> QED BY <3>1
  <2>2. CASE u \in S
    <3>1. PICK k \in 1 .. n : u \in runs[k].from .. runs[k].to - 1
      BY <1>3, <2>2 DEF IsRuns
    <3>2. k \in 1 .. n + 1 /\ new[k] = runs[k]
      BY <1>4, <1>6
    <3> QED BY <3>1, <3>2
  <2> QED BY <2>1, <2>2
<1>14. ASSUME NEW k \in 1 .. n + 1, NEW u \in new[k].from .. new[k].to - 2 PROVE <<u, u + 1>> \in R
  <2>1. CASE k = n + 1
    <3>1. FALSE
      BY <1>2, <1>6, <2>1
    <3> QED BY <3>1
  <2>2. CASE k \in 1 .. n
    BY <1>3, <1>6, <2>2 DEF IsRuns
  <2> QED BY <1>9, <2>1, <2>2
<1>15. ASSUME NEW k \in 2 .. n + 1 PROVE <<new[k - 1].to - 1, new[k].from>> \notin R
  <2>1. k - 1 \in 1 .. n /\ k \in 1 .. n + 1
    BY <1>4
  <2>2. CASE k = n + 1
    <3>1. runs # <<>> /\ k - 1 = n
      BY <1>3, <1>4, <2>1, <2>2
    <3>2. <<runs[n].to - 1, t>> \notin R
      BY <1>3, <3>1
    <3> QED BY <1>2, <1>6, <2>1, <2>2, <3>1, <3>2
  <2>3. CASE k \in 1 .. n
    <3>1. k \in 2 .. n
      BY <2>3
    <3> QED BY <1>3, <1>6, <2>1, <2>3, <3>1 DEF IsRuns
  <2> QED BY <1>9, <2>1, <2>2, <2>3
<1>16. IsRuns(S \cup {t}, R, new)
  BY <1>6, <1>10, <1>11, <1>12, <1>13, <1>14, <1>15 DEF IsRuns
<1> QED BY <1>1, <1>5, <1>16

(* A bar joined to the last one scanned, in its run.                        *)
LEMMA ScanJoins ==
  ASSUME NEW S \in SUBSET Nat, NEW R, Joins(R), NEW runs, IsRuns(S, R, runs),
         NEW t \in Nat, runs # <<>>, <<runs[Len(runs)].to - 1, t>> \in R
  PROVE  IsRuns(S \cup {t}, R, [runs EXCEPT ![Len(runs)].to = t + 1])
<1>1. PICK n : n = Len(runs)
  OBVIOUS
<1>2. runs \in Seq(Run) /\ n \in Nat \ {0} /\ n \in 1 .. n
  BY <1>1, EmptySeq DEF IsRuns
<1>3. \A k \in 1 .. n : runs[k].from \in Nat /\ runs[k].to \in Nat /\ runs[k].from < runs[k].to
  <2>1. ASSUME NEW k \in 1 .. n
        PROVE  runs[k].from \in Nat /\ runs[k].to \in Nat /\ runs[k].from < runs[k].to
    <3>1. runs[k] \in Run /\ runs[k].from < runs[k].to
      BY <1>1, <1>2 DEF IsRuns
    <3> QED BY <3>1 DEF Run
  <2> QED BY <2>1
<1>4. runs[n].to = t
  <2>1. t = (runs[n].to - 1) + 1
    BY <1>1 DEF Joins
  <2> QED BY <1>2, <1>3, <2>1
<1>5. PICK r : r = [runs[n] EXCEPT !.to = t + 1]
  OBVIOUS
<1>6. r \in Run /\ r.from = runs[n].from /\ r.to = t + 1
  <2>1. PICK p : p = runs[n]
    OBVIOUS
  <2>2. p \in Run
    BY <1>1, <1>2, <2>1
  <2> QED BY <1>5, <2>1, <2>2 DEF Run
<1>7. PICK new : new = [runs EXCEPT ![n] = r]
  OBVIOUS
<1>8. new \in Seq(Run) /\ Len(new) = n /\ \A k \in 1 .. n : new[k] = IF k = n THEN r ELSE runs[k]
  BY <1>1, <1>2, <1>6, <1>7, ExceptSeq
<1>9. \A k \in 1 .. n : new[k].from = runs[k].from /\ (k # n => new[k] = runs[k])
  BY <1>6, <1>8
<1>10. \A k \in 1 .. n : new[k].from < new[k].to
  <2>1. r.from < r.to
    BY <1>2, <1>3, <1>4, <1>6
  <2> QED BY <1>3, <1>8, <2>1
<1>11. ASSUME NEW k \in 1 .. n, NEW j \in 1 .. k - 1 PROVE new[j].to <= new[k].from
  <2>1. j \in 1 .. n /\ j # n
    BY <1>2
  <2>2. runs[j].to <= runs[k].from
    BY <1>1 DEF IsRuns
  <2> QED BY <1>9, <2>1, <2>2
<1>12. ASSUME NEW k \in 1 .. n PROVE new[k].from .. new[k].to - 1 \subseteq S \cup {t}
  <2>1. runs[k].from .. runs[k].to - 1 \subseteq S
    BY <1>1 DEF IsRuns
  <2>2. CASE k = n
    <3>1. new[k].from .. new[k].to - 1 = r.from .. t
      BY <1>6, <1>8, <2>2
    <3>2. ASSUME NEW u \in r.from .. t PROVE u = t \/ u \in runs[n].from .. runs[n].to - 1
      BY <1>2, <1>3, <1>4, <1>6
    <3> QED BY <2>1, <2>2, <3>1, <3>2
  <2>3. CASE k # n
    BY <1>9, <2>1, <2>3
  <2> QED BY <2>2, <2>3
<1>13. ASSUME NEW u \in S \cup {t}
       PROVE  \E k \in 1 .. n : u \in new[k].from .. new[k].to - 1
  <2>1. CASE u = t
    <3>1. u \in new[n].from .. new[n].to - 1
      BY <1>2, <1>3, <1>4, <1>6, <1>8, <2>1
    <3> QED BY <1>2, <3>1
  <2>2. CASE u \in S
    <3>1. PICK k \in 1 .. n : u \in runs[k].from .. runs[k].to - 1
      BY <1>1, <2>2 DEF IsRuns
    <3>2. CASE k = n
      <4>1. u \in new[n].from .. new[n].to - 1
        BY <1>2, <1>3, <1>4, <1>6, <1>8, <3>1, <3>2
      <4> QED BY <1>2, <4>1
    <3>3. CASE k # n
      BY <1>9, <3>1, <3>3
    <3> QED BY <3>2, <3>3
  <2> QED BY <2>1, <2>2
<1>14. ASSUME NEW k \in 1 .. n, NEW u \in new[k].from .. new[k].to - 2 PROVE <<u, u + 1>> \in R
  <2>1. CASE k = n
    <3>1. u \in runs[n].from .. t - 1
      BY <1>2, <1>6, <1>8, <2>1
    <3>2. CASE u = t - 1
      <4>1. <<runs[n].to - 1, t>> \in R
        BY <1>1
      <4>2. u + 1 = t /\ runs[n].to - 1 = u
        BY <1>4, <3>2
      <4> QED BY <4>1, <4>2
    <3>3. CASE u # t - 1
      <4>1. u \in runs[n].from .. runs[n].to - 2
        BY <1>2, <1>3, <1>4, <3>1, <3>3
      <4> QED BY <1>1, <1>2, <4>1 DEF IsRuns
    <3> QED BY <3>2, <3>3
  <2>2. CASE k # n
    <3>1. u \in runs[k].from .. runs[k].to - 2
      BY <1>9, <2>2
    <3> QED BY <1>1, <3>1 DEF IsRuns
  <2> QED BY <2>1, <2>2
<1>15. ASSUME NEW k \in 2 .. n PROVE <<new[k - 1].to - 1, new[k].from>> \notin R
  <2>1. k \in 1 .. n /\ k - 1 \in 1 .. n /\ k - 1 # n
    BY <1>2
  <2>2. <<runs[k - 1].to - 1, runs[k].from>> \notin R
    BY <1>1 DEF IsRuns
  <2> QED BY <1>9, <2>1, <2>2
<1>16. IsRuns(S \cup {t}, R, new)
  BY <1>8, <1>10, <1>11, <1>12, <1>13, <1>14, <1>15 DEF IsRuns
<1> QED BY <1>1, <1>5, <1>7, <1>16

(* A step of each scan.                                                     *)
GapStep(runs, t) == ScanStep(runs, t, runs # <<>> /\ Joined(Last(runs).to - 1, t))
SpanStep(runs, t) == ScanStep(runs, t, runs # <<>> /\ Adjacent(Last(runs).to - 1, t))

(* Gaps are scanned bar by bar.                                             *)
LEMMA GapsStepwise ==
  ASSUME NEW T \in SUBSET Nat, IsFiniteSet(T)
  PROVE  \E g \in [0 .. Cardinality(T) -> Seq(Run)] :
           /\ g[0] = <<>> /\ g[Cardinality(T)] = Gaps(T)
           /\ \A k \in 1 .. Cardinality(T) :
                g[k] = GapStep(g[k - 1], Ascending(T)[k])
<1> DEFINE list == Ascending(T)
<1> DEFINE n == Cardinality(T)
<1> DEFINE F == [p \in (1 .. n) \X Seq(Run) |-> GapStep(p[2], list[p[1]])]
<1> DEFINE body(it) ==
      [t \in SUBSET DOMAIN list |->
         IF t = {} THEN <<>> ELSE GapStep(it[t \ {Max(t)}], list[Max(t)])]
<1>1. n \in Nat /\ DOMAIN list = 1 .. n /\ <<>> \in Seq(Run) /\ \A k \in 1 .. n : list[k] \in T
  BY AscendingIs, LenProperties, EmptySeq
<1> HIDE DEF list, n
<1>3. ASSUME NEW x \in Seq(Run), NEW k \in 1 .. n PROVE GapStep(x, list[k]) \in Seq(Run)
  <2>1. list[k] \in Nat
    BY <1>1
  <2>2. PICK joins : joins = (x # <<>> /\ Joined(Last(x).to - 1, list[k]))
    OBVIOUS
  <2> QED BY <2>1, <2>2, ScanTyped DEF GapStep
<1>4. F \in [(1 .. n) \X Seq(Run) -> Seq(Run)]
      /\ \A k \in 1 .. n, x \in Seq(Run) : F[<<k, x>>] = GapStep(x, list[k])
  BY <1>3
<1> HIDE DEF F
<1>5. PICK it \in [SUBSET (1 .. n) -> Seq(Run)] : IsIterated(it, n, <<>>, F)
  BY <1>1, <1>4, IterationExists
<1>6. ASSUME NEW t \in SUBSET (1 .. n), t # {}
      PROVE  Max(t) \in 1 .. n /\ t \ {Max(t)} \in SUBSET (1 .. n)
  <2>1. t \in SUBSET (0 .. n)
    OBVIOUS
  <2> QED BY <1>1, <1>6, <2>1, MaxIsGreatest
<1>7. it = body(it)
  <2>1. ASSUME NEW t \in SUBSET (1 .. n)
        PROVE  it[t] = IF t = {} THEN <<>> ELSE GapStep(it[t \ {Max(t)}], list[Max(t)])
    <3>1. CASE t = {}
      BY <3>1, <1>5 DEF IsIterated
    <3>2. CASE t # {}
      <4>1. Max(t) \in 1 .. n /\ it[t \ {Max(t)}] \in Seq(Run)
        BY <3>2, <1>5, <1>6
      <4>2. it[t] = F[<<Max(t), it[t \ {Max(t)}]>>]
        BY <3>2, <1>5 DEF IsIterated
      <4> QED BY <3>2, <4>1, <4>2, <1>4
    <3> QED BY <3>1, <3>2
  <2> QED BY <2>1, <1>1, <1>5
<1> DEFINE folded == CHOOSE x : x = body(x)
<1>8. folded = body(folded)
  BY <1>7
<1>9. Gaps(T) = folded[1 .. n]
  BY <1>1 DEF Gaps, GapStep, FoldLeft, MapThenFoldSet, list
<1> HIDE DEF folded
<1>10. \A t \in SUBSET (1 .. n) :
         folded[t] = IF t = {} THEN <<>> ELSE GapStep(folded[t \ {Max(t)}], list[Max(t)])
  BY <1>1, <1>8
<1>11. folded[{}] = <<>>
  BY <1>10
<1>12. ASSUME NEW k \in 1 .. n
       PROVE  folded[1 .. k] = GapStep(folded[1 .. k - 1], list[k])
  BY <1>1, <1>10, FirstPositions
<1>13. StepsFollow(folded, n, Seq(Run), <<>>, F)
  <2>1. \A k \in 1 .. n : folded[1 .. k - 1] \in Seq(Run) =>
          folded[1 .. k] = F[<<k, folded[1 .. k - 1]>>]
    BY <1>4, <1>12
  <2> QED BY <1>1, <1>4, <1>11, <2>1 DEF StepsFollow
<1>14. PICK g \in [0 .. n -> Seq(Run)] :
         /\ g[0] = <<>> /\ g[n] = folded[1 .. n]
         /\ \A k \in 1 .. n : g[k] = F[<<k, g[k - 1]>>]
  BY <1>13, IterationSteps DEF StepsListed
<1>15. \A k \in 1 .. n : g[k] = GapStep(g[k - 1], list[k])
  <2>1. \A k \in 1 .. n : k - 1 \in 0 .. n
    BY <1>1
  <2>2. \A k \in 1 .. n : g[k - 1] \in Seq(Run)
    BY <1>14, <2>1
  <2> QED BY <1>4, <1>14, <2>2
<1> QED BY <1>9, <1>14, <1>15 DEF list, n

(* So are the spans.                                                        *)
LEMMA SpansStepwise ==
  ASSUME NEW T \in SUBSET Nat, IsFiniteSet(T)
  PROVE  \E g \in [0 .. Cardinality(T) -> Seq(Run)] :
           /\ g[0] = <<>> /\ g[Cardinality(T)] = Spans(T)
           /\ \A k \in 1 .. Cardinality(T) :
                g[k] = SpanStep(g[k - 1], Ascending(T)[k])
<1> DEFINE list == Ascending(T)
<1> DEFINE n == Cardinality(T)
<1> DEFINE F == [p \in (1 .. n) \X Seq(Run) |-> SpanStep(p[2], list[p[1]])]
<1> DEFINE body(it) ==
      [t \in SUBSET DOMAIN list |->
         IF t = {} THEN <<>> ELSE SpanStep(it[t \ {Max(t)}], list[Max(t)])]
<1>1. n \in Nat /\ DOMAIN list = 1 .. n /\ <<>> \in Seq(Run) /\ \A k \in 1 .. n : list[k] \in T
  BY AscendingIs, LenProperties, EmptySeq
<1> HIDE DEF list, n
<1>3. ASSUME NEW x \in Seq(Run), NEW k \in 1 .. n PROVE SpanStep(x, list[k]) \in Seq(Run)
  <2>1. list[k] \in Nat
    BY <1>1
  <2>2. PICK joins : joins = (x # <<>> /\ Adjacent(Last(x).to - 1, list[k]))
    OBVIOUS
  <2> QED BY <2>1, <2>2, ScanTyped DEF SpanStep
<1>4. F \in [(1 .. n) \X Seq(Run) -> Seq(Run)]
      /\ \A k \in 1 .. n, x \in Seq(Run) : F[<<k, x>>] = SpanStep(x, list[k])
  BY <1>3
<1> HIDE DEF F
<1>5. PICK it \in [SUBSET (1 .. n) -> Seq(Run)] : IsIterated(it, n, <<>>, F)
  BY <1>1, <1>4, IterationExists
<1>6. ASSUME NEW t \in SUBSET (1 .. n), t # {}
      PROVE  Max(t) \in 1 .. n /\ t \ {Max(t)} \in SUBSET (1 .. n)
  <2>1. t \in SUBSET (0 .. n)
    OBVIOUS
  <2> QED BY <1>1, <1>6, <2>1, MaxIsGreatest
<1>7. it = body(it)
  <2>1. ASSUME NEW t \in SUBSET (1 .. n)
        PROVE  it[t] = IF t = {} THEN <<>> ELSE SpanStep(it[t \ {Max(t)}], list[Max(t)])
    <3>1. CASE t = {}
      BY <3>1, <1>5 DEF IsIterated
    <3>2. CASE t # {}
      <4>1. Max(t) \in 1 .. n /\ it[t \ {Max(t)}] \in Seq(Run)
        BY <3>2, <1>5, <1>6
      <4>2. it[t] = F[<<Max(t), it[t \ {Max(t)}]>>]
        BY <3>2, <1>5 DEF IsIterated
      <4> QED BY <3>2, <4>1, <4>2, <1>4
    <3> QED BY <3>1, <3>2
  <2> QED BY <2>1, <1>1, <1>5
<1> DEFINE folded == CHOOSE x : x = body(x)
<1>8. folded = body(folded)
  BY <1>7
<1>9. Spans(T) = folded[1 .. n]
  BY <1>1 DEF Spans, SpanStep, FoldLeft, MapThenFoldSet, list
<1> HIDE DEF folded
<1>10. \A t \in SUBSET (1 .. n) :
         folded[t] = IF t = {} THEN <<>> ELSE SpanStep(folded[t \ {Max(t)}], list[Max(t)])
  BY <1>1, <1>8
<1>11. folded[{}] = <<>>
  BY <1>10
<1>12. ASSUME NEW k \in 1 .. n
       PROVE  folded[1 .. k] = SpanStep(folded[1 .. k - 1], list[k])
  BY <1>1, <1>10, FirstPositions
<1>13. StepsFollow(folded, n, Seq(Run), <<>>, F)
  <2>1. \A k \in 1 .. n : folded[1 .. k - 1] \in Seq(Run) =>
          folded[1 .. k] = F[<<k, folded[1 .. k - 1]>>]
    BY <1>4, <1>12
  <2> QED BY <1>1, <1>4, <1>11, <2>1 DEF StepsFollow
<1>14. PICK g \in [0 .. n -> Seq(Run)] :
         /\ g[0] = <<>> /\ g[n] = folded[1 .. n]
         /\ \A k \in 1 .. n : g[k] = F[<<k, g[k - 1]>>]
  BY <1>13, IterationSteps DEF StepsListed
<1>15. \A k \in 1 .. n : g[k] = SpanStep(g[k - 1], list[k])
  <2>1. \A k \in 1 .. n : k - 1 \in 0 .. n
    BY <1>1
  <2>2. \A k \in 1 .. n : g[k - 1] \in Seq(Run)
    BY <1>14, <2>1
  <2> QED BY <1>4, <1>14, <2>2
<1> QED BY <1>9, <1>14, <1>15 DEF list, n

(* A scan joins a bar to the last run as R says.                            *)
LastPlace(runs) == Last(runs).to - 1
Scans(T, R, g) ==
  /\ g \in [0 .. Cardinality(T) -> Seq(Run)] /\ g[0] = <<>>
  /\ \A k \in 1 .. Cardinality(T) :
       (g[k - 1] = <<>> \/ LastPlace(g[k - 1]) \in Nat) =>
         g[k] = ScanStep(g[k - 1], Ascending(T)[k],
                         g[k - 1] # <<>> /\ <<LastPlace(g[k - 1]), Ascending(T)[k]>> \in R)

(* What it ends with are the runs of all the bars.                          *)
LEMMA ScansGiveRuns ==
  ASSUME NEW T \in SUBSET Nat, IsFiniteSet(T), NEW R, Joins(R), NEW g, Scans(T, R, g)
  PROVE  IsRuns(T, R, g[Cardinality(T)])
<1>1. PICK n, list : n = Cardinality(T) /\ list = Ascending(T)
  OBVIOUS
<1>2. /\ n \in Nat /\ list \in Seq(T) /\ Len(list) = n
      /\ \A k \in 1 .. n : list[k] \in T /\ list[k] \in Nat
      /\ \A k \in 1 .. n : \A j \in 1 .. k - 1 : list[j] < list[k]
      /\ \A t \in T : \E k \in 1 .. n : list[k] = t
  <2>1. /\ n \in Nat /\ list \in Seq(T) /\ Len(list) = n
        /\ \A k \in 1 .. n : \A j \in 1 .. k - 1 : list[j] < list[k]
        /\ \A t \in T : \E k \in 1 .. n : list[k] = t
    BY <1>1, AscendingIs
  <2>2. \A k \in 1 .. n : list[k] \in T
    BY <2>1
  <2> QED BY <2>1, <2>2
<1> DEFINE First(k) == {list[j] : j \in 1 .. k}
<1> DEFINE G == {k \in 0 .. n : IsRuns(First(k), R, g[k])}
<1>3. 0 \in G
  <2>1. First(0) = {} /\ g[0] = <<>> /\ Len(<<>>) = 0 /\ <<>> \in Seq(Run)
    BY EmptySeq DEF Scans
  <2> HIDE DEF First
  <2>2. IsRuns(First(0), R, g[0])
    BY <2>1 DEF IsRuns
  <2> QED BY <1>2, <2>2
<1>4. ASSUME NEW k \in 1 .. n, k - 1 \in G PROVE k \in G
  <2>1. IsRuns(First(k - 1), R, g[k - 1]) /\ k - 1 \in 0 .. n
    BY <1>2, <1>4
  <2>2. PICK S, runs, t : S = First(k - 1) /\ runs = g[k - 1] /\ t = list[k]
    OBVIOUS
  <2>3. S \in SUBSET Nat /\ t \in Nat /\ \A u \in S : u < t
    <3>1. \A j \in 1 .. k - 1 : j \in 1 .. n
      BY <1>2
    <3> QED BY <1>2, <2>2, <3>1
  <2>4. First(k) = S \cup {t}
    <3>1. 1 .. k = (1 .. k - 1) \cup {k}
      BY <1>2
    <3> QED BY <2>2, <3>1
  <2> HIDE DEF First
  <2>5. IsRuns(S, R, runs)
    BY <2>1, <2>2
  <2>6. runs \in Seq(Run) /\ Last(runs) = runs[Len(runs)]
    BY <2>5 DEF IsRuns, Last
  <2>7. runs = <<>> \/ LastPlace(runs) \in Nat
    <3> SUFFICES ASSUME runs # <<>> PROVE LastPlace(runs) \in Nat
      OBVIOUS
    <3>1. Len(runs) \in 1 .. Len(runs)
      BY <2>6, EmptySeq
    <3>2. runs[Len(runs)] \in Run /\ runs[Len(runs)].from < runs[Len(runs)].to
      BY <2>5, <2>6, <3>1 DEF IsRuns
    <3> QED BY <2>6, <3>2 DEF LastPlace, Run
  <2>8. g[k] = ScanStep(runs, t, runs # <<>> /\ <<LastPlace(runs), t>> \in R)
    BY <1>1, <2>2, <2>7 DEF Scans
  <2>9. LastPlace(runs) = runs[Len(runs)].to - 1
    BY <2>6 DEF LastPlace
  <2>10. CASE runs # <<>> /\ <<LastPlace(runs), t>> \in R
    <3>1. g[k] = [runs EXCEPT ![Len(runs)].to = t + 1]
      BY <2>8, <2>10 DEF ScanStep
    <3>2. IsRuns(S \cup {t}, R, g[k])
      BY <2>3, <2>5, <2>9, <2>10, <3>1, ScanJoins
    <3> QED BY <2>4, <3>2
  <2>11. CASE ~(runs # <<>> /\ <<LastPlace(runs), t>> \in R)
    <3>1. g[k] = Append(runs, [from |-> t, to |-> t + 1])
      BY <2>8, <2>11 DEF ScanStep
    <3>2. IsRuns(S \cup {t}, R, g[k])
      BY <2>3, <2>5, <2>9, <2>11, <3>1, ScanApart
    <3> QED BY <2>4, <3>2
  <2> QED BY <2>10, <2>11
<1> HIDE DEF G
<1>5. Upwards(0, n, G)
  BY <1>2, <1>3, <1>4 DEF Upwards
<1>6. n \in G
  BY <1>2, <1>5, UpwardsHolds
<1>7. First(n) = T
  BY <1>2
<1> HIDE DEF First
<1> QED BY <1>1, <1>6, <1>7 DEF G

(* The pairs the two scans join.                                            *)
SameDayNext == {p \in Nat \X Nat : DayOf(p[1]) = DayOf(p[2]) /\ p[2] - p[1] = 1}
NextPlace == {p \in Nat \X Nat : p[2] - p[1] = 1}

(* A step of a scan is the same with the joined pairs in place of the rule. *)
LEMMA GapsAreRuns ==
  ASSUME NEW T \in SUBSET Nat, IsFiniteSet(T)
  PROVE  IsRuns(T, SameDayNext, Gaps(T))
<1>1. PICK g \in [0 .. Cardinality(T) -> Seq(Run)] :
        /\ g[0] = <<>> /\ g[Cardinality(T)] = Gaps(T)
        /\ \A k \in 1 .. Cardinality(T) :
             g[k] = ScanStep(g[k - 1], Ascending(T)[k],
                             g[k - 1] # <<>> /\ Joined(Last(g[k - 1]).to - 1, Ascending(T)[k]))
  BY GapsStepwise DEF GapStep
<1>2. \A k \in 1 .. Cardinality(T) : Ascending(T)[k] \in Nat
  <2>1. Ascending(T) \in Seq(T) /\ Len(Ascending(T)) = Cardinality(T)
    BY AscendingIs
  <2>2. \A k \in 1 .. Cardinality(T) : Ascending(T)[k] \in T
    BY <2>1, ElementOfSeq
  <2> QED BY <2>2
<1>3. \A p, t \in Nat : Joined(p, t) <=> <<p, t>> \in SameDayNext
  BY DEF Joined, SameDayNext
<1>4. ASSUME NEW k \in 1 .. Cardinality(T), g[k - 1] = <<>> \/ LastPlace(g[k - 1]) \in Nat
      PROVE  g[k] = ScanStep(g[k - 1], Ascending(T)[k],
                             g[k - 1] # <<>> /\ <<LastPlace(g[k - 1]), Ascending(T)[k]>> \in SameDayNext)
  <2>1. g[k] = ScanStep(g[k - 1], Ascending(T)[k],
                        g[k - 1] # <<>> /\ Joined(LastPlace(g[k - 1]), Ascending(T)[k]))
    BY <1>1 DEF LastPlace
  <2>2. (g[k - 1] # <<>> /\ Joined(LastPlace(g[k - 1]), Ascending(T)[k]))
        = (g[k - 1] # <<>> /\ <<LastPlace(g[k - 1]), Ascending(T)[k]>> \in SameDayNext)
    BY <1>2, <1>3, <1>4
  <2> QED BY <2>1, <2>2
<1>5. Scans(T, SameDayNext, g)
  BY <1>1, <1>4 DEF Scans
<1>6. Joins(SameDayNext)
  BY DEF Joins, SameDayNext
<1> QED BY <1>1, <1>5, <1>6, ScansGiveRuns

(* The same of the spans.                                                   *)
LEMMA SpansAreRuns ==
  ASSUME NEW T \in SUBSET Nat, IsFiniteSet(T)
  PROVE  IsRuns(T, NextPlace, Spans(T))
<1>1. PICK g \in [0 .. Cardinality(T) -> Seq(Run)] :
        /\ g[0] = <<>> /\ g[Cardinality(T)] = Spans(T)
        /\ \A k \in 1 .. Cardinality(T) :
             g[k] = ScanStep(g[k - 1], Ascending(T)[k],
                             g[k - 1] # <<>> /\ Adjacent(Last(g[k - 1]).to - 1, Ascending(T)[k]))
  BY SpansStepwise DEF SpanStep
<1>2. \A k \in 1 .. Cardinality(T) : Ascending(T)[k] \in Nat
  <2>1. Ascending(T) \in Seq(T) /\ Len(Ascending(T)) = Cardinality(T)
    BY AscendingIs
  <2>2. \A k \in 1 .. Cardinality(T) : Ascending(T)[k] \in T
    BY <2>1, ElementOfSeq
  <2> QED BY <2>2
<1>3. \A p, t \in Nat : Adjacent(p, t) <=> <<p, t>> \in NextPlace
  BY DEF Adjacent, NextPlace
<1>4. ASSUME NEW k \in 1 .. Cardinality(T), g[k - 1] = <<>> \/ LastPlace(g[k - 1]) \in Nat
      PROVE  g[k] = ScanStep(g[k - 1], Ascending(T)[k],
                             g[k - 1] # <<>> /\ <<LastPlace(g[k - 1]), Ascending(T)[k]>> \in NextPlace)
  <2>1. g[k] = ScanStep(g[k - 1], Ascending(T)[k],
                        g[k - 1] # <<>> /\ Adjacent(LastPlace(g[k - 1]), Ascending(T)[k]))
    BY <1>1 DEF LastPlace
  <2>2. (g[k - 1] # <<>> /\ Adjacent(LastPlace(g[k - 1]), Ascending(T)[k]))
        = (g[k - 1] # <<>> /\ <<LastPlace(g[k - 1]), Ascending(T)[k]>> \in NextPlace)
    BY <1>2, <1>3, <1>4
  <2> QED BY <2>1, <2>2
<1>5. Scans(T, NextPlace, g)
  BY <1>1, <1>4 DEF Scans
<1>6. Joins(NextPlace)
  BY DEF Joins, NextPlace
<1> QED BY <1>1, <1>5, <1>6, ScansGiveRuns

-----------------------------------------------------------------------------
(* Days and sessions                                                        *)

(* A number lies between its quotient and the next one, and no other.       *)
LEMMA QuotientIs ==
  ASSUME NEW t \in Nat, NEW n \in Nat \ {0}
  PROVE  /\ t \div n \in Nat /\ (t \div n) * n <= t /\ t < (t \div n) * n + n
         /\ \A q \in Int : q * n <= t /\ t < q * n + n => t \div n = q
<1> DEFINE p == t \div n
<1> DEFINE over == t % n
<1>1. p \in Int /\ over \in 0 .. n - 1 /\ t = n * p + over
  OBVIOUS
<1> HIDE DEF p, over
<1>2. PICK r \in 0 .. n - 1 : t = n * p + r
  BY <1>1
<1>3. p * n = n * p
  BY <1>1
<1>4. ASSUME NEW q \in Int, q * n <= t, t < q * n + n PROVE p = q
  <2>1. q * n = n * q
    OBVIOUS
  <2>2. ASSUME p + 1 <= q PROVE FALSE
    <3>1. n * (p + 1) <= n * q
      BY <1>1, <2>2, TimesMore
    <3>2. n * (p + 1) = n * p + n
      BY <1>1
    <3>3. n * p \in Int /\ n * q \in Int
      BY <1>1
    <3> QED BY <1>1, <1>2, <1>4, <2>1, <3>1, <3>2, <3>3
  <2>3. ASSUME q + 1 <= p PROVE FALSE
    <3>1. n * (q + 1) <= n * p
      BY <1>1, <2>3, TimesMore
    <3>2. n * (q + 1) = n * q + n
      OBVIOUS
    <3>3. n * p \in Int /\ n * q \in Int
      BY <1>1
    <3> QED BY <1>1, <1>2, <1>4, <2>1, <3>1, <3>2, <3>3
  <2> QED BY <1>1, <2>2, <2>3
<1>5. p \in Nat
  <2> SUFFICES ASSUME p + 1 <= 0 PROVE FALSE
    BY <1>1
  <2>1. n * (p + 1) <= n * 0 /\ n * 0 = 0
    BY <1>1, TimesMore
  <2>2. n * (p + 1) = n * p + n
    BY <1>1
  <2> QED BY <1>1, <1>2, <2>1, <2>2
<1> QED BY <1>1, <1>2, <1>3, <1>4, <1>5 DEF p

(* What the constants of the calendar are.                                  *)
Calendar ==
  /\ DaySlots \in Nat \ {0} /\ SessionOpen \in Nat /\ BinSlots \in Nat \ {0}
  /\ MaxPartRows \in Nat \ {0}
  /\ PartitionFrom \in Nat /\ PartitionTo \in Nat /\ PartitionFrom < PartitionTo
  /\ DOMAIN SessionClose \subseteq Nat \ {0}
  /\ \A d \in DOMAIN SessionClose : SessionClose[d] \in 0 .. DaySlots

(* The constants of the calendar are numbers in order.                      *)
LEMMA CalendarTyped == Calendar
BY QualityAssumption DEF Calendar

(* A bar of a session is of the session's day.                              *)
LEMMA SessionDay ==
  ASSUME NEW d, NEW t \in SessionBars(d)
  PROVE  /\ t \in Nat /\ DayOf(t) = d /\ d \in DOMAIN SessionClose /\ DayStart(d) \in Nat
         /\ SessionBars(d) = (DayStart(d) + SessionOpen) .. (SessionEnd(d) - 1)
         /\ SessionEnd(d) \in Nat
<1>1. d \in DOMAIN SessionClose
  BY DEF SessionBars
<1>2. /\ DaySlots \in Nat \ {0} /\ SessionOpen \in Nat /\ d \in Nat \ {0}
      /\ SessionClose[d] \in 0 .. DaySlots
  BY <1>1, CalendarTyped DEF Calendar
<1>3. PICK s : s = DayStart(d)
  OBVIOUS
<1>4. s = (d - 1) * DaySlots /\ s \in Nat
  BY <1>2, <1>3 DEF DayStart
<1>5. SessionBars(d) = (s + SessionOpen) .. (s + SessionClose[d] - 1)
  BY <1>1, <1>3 DEF SessionBars
<1>6. t \in Nat /\ s <= t /\ t < s + DaySlots
  BY <1>2, <1>4, <1>5
<1>7. t \div DaySlots = d - 1
  <2>1. d - 1 \in Int
    BY <1>2
  <2> QED BY <1>2, <1>4, <1>6, <2>1, QuotientIs
<1>8. DayOf(t) = d
  BY <1>2, <1>7 DEF DayOf
<1>9. SessionEnd(d) = s + SessionClose[d] /\ SessionEnd(d) \in Nat
  BY <1>2, <1>3, <1>4 DEF SessionEnd
<1>10. SessionBars(d) = (DayStart(d) + SessionOpen) .. (SessionEnd(d) - 1)
  BY <1>2, <1>3, <1>4, <1>5, <1>9
<1> QED BY <1>1, <1>3, <1>4, <1>6, <1>8, <1>9, <1>10

-----------------------------------------------------------------------------
(* The table                                                                *)

(* The rows, their numbers and their stamps.                                *)
LEMMA BarRowsTyped ==
  ASSUME QualityTypeOK
  PROVE  /\ Positions = 1 .. Len(barRows) /\ Len(barRows) \in Nat
         /\ IsFiniteSet(Positions) /\ Cardinality(Positions) = Len(barRows)
         /\ \A k \in Positions : barRows[k].at \in Nat
<1>1. barRows \in Seq(BarRow)
  BY DEF QualityTypeOK
<1>2. Len(barRows) \in Nat /\ Positions = 1 .. Len(barRows)
  BY <1>1, LenProperties DEF Positions
<1>3. IsFiniteSet(1 .. Len(barRows)) /\ Cardinality(1 .. Len(barRows)) = Len(barRows)
  <2>1. 1 \in Int /\ Len(barRows) \in Int
    BY <1>2
  <2>2. IsFiniteSet(1 .. Len(barRows))
        /\ Cardinality(1 .. Len(barRows)) = IF 1 > Len(barRows) THEN 0 ELSE Len(barRows) - 1 + 1
    BY <2>1, FS_Interval
  <2> QED BY <1>2, <2>2
<1>4. ASSUME NEW k \in Positions PROVE barRows[k].at \in Nat
  <2>1. barRows[k] \in BarRow
    BY <1>1, <1>2
  <2> QED BY <2>1, QualityAssumption
<1> QED BY <1>2, <1>3, <1>4

(* The stamps of some rows are a finite set of times.                       *)
LEMMA StampsTyped ==
  ASSUME QualityTypeOK, NEW I \in SUBSET Positions
  PROVE  Stamps(I) \in SUBSET Nat /\ IsFiniteSet(Stamps(I)) /\ IsFiniteSet(I)
<1>1. IsFiniteSet(I)
  BY BarRowsTyped, FS_Subset
<1>2. Stamps(I) \in SUBSET Nat
  BY BarRowsTyped DEF Stamps
<1> DEFINE f == [k \in I |-> barRows[k].at]
<1>3. f \in Surjection(I, Stamps(I))
  BY DEF Surjection, Stamps
<1>4. IsFiniteSet(Stamps(I))
  BY <1>1, <1>3, FS_Surjection
<1> QED BY <1>1, <1>2, <1>4

(* The last of some bars.                                                   *)
LEMMA LatestIs ==
  ASSUME NEW T \in SUBSET Nat, IsFiniteSet(T), T # {}
  PROVE  Max(T) \in T /\ \A t \in T : t <= Max(T)
<1>1. PICK n, list : n = Cardinality(T) /\ list = Ascending(T)
  OBVIOUS
<1>2. /\ n \in Nat /\ list \in Seq(T) /\ Len(list) = n
      /\ \A k \in 1 .. n : \A j \in 1 .. k - 1 : list[j] < list[k]
      /\ \A t \in T : \E k \in 1 .. n : list[k] = t
  BY <1>1, AscendingIs
<1>3. n \in 1 .. n
  <2>1. PICK t \in T : TRUE
    OBVIOUS
  <2>2. PICK k \in 1 .. n : list[k] = t
    BY <1>2
  <2> QED BY <1>2, <2>2
<1>4. list[n] \in T /\ list[n] \in Nat
  <2>1. list[n] \in T
    BY <1>2, <1>3, ElementOfSeq
  <2> QED BY <2>1
<1>5. ASSUME NEW t \in T PROVE list[n] >= t
  <2>1. PICK k \in 1 .. n : list[k] = t
    BY <1>2
  <2>2. k = n \/ k \in 1 .. n - 1
    BY <1>2
  <2> QED BY <1>2, <1>3, <1>4, <2>1, <2>2
<1>6. \E m \in T : \A t \in T : m >= t
  BY <1>4, <1>5
<1>7. Max(T) \in T /\ \A t \in T : Max(T) >= t
  BY <1>6 DEF Max
<1>8. \A t \in T : t \in Nat
  OBVIOUS
<1> QED BY <1>7, <1>8

(* A missing bar is a bar of its day's session.                             *)
LEMMA MissingTyped ==
  ASSUME QualityTypeOK
  PROVE  /\ MissingBars \in SUBSET Nat /\ IsFiniteSet(MissingBars)
         /\ \A t \in MissingBars : t \in SessionBars(DayOf(t))
<1>1. CASE Cardinality(Observed) < 2
  BY <1>1, FS_EmptySet DEF MissingBars
<1>2. CASE ~(Cardinality(Observed) < 2)
  <2>1. Observed \in SUBSET Nat /\ IsFiniteSet(Observed)
    BY StampsTyped DEF Observed
  <2>2. Observed # {}
    BY <1>2, FS_EmptySet
  <2>3. Min(Observed) \in Nat /\ Max(Observed) \in Nat
    BY <2>1, <2>2, MinIsLeast, LatestIs
  <2>4. ASSUME NEW t \in MissingBars
        PROVE  t \in Min(Observed) .. Max(Observed) /\ t \in SessionBars(DayOf(t)) /\ t \in Nat
    <3>1. t \in ExpectedBars
      BY <1>2 DEF MissingBars
    <3>2. PICK d : t \in SessionBars(d)
      BY <3>1 DEF ExpectedBars
    <3>3. t \in Nat /\ DayOf(t) = d
      BY <3>2, SessionDay
    <3>4. Min(Observed) <= t /\ t <= Max(Observed)
      BY <3>1 DEF ExpectedBars
    <3> QED BY <2>3, <3>2, <3>3, <3>4
  <2>5. IsFiniteSet(Min(Observed) .. Max(Observed))
    BY <2>3, FS_Interval
  <2>6. IsFiniteSet(MissingBars)
    BY <2>4, <2>5, FS_Subset
  <2> QED BY <2>4, <2>6
<1> QED BY <1>1, <1>2

-----------------------------------------------------------------------------
(* Gaps                                                                     *)

(* A run within a day is of one day.                                        *)
LEMMA RunsWithinADay ==
  ASSUME NEW S \in SUBSET Nat, NEW runs, IsRuns(S, SameDayNext, runs), NEW k \in 1 .. Len(runs)
  PROVE  \A t \in runs[k].from .. runs[k].to - 1 : DayOf(t) = DayOf(runs[k].from)
<1>1. PICK a, b : a = runs[k].from /\ b = runs[k].to - 1
  OBVIOUS
<1>2. runs[k] \in Run
  BY DEF IsRuns
<1>3. a \in Int /\ b \in Int /\ a \in Nat
  BY <1>1, <1>2 DEF Run
<1> DEFINE G == {t \in a .. b : DayOf(t) = DayOf(a)}
<1>4. ASSUME NEW t \in a + 1 .. b, t - 1 \in G PROVE t \in G
  <2>1. t - 1 \in a .. b - 1 /\ (t - 1) + 1 = t /\ DayOf(t - 1) = DayOf(a)
    BY <1>3, <1>4
  <2>2. b - 1 = runs[k].to - 2
    BY <1>1, <1>2 DEF Run
  <2>3. <<t - 1, (t - 1) + 1>> \in SameDayNext
    BY <1>1, <2>1, <2>2 DEF IsRuns
  <2>4. DayOf(t - 1) = DayOf(t)
    BY <2>1, <2>3 DEF SameDayNext
  <2>5. t \in a .. b
    BY <1>3
  <2> QED BY <2>1, <2>4, <2>5
<1>5. Upwards(a, b, G)
  BY <1>3, <1>4 DEF Upwards
<1>6. a .. b \subseteq G
  BY <1>3, <1>5, UpwardsHolds
<1> QED BY <1>1, <1>6

(* Two runs of a day are apart.                                             *)
LEMMA RunsApart ==
  ASSUME NEW S \in SUBSET Nat, NEW runs, IsRuns(S, SameDayNext, runs),
         NEW k \in 1 .. Len(runs), NEW j \in 1 .. k - 1
  PROVE  runs[j].to < runs[k].from \/ DayOf(runs[j].from) # DayOf(runs[k].from)
<1>1. runs \in Seq(Run) /\ Len(runs) \in Nat /\ j \in 1 .. Len(runs)
      /\ j + 1 \in 1 .. Len(runs) /\ j + 1 \in 2 .. Len(runs)
  BY DEF IsRuns
<1>2. \A i \in 1 .. Len(runs) : /\ runs[i] \in Run /\ runs[i].from \in Nat /\ runs[i].to \in Nat
                                /\ runs[i].from < runs[i].to
  <2>1. \A i \in 1 .. Len(runs) : runs[i] \in Run /\ runs[i].from < runs[i].to
    BY <1>1 DEF IsRuns
  <2> QED BY <2>1 DEF Run
<1>3. runs[j].to <= runs[k].from
  BY DEF IsRuns
<1>4. CASE k = j + 1
  <2>1. <<runs[j].to - 1, runs[k].from>> \notin SameDayNext
    <3>1. (j + 1) - 1 = j
      BY <1>1
    <3> QED BY <1>1, <1>4, <3>1 DEF IsRuns
  <2>2. runs[j].to - 1 \in runs[j].from .. runs[j].to - 1
    BY <1>1, <1>2
  <2>3. DayOf(runs[j].to - 1) = DayOf(runs[j].from)
    BY <1>1, <2>2, RunsWithinADay
  <2>4. PICK p, t : p = runs[j].to - 1 /\ t = runs[k].from
    OBVIOUS
  <2>5. p \in Nat /\ t \in Nat /\ p < t
    BY <1>1, <1>2, <1>3, <2>4
  <2>6. ASSUME t - p = 1 PROVE DayOf(p) # DayOf(t)
    BY <2>1, <2>4, <2>5, <2>6 DEF SameDayNext
  <2>7. CASE t - p = 1
    BY <2>3, <2>4, <2>6, <2>7
  <2>8. CASE t - p # 1
    BY <1>1, <1>2, <2>4, <2>5, <2>8
  <2> QED BY <2>7, <2>8
<1>5. CASE k # j + 1
  <2>1. j + 1 \in 1 .. k - 1 /\ j \in 1 .. (j + 1) - 1
    BY <1>1, <1>5
  <2>2. runs[j].to <= runs[j + 1].from /\ runs[j + 1].to <= runs[k].from
    BY <1>1, <2>1 DEF IsRuns
  <2> QED BY <1>1, <1>2, <2>2
<1> QED BY <1>4, <1>5

(* The gaps reported are the missing bars, session by session.              *)
LEMMA GapsAreExact == QualityTypeOK => GapsExact
<1> SUFFICES ASSUME QualityTypeOK PROVE GapsExact
  OBVIOUS
<1>1. PICK gaps : gaps = Gaps(MissingBars)
  OBVIOUS
<1>2. MissingBars \in SUBSET Nat /\ IsRuns(MissingBars, SameDayNext, gaps)
  BY <1>1, MissingTyped, GapsAreRuns
<1>3. DOMAIN gaps = 1 .. Len(gaps) /\ gaps \in Seq(Run)
  BY <1>2, LenProperties DEF IsRuns
<1> DEFINE Gap(k) == [code |-> "MISSING_BARS", breadth |-> "BAR_RANGE", from |-> gaps[k].from,
                      to |-> gaps[k].to, count |-> gaps[k].to - gaps[k].from]
<1>4. Missing = {Gap(k) : k \in 1 .. Len(gaps)}
  BY <1>1, <1>3 DEF Missing
<1>5. \A k \in 1 .. Len(gaps) : Gap(k).from = gaps[k].from /\ Gap(k).to = gaps[k].to
  OBVIOUS
<1> HIDE DEF Gap
<1>6. ASSUME NEW f \in Missing PROVE f.from .. f.to - 1 \subseteq SessionBars(DayOf(f.from))
  <2>1. PICK k \in 1 .. Len(gaps) : f = Gap(k)
    BY <1>4
  <2>2. \A t \in gaps[k].from .. gaps[k].to - 1 : DayOf(t) = DayOf(gaps[k].from)
    BY <1>2, RunsWithinADay
  <2>3. gaps[k].from .. gaps[k].to - 1 \subseteq MissingBars
    BY <1>2 DEF IsRuns
  <2>4. \A t \in gaps[k].from .. gaps[k].to - 1 : t \in SessionBars(DayOf(gaps[k].from))
    BY <2>2, <2>3, MissingTyped
  <2> QED BY <1>5, <2>1, <2>4
<1>7. UNION {f.from .. f.to - 1 : f \in Missing} = MissingBars
  <2>1. ASSUME NEW f \in Missing PROVE f.from .. f.to - 1 \subseteq MissingBars
    <3>1. PICK k \in 1 .. Len(gaps) : f = Gap(k)
      BY <1>4
    <3> QED BY <1>2, <1>5, <3>1 DEF IsRuns
  <2>2. ASSUME NEW t \in MissingBars PROVE \E f \in Missing : t \in f.from .. f.to - 1
    <3>1. PICK k \in 1 .. Len(gaps) : t \in gaps[k].from .. gaps[k].to - 1
      BY <1>2 DEF IsRuns
    <3> QED BY <1>4, <1>5, <3>1
  <2> QED BY <2>1, <2>2
<1>8. ASSUME NEW f \in Missing, NEW g \in Missing, f # g
      PROVE  f.to < g.from \/ g.to < f.from \/ DayOf(f.from) # DayOf(g.from)
  <2>1. PICK k \in 1 .. Len(gaps) : f = Gap(k)
    BY <1>4
  <2>2. PICK j \in 1 .. Len(gaps) : g = Gap(j)
    BY <1>4
  <2>3. j \in 1 .. k - 1 \/ k \in 1 .. j - 1
    BY <1>8, <1>3, <2>1, <2>2
  <2>4. CASE j \in 1 .. k - 1
    BY <1>2, <1>5, <2>1, <2>2, <2>4, RunsApart
  <2>5. CASE k \in 1 .. j - 1
    BY <1>2, <1>5, <2>1, <2>2, <2>5, RunsApart
  <2> QED BY <2>3, <2>4, <2>5
<1> QED BY <1>6, <1>7, <1>8 DEF GapsExact

-----------------------------------------------------------------------------
(* Rows in error                                                            *)

(* A finding counts the rows it is about, and no two are about the same.    *)
CountsApart(D, I, A) ==
  /\ IsFiniteSet(D) /\ IsFiniteSet(I) /\ A \in [D -> SUBSET I]
  /\ \A f \in D : f.count = Cardinality(A[f])
  /\ \A f, g \in D : f # g => A[f] \cap A[g] = {}
About(A, s) == UNION {A[f] : f \in s}

(* Together they are about as many more rows as one more of them counts.    *)
LEMMA OneMoreCount ==
  ASSUME NEW D, NEW I, NEW A, CountsApart(D, I, A), NEW s \in SUBSET D, NEW x \in s
  PROVE  Cardinality(About(A, s)) = Cardinality(About(A, s \ {x})) + x.count
<1>1. About(A, s) = About(A, s \ {x}) \cup A[x]
  BY DEF About
<1>2. About(A, s \ {x}) \cap A[x] = {}
  <2>1. x \in D /\ \A f \in s \ {x} : f \in D /\ f # x
    OBVIOUS
  <2>2. \A f \in s \ {x} : A[f] \cap A[x] = {}
    BY <2>1 DEF CountsApart
  <2> QED BY <2>2 DEF About
<1>3. About(A, s \ {x}) \in SUBSET I /\ A[x] \in SUBSET I /\ IsFiniteSet(I)
  BY DEF About, CountsApart
<1>4. /\ IsFiniteSet(About(A, s \ {x})) /\ IsFiniteSet(A[x])
      /\ Cardinality(About(A, s \ {x})) \in Nat /\ Cardinality(A[x]) \in Nat
  BY <1>3, FS_Subset, FS_CardinalityType
<1>5. Cardinality(About(A, s)) =
        Cardinality(About(A, s \ {x})) + Cardinality(A[x]) - Cardinality({})
  BY <1>1, <1>2, <1>4, FS_Union
<1>6. x.count = Cardinality(A[x])
  BY DEF CountsApart
<1> QED BY <1>4, <1>5, <1>6, FS_EmptySet

(* So the counts add up to the rows the findings are about.                 *)
LEMMA CountsAddUp ==
  ASSUME NEW D, NEW I, NEW A, CountsApart(D, I, A)
  PROVE  FoldSet(LAMBDA f, n : n + f.count, 0, D) = Cardinality(About(A, D))
<1> DEFINE pick(s) == CHOOSE x \in s : TRUE
<1> DEFINE body(it) ==
      [s \in SUBSET D |-> IF s = {} THEN 0 ELSE it[s \ {pick(s)}] + pick(s).count]
<1> DEFINE rowsOf == [s \in SUBSET D |-> Cardinality(About(A, s))]
<1>1. \A s \in SUBSET D : s # {} => pick(s) \in s
  OBVIOUS
<1> HIDE DEF pick
<1>2. ASSUME NEW s \in SUBSET D
      PROVE  rowsOf[s] = IF s = {} THEN 0 ELSE rowsOf[s \ {pick(s)}] + pick(s).count
  <2>1. CASE s = {}
    <3>1. About(A, {}) = {}
      BY DEF About
    <3>2. rowsOf[s] = Cardinality({})
      BY <2>1, <3>1
    <3> QED BY <2>1, <3>2, FS_EmptySet
  <2>2. CASE s # {}
    <3>1. pick(s) \in s /\ s \ {pick(s)} \in SUBSET D
      BY <1>1, <2>2
    <3>2. Cardinality(About(A, s)) = Cardinality(About(A, s \ {pick(s)})) + pick(s).count
      BY <3>1, OneMoreCount
    <3> QED BY <2>2, <3>1, <3>2
  <2> QED BY <2>1, <2>2
<1>3. rowsOf = [s \in SUBSET D |-> rowsOf[s]]
  OBVIOUS
<1> HIDE DEF rowsOf
<1>4. rowsOf = body(rowsOf)
  BY <1>2, <1>3
<1> DEFINE sums == CHOOSE x : x = body(x)
<1>5. sums = body(sums)
  BY <1>4
<1>6. FoldSet(LAMBDA f, n : n + f.count, 0, D) = sums[D]
  BY DEF FoldSet, MapThenFoldSet, pick
<1> HIDE DEF sums
<1>7. \A s \in SUBSET D : sums[s] = IF s = {} THEN 0 ELSE sums[s \ {pick(s)}] + pick(s).count
  BY <1>5
<1> DEFINE Bad == {n \in Nat : \E s \in SUBSET D : Cardinality(s) = n /\ sums[s] # rowsOf[s]}
<1>8. Bad = {}
  <2> SUFFICES ASSUME Bad # {} PROVE FALSE
    OBVIOUS
  <2>1. PICK m \in Bad : \A k \in Bad : m <= k
    BY MinIsLeast
  <2>2. PICK s \in SUBSET D : Cardinality(s) = m /\ sums[s] # rowsOf[s]
    BY <2>1
  <2>3. s # {}
    BY <1>2, <1>7, <2>2
  <2>4. PICK x : x = pick(s)
    OBVIOUS
  <2>5. x \in s /\ s \ {x} \in SUBSET D /\ IsFiniteSet(s)
    BY <1>1, <2>3, <2>4, FS_Subset DEF CountsApart
  <2>6. Cardinality(s \ {x}) = m - 1 /\ Cardinality(s \ {x}) \in Nat
    BY <2>2, <2>5, FS_RemoveElement, FS_CardinalityType
  <2>7. m - 1 \notin Bad
    BY <2>1, <2>6
  <2>8. sums[s \ {x}] = rowsOf[s \ {x}]
    BY <2>5, <2>6, <2>7
  <2> QED BY <1>2, <1>7, <2>2, <2>3, <2>4, <2>8
<1>9. IsFiniteSet(D) /\ Cardinality(D) \in Nat
  BY FS_CardinalityType DEF CountsApart
<1>10. sums[D] = rowsOf[D]
  BY <1>8, <1>9
<1> QED BY <1>6, <1>10 DEF rowsOf

(* Rows of any kind are covered by their findings, and counted once.        *)
LEMMA RowsAreCovered ==
  ASSUME QualityTypeOK, NEW I \in SUBSET Positions, NEW code
  PROVE  /\ UNION {f.from .. f.to - 1 : f \in RowFindings(code, I)} = Stamps(I)
         /\ FoldSet(LAMBDA f, n : n + f.count, 0, RowFindings(code, I)) = Cardinality(I)
<1>1. PICK runs : runs = Spans(Stamps(I))
  OBVIOUS
<1>2. Stamps(I) \in SUBSET Nat /\ IsFiniteSet(I) /\ IsRuns(Stamps(I), NextPlace, runs)
  BY <1>1, StampsTyped, SpansAreRuns
<1>3. DOMAIN runs = 1 .. Len(runs) /\ runs \in Seq(Run) /\ Len(runs) \in Nat
  BY <1>2, LenProperties DEF IsRuns
<1>4. \A k \in 1 .. Len(runs) : runs[k].from \in Nat /\ runs[k].to \in Nat
  <2>1. \A k \in 1 .. Len(runs) : runs[k] \in Run
    BY <1>3
  <2> QED BY <2>1 DEF Run
<1> DEFINE Of(k) == BarFinding(code, runs[k], I)
<1> DEFINE D == RowFindings(code, I)
<1>5. D = {Of(k) : k \in 1 .. Len(runs)}
  BY <1>1, <1>3 DEF RowFindings
<1> DEFINE InRun(k) == {i \in I : barRows[i].at \in runs[k].from .. runs[k].to - 1}
<1>6. \A k : Of(k).from = runs[k].from /\ Of(k).to = runs[k].to
             /\ Of(k).count = Cardinality(InRun(k))
  BY DEF BarFinding
<1> HIDE DEF Of, D
<1>7. UNION {f.from .. f.to - 1 : f \in D} = Stamps(I)
  <2>1. ASSUME NEW f \in D PROVE f.from .. f.to - 1 \subseteq Stamps(I)
    <3>1. PICK k \in 1 .. Len(runs) : f = Of(k)
      BY <1>5
    <3> QED BY <1>2, <1>6, <3>1 DEF IsRuns
  <2>2. ASSUME NEW t \in Stamps(I) PROVE \E f \in D : t \in f.from .. f.to - 1
    <3>1. PICK k \in 1 .. Len(runs) : t \in runs[k].from .. runs[k].to - 1
      BY <1>2 DEF IsRuns
    <3> QED BY <1>5, <1>6, <3>1
  <2> QED BY <2>1, <2>2
<1> DEFINE A == [f \in D |-> {i \in I : barRows[i].at \in f.from .. f.to - 1}]
<1>8. A \in [D -> SUBSET I]
  OBVIOUS
<1>9. IsFiniteSet(D)
  <2>1. IsFiniteSet(1 .. Len(runs))
    BY <1>3, FS_Interval
  <2> DEFINE h == [k \in 1 .. Len(runs) |-> Of(k)]
  <2>2. h \in Surjection(1 .. Len(runs), D)
    BY <1>5 DEF Surjection
  <2> HIDE DEF h
  <2> QED BY <2>1, <2>2, FS_Surjection
<1>10. ASSUME NEW f \in D PROVE f.count = Cardinality(A[f])
  <2>1. PICK k \in 1 .. Len(runs) : f = Of(k)
    BY <1>5
  <2>2. A[f] = InRun(k)
    BY <1>6, <2>1
  <2> QED BY <1>6, <2>1, <2>2
<1>11. ASSUME NEW f \in D, NEW g \in D, f # g PROVE A[f] \cap A[g] = {}
  <2>1. PICK k \in 1 .. Len(runs) : f = Of(k)
    BY <1>5
  <2>2. PICK j \in 1 .. Len(runs) : g = Of(j)
    BY <1>5
  <2>3. j \in 1 .. k - 1 \/ k \in 1 .. j - 1
    BY <1>3, <1>11, <2>1, <2>2
  <2>4. runs[j].to <= runs[k].from \/ runs[k].to <= runs[j].from
    BY <1>2, <2>3 DEF IsRuns
  <2>5. runs[k].from .. runs[k].to - 1 \cap runs[j].from .. runs[j].to - 1 = {}
    BY <1>4, <2>4
  <2> QED BY <1>6, <2>1, <2>2, <2>5
<1>12. About(A, D) = I
  <2>1. ASSUME NEW i \in I PROVE \E f \in D : i \in A[f]
    <3>1. barRows[i].at \in Stamps(I)
      BY DEF Stamps
    <3>2. PICK f \in D : barRows[i].at \in f.from .. f.to - 1
      BY <1>7, <3>1
    <3> QED BY <3>2
  <2> HIDE DEF A
  <2> QED BY <1>8, <2>1 DEF About
<1> HIDE DEF A
<1>13. CountsApart(D, I, A)
  BY <1>2, <1>8, <1>9, <1>10, <1>11 DEF CountsApart
<1>14. FoldSet(LAMBDA f, n : n + f.count, 0, D) = Cardinality(I)
  BY <1>12, <1>13, CountsAddUp
<1> QED BY <1>7, <1>14 DEF D

(* So every kind of row in error is covered and counted.                    *)
LEMMA RunsAreExact == QualityTypeOK => RunsExact
<1> SUFFICES ASSUME QualityTypeOK PROVE RunsExact
  OBVIOUS
<1>1. ASSUME NEW I \in {Duplicates, Invalid, Unusual, Misdated} PROVE I \in SUBSET Positions
  BY DEF Duplicates, Invalid, Unusual, Misdated
<1> QED BY <1>1, RowsAreCovered DEF RunsExact

-----------------------------------------------------------------------------
(* Scopes                                                                   *)

(* The greater of two numbers.                                              *)
LEMMA MaxOfTwo == \A a, b \in Int : Max({a, b}) = IF a >= b THEN a ELSE b
<1> SUFFICES ASSUME NEW a \in Int, NEW b \in Int PROVE Max({a, b}) = IF a >= b THEN a ELSE b
  OBVIOUS
<1> DEFINE m == IF a >= b THEN a ELSE b
<1>1. m \in {a, b} /\ \A y \in {a, b} : m >= y
  OBVIOUS
<1>2. \A x \in {a, b} : (\A y \in {a, b} : x >= y) => x = m
  OBVIOUS
<1> QED BY <1>1, <1>2 DEF Max

(* The lesser of two numbers.                                               *)
LEMMA MinOfTwo == \A a, b \in Int : Min({a, b}) = IF a <= b THEN a ELSE b
<1> SUFFICES ASSUME NEW a \in Int, NEW b \in Int PROVE Min({a, b}) = IF a <= b THEN a ELSE b
  OBVIOUS
<1> DEFINE m == IF a <= b THEN a ELSE b
<1>1. m \in {a, b} /\ \A y \in {a, b} : m <= y
  OBVIOUS
<1>2. \A x \in {a, b} : (\A y \in {a, b} : x <= y) => x = m
  OBVIOUS
<1> QED BY <1>1, <1>2 DEF Min

(* A finding is about a period of its own, or about the partition.          *)
OfBars(f) ==
  f.breadth = "BAR_RANGE" /\ f.from \in Nat /\ f.to \in Nat /\ f.from < f.to /\ f.count \in Nat
OfPartition(f) == f.breadth = "PARTITION" /\ f.from = -1 /\ f.to = -1 /\ f.count \in Nat

(* A finding about rows is about a period.                                  *)
LEMMA RowFindingsTyped ==
  ASSUME QualityTypeOK, NEW I \in SUBSET Positions, NEW code, NEW f \in RowFindings(code, I)
  PROVE  OfBars(f)
<1>1. PICK runs : runs = Spans(Stamps(I))
  OBVIOUS
<1>2. IsFiniteSet(I) /\ IsRuns(Stamps(I), NextPlace, runs)
  BY <1>1, StampsTyped, SpansAreRuns
<1>3. DOMAIN runs = 1 .. Len(runs) /\ runs \in Seq(Run)
  BY <1>2, LenProperties DEF IsRuns
<1>4. PICK k \in 1 .. Len(runs) : f = BarFinding(code, runs[k], I)
  BY <1>1, <1>3 DEF RowFindings
<1>5. runs[k] \in Run /\ runs[k].from < runs[k].to
  BY <1>2, <1>3 DEF IsRuns
<1>6. {i \in I : barRows[i].at \in runs[k].from .. runs[k].to - 1} \in SUBSET I
  OBVIOUS
<1>7. Cardinality({i \in I : barRows[i].at \in runs[k].from .. runs[k].to - 1}) \in Nat
  BY <1>2, <1>6, FS_Subset, FS_CardinalityType
<1> QED BY <1>4, <1>5, <1>7 DEF BarFinding, OfBars, Run

(* Every finding is about a period or the partition.                        *)
LEMMA FindingsTyped ==
  ASSUME QualityTypeOK, NEW f \in QualityFindings
  PROVE  OfBars(f) \/ OfPartition(f)
<1>1. Duplicates \in SUBSET Positions /\ Invalid \in SUBSET Positions
      /\ Unusual \in SUBSET Positions /\ Misdated \in SUBSET Positions
      /\ Outside \in SUBSET Positions
  BY DEF Duplicates, Invalid, Unusual, Misdated, Outside
<1>2. CASE f \in OutOfOrder
  <2>1. PICK k \in 2 .. Len(barRows) :
          /\ barRows[k].at < barRows[k - 1].at
          /\ f = [code |-> "OUT_OF_ORDER_BARS", breadth |-> "BAR_RANGE", from |-> barRows[k].at,
                  to |-> barRows[k - 1].at + 1, count |-> 2]
    BY <1>2 DEF OutOfOrder
  <2>2. k \in Positions /\ k - 1 \in Positions
    BY BarRowsTyped
  <2>3. barRows[k].at \in Nat /\ barRows[k - 1].at \in Nat
    BY <2>2, BarRowsTyped
  <2> QED BY <2>1, <2>3 DEF OfBars
<1>3. CASE f \in Missing
  <2>1. PICK gaps : gaps = Gaps(MissingBars)
    OBVIOUS
  <2>2. IsRuns(MissingBars, SameDayNext, gaps)
    BY <2>1, MissingTyped, GapsAreRuns
  <2>3. DOMAIN gaps = 1 .. Len(gaps) /\ gaps \in Seq(Run)
    BY <2>2, LenProperties DEF IsRuns
  <2>4. PICK k \in 1 .. Len(gaps) :
          f = [code |-> "MISSING_BARS", breadth |-> "BAR_RANGE", from |-> gaps[k].from,
               to |-> gaps[k].to, count |-> gaps[k].to - gaps[k].from]
    BY <1>3, <2>1, <2>3 DEF Missing
  <2>5. gaps[k] \in Run /\ gaps[k].from < gaps[k].to
    BY <2>2, <2>3 DEF IsRuns
  <2>6. gaps[k].from \in Nat /\ gaps[k].to \in Nat /\ gaps[k].to - gaps[k].from \in Nat
    BY <2>5 DEF Run
  <2> QED BY <2>4, <2>5, <2>6 DEF OfBars
<1>4. CASE f \in Boundary
  <2>1. Cardinality(Outside) \in Nat
    BY <1>1, StampsTyped, FS_CardinalityType
  <2> QED BY <1>4, <2>1 DEF Boundary, OfPartition
<1>5. CASE \E code : \E I \in {Duplicates, Invalid, Unusual, Misdated} : f \in RowFindings(code, I)
  BY <1>1, <1>5, RowFindingsTyped
<1> QED BY <1>2, <1>3, <1>4, <1>5 DEF QualityFindings

(* A partition starts before it ends.                                       *)
LEMMA PartitionTyped == Lower \in Int /\ Upper \in Int /\ Lower < Upper
<1>1. /\ DaySlots \in Nat \ {0} /\ PartitionFrom \in Nat /\ PartitionTo \in Nat
      /\ PartitionFrom < PartitionTo
  BY CalendarTyped DEF Calendar
<1>2. Lower = (PartitionFrom - 1) * DaySlots /\ Upper = (PartitionTo - 1) * DaySlots
  BY DEF Lower, Upper, DayStart
<1>3. DaySlots * PartitionFrom <= DaySlots * (PartitionTo - 1)
  <2>1. PartitionTo - 1 \in Int /\ PartitionFrom <= PartitionTo - 1
    BY <1>1
  <2> QED BY <1>1, <2>1, TimesMore
<1>4. /\ DaySlots * PartitionFrom = (PartitionFrom - 1) * DaySlots + DaySlots
      /\ DaySlots * (PartitionTo - 1) = (PartitionTo - 1) * DaySlots
      /\ (PartitionFrom - 1) * DaySlots \in Int /\ (PartitionTo - 1) * DaySlots \in Int
  BY <1>1
<1> QED BY <1>1, <1>2, <1>3, <1>4

(* The scope of a finding about a period.                                   *)
LEMMA ScopeOfBars ==
  ASSUME NEW f, OfBars(f)
  PROVE  /\ Clamped(f).from \in Int /\ Clamped(f).to \in Int
         /\ f.from <= Clamped(f).from /\ Lower <= Clamped(f).from
         /\ Clamped(f).to <= f.to /\ Clamped(f).to <= Upper
         /\ WithScope(f).code = f.code
         /\ Clamped(f).to <= Clamped(f).from =>
              /\ WithScope(f).breadth = "PARTITION" /\ ~WithScope(f).instrument
              /\ WithScope(f).from = Lower /\ WithScope(f).to = Upper
              /\ WithScope(f).count = f.count
         /\ ~(Clamped(f).to <= Clamped(f).from) =>
              /\ WithScope(f).breadth = "BAR_RANGE" /\ WithScope(f).instrument
              /\ WithScope(f).from = Clamped(f).from /\ WithScope(f).to = Clamped(f).to
              /\ WithScope(f).count \in Nat \ {0}
<1>1. f.from \in Int /\ f.to \in Int /\ Lower \in Int /\ Upper \in Int /\ f.from # -1
  BY PartitionTyped DEF OfBars
<1>2. /\ Clamped(f).from = Max({f.from, Lower}) /\ Clamped(f).to = Min({f.to, Upper})
  BY DEF Clamped
<1>3. /\ Clamped(f).from \in Int /\ Clamped(f).to \in Int
      /\ f.from <= Clamped(f).from /\ Lower <= Clamped(f).from
      /\ Clamped(f).to <= f.to /\ Clamped(f).to <= Upper
  BY <1>1, <1>2, MaxOfTwo, MinOfTwo
<1>4. Max({1, f.count}) \in Nat \ {0}
  <2>1. f.count \in Int /\ 1 \in Int
    BY DEF OfBars
  <2> QED BY <2>1, MaxOfTwo
<1>5. f.breadth = "BAR_RANGE"
  BY DEF OfBars
<1> QED BY <1>1, <1>3, <1>4, <1>5 DEF WithScope

(* The scope of a finding about the partition.                              *)
LEMMA ScopeOfPartition ==
  ASSUME NEW f, OfPartition(f)
  PROVE  /\ WithScope(f).code = f.code
         /\ WithScope(f).breadth = "PARTITION" /\ ~WithScope(f).instrument
         /\ WithScope(f).from = Lower /\ WithScope(f).to = Upper
         /\ WithScope(f).count = f.count
<1>1. ~(Upper <= Lower)
  BY PartitionTyped
<1> QED BY <1>1 DEF WithScope, OfPartition

(* Every finding gets a scope an incident accepts, no wider than it and its *)
(* own.                                                                     *)
LEMMA ScopesAreSound == QualityTypeOK => ScopesSound
<1> SUFFICES ASSUME QualityTypeOK PROVE ScopesSound
  OBVIOUS
<1>1. ASSUME NEW f, OfBars(f) \/ OfPartition(f) PROVE ScopeAccepted(WithScope(f))
  <2>1. CASE OfPartition(f)
    BY <2>1, ScopeOfPartition, PartitionTyped DEF ScopeAccepted, OfPartition
  <2>2. CASE OfBars(f)
    <3>1. CASE Clamped(f).to <= Clamped(f).from
      BY <2>2, <3>1, ScopeOfBars, PartitionTyped DEF ScopeAccepted, OfBars
    <3>2. CASE ~(Clamped(f).to <= Clamped(f).from)
      BY <2>2, <3>2, ScopeOfBars DEF ScopeAccepted
    <3> QED BY <3>1, <3>2
  <2> QED BY <1>1, <2>1, <2>2
<1>2. ASSUME NEW f, OfBars(f) \/ OfPartition(f), WithScope(f).breadth = "BAR_RANGE"
      PROVE  /\ f.from <= WithScope(f).from /\ WithScope(f).to <= f.to
             /\ WithScope(f).from = Clamped(f).from /\ WithScope(f).to = Clamped(f).to
  <2>1. OfBars(f)
    BY <1>2, ScopeOfPartition
  <2>2. ~(Clamped(f).to <= Clamped(f).from)
    BY <1>2, <2>1, ScopeOfBars
  <2> QED BY <2>1, <2>2, ScopeOfBars
<1>3. ASSUME NEW f, NEW g, OfBars(f) \/ OfPartition(f), OfBars(g) \/ OfPartition(g),
             RowId(WithScope(g)) = RowId(WithScope(f))
      PROVE  g.code = f.code /\ (WithScope(f).breadth = "BAR_RANGE" => Clamped(f) = Clamped(g))
  <2>1. /\ WithScope(g).code = WithScope(f).code /\ WithScope(g).breadth = WithScope(f).breadth
        /\ WithScope(g).from = WithScope(f).from /\ WithScope(g).to = WithScope(f).to
    BY <1>3 DEF RowId
  <2>2. WithScope(g).code = g.code /\ WithScope(f).code = f.code
    BY <1>3, ScopeOfBars, ScopeOfPartition
  <2>3. ASSUME WithScope(f).breadth = "BAR_RANGE" PROVE Clamped(f) = Clamped(g)
    <3>1. Clamped(f).from = Clamped(g).from /\ Clamped(f).to = Clamped(g).to
      BY <1>2, <1>3, <2>1, <2>3
    <3> QED BY <3>1 DEF Clamped
  <2> QED BY <2>1, <2>2, <2>3
<1> QED BY <1>1, <1>2, <1>3, FindingsTyped DEF ScopesSound

-----------------------------------------------------------------------------
(* Derived bars                                                             *)

(* The bars of a session in an hourly bucket are the interval from low to   *)
(* high.                                                                    *)
Low(d, bin) == DayStart(d) + SessionOpen + bin * BinSlots
High(d, bin) == IF Low(d, bin) + BinSlots <= SessionEnd(d) THEN Low(d, bin) + BinSlots ELSE SessionEnd(d)
(* The bucket of a bar that is not daily.                                   *)
HourOf(t) == BinOf(t, FALSE)
Full(d, bin) == {t \in SessionBars(d) : HourOf(t) = bin}

(* A bucket with a bar in it is such an interval.                           *)
LEMMA BucketIs ==
  ASSUME NEW d, NEW u \in SessionBars(d), NEW bin, bin = HourOf(u)
  PROVE  /\ bin \in Nat /\ Low(d, bin) \in Nat /\ High(d, bin) \in Nat
         /\ Low(d, bin) < High(d, bin) /\ High(d, bin) <= SessionEnd(d)
         /\ High(d, bin) <= Low(d, bin) + BinSlots
         /\ Full(d, bin) = Low(d, bin) .. High(d, bin) - 1
<1>1. PICK s, e, n : s = DayStart(d) + SessionOpen /\ e = SessionEnd(d) /\ n = BinSlots
  OBVIOUS
<1>2. /\ s \in Nat /\ e \in Nat /\ n \in Nat \ {0} /\ SessionBars(d) = s .. e - 1
      /\ \A t \in SessionBars(d) : t \in Nat /\ DayOf(t) = d
  <2>1. SessionOpen \in Nat /\ n \in Nat \ {0}
    BY <1>1, CalendarTyped DEF Calendar
  <2>2. /\ DayStart(d) \in Nat /\ e \in Nat
        /\ SessionBars(d) = (DayStart(d) + SessionOpen) .. (SessionEnd(d) - 1)
    BY <1>1, SessionDay
  <2>3. \A t \in SessionBars(d) : t \in Nat /\ DayOf(t) = d
    BY SessionDay
  <2> QED BY <1>1, <2>1, <2>2, <2>3
<1>3. \A t \in SessionBars(d) : t - s \in Nat /\ HourOf(t) = (t - s) \div n
  BY <1>1, <1>2 DEF HourOf, BinOf
<1>4. bin \in Nat
  BY <1>2, <1>3, QuotientIs
<1>5. ASSUME NEW t \in SessionBars(d)
      PROVE  HourOf(t) = bin <=> bin * n <= t - s /\ t - s < bin * n + n
  <2>1. PICK m : m = t - s
    OBVIOUS
  <2>2. m \in Nat /\ HourOf(t) = m \div n
    BY <1>3, <2>1
  <2>3. bin = m \div n <=> bin * n <= m /\ m < bin * n + n
    <3>1. PICK q : q = m \div n
      OBVIOUS
    <3>2. q * n <= m /\ m < q * n + n
      BY <1>2, <2>2, <3>1, QuotientIs
    <3>3. bin * n <= m /\ m < bin * n + n => q = bin
      <4>1. bin \in Int
        BY <1>4
      <4> QED BY <1>2, <2>2, <3>1, <4>1, QuotientIs
    <3> QED BY <3>1, <3>2, <3>3
  <2> QED BY <2>1, <2>2, <2>3
<1>6. PICK low : low = s + bin * n
  OBVIOUS
<1>7. low \in Nat /\ s <= low /\ bin * n \in Nat
  BY <1>2, <1>4, <1>6
<1>8. \A t \in SessionBars(d) : HourOf(t) = bin <=> low <= t /\ t < low + n
  <2>1. ASSUME NEW t \in SessionBars(d) PROVE HourOf(t) = bin <=> low <= t /\ t < low + n
    <3>1. PICK m : m = bin * n
      OBVIOUS
    <3>2. m \in Nat /\ low = s + m /\ t \in Nat
      BY <1>2, <1>6, <1>7, <3>1
    <3>3. HourOf(t) = bin <=> m <= t - s /\ t - s < m + n
      BY <1>5, <3>1
    <3> QED BY <1>2, <3>2, <3>3
  <2> QED BY <2>1
<1>9. low <= u /\ u < low + n /\ u < e /\ u \in Nat
  BY <1>2, <1>8
<1>10. PICK high : high = IF low + n <= e THEN low + n ELSE e
  OBVIOUS
<1>11. high \in Nat /\ low < high /\ high <= e /\ high <= low + n
  BY <1>2, <1>7, <1>9, <1>10
<1>12. Full(d, bin) = low .. high - 1
  <2>1. ASSUME NEW t PROVE t \in Full(d, bin) <=> t \in low .. high - 1
    <3>1. t \in Full(d, bin) <=> t \in s .. e - 1 /\ low <= t /\ t < low + n
      BY <1>2, <1>8 DEF Full
    <3> QED BY <1>2, <1>7, <1>10, <1>11, <3>1
  <2> QED BY <2>1
<1>13. Low(d, bin) = low /\ High(d, bin) = high
  BY <1>1, <1>6, <1>10 DEF Low, High
<1> QED BY <1>1, <1>4, <1>7, <1>11, <1>12, <1>13

(* The bars of an interval.                                                 *)
LEMMA IntervalSize ==
  \A a, b \in Int : a <= b => IsFiniteSet(a .. b - 1) /\ Cardinality(a .. b - 1) = b - a
<1> SUFFICES ASSUME NEW a \in Int, NEW b \in Int, a <= b
             PROVE  IsFiniteSet(a .. b - 1) /\ Cardinality(a .. b - 1) = b - a
  OBVIOUS
<1>1. b - 1 \in Int
  OBVIOUS
<1>2. /\ IsFiniteSet(a .. b - 1)
      /\ Cardinality(a .. b - 1) = IF a > b - 1 THEN 0 ELSE (b - 1) - a + 1
  BY <1>1, FS_Interval
<1> QED BY <1>2

(* One derived bar: its bucket, and what its source counts.                 *)
LEMMA DerivedTyped ==
  ASSUME QualityTypeOK, NEW b \in DerivedBars, b.daily = FALSE
  PROVE  \E u \in SessionBars(b.day), bucket \in SUBSET Full(b.day, b.bin) :
           /\ b.bin = HourOf(u) /\ u \in bucket
           /\ b.at = Min(bucket) /\ b.source = Cardinality(bucket)
<1>1. PICK d \in DOMAIN SessionClose, daily \in BOOLEAN :
        \E bin \in {BinOf(t, daily) : t \in Regular(d)} :
          b = [daily |-> daily, day |-> d, bin |-> bin,
               at |-> Min({t \in Regular(d) : BinOf(t, daily) = bin}),
               source |-> Cardinality({t \in Regular(d) : BinOf(t, daily) = bin})]
  BY DEF DerivedBars
<1>2. PICK u \in Regular(d) :
        b = [daily |-> FALSE, day |-> d, bin |-> HourOf(u),
             at |-> Min({t \in Regular(d) : HourOf(t) = HourOf(u)}),
             source |-> Cardinality({t \in Regular(d) : HourOf(t) = HourOf(u)})]
  <2>1. daily = FALSE
    BY <1>1
  <2>2. \A t : BinOf(t, daily) = HourOf(t)
    BY <2>1 DEF HourOf
  <2> QED BY <1>1, <2>1, <2>2
<1>3. b.day = d /\ b.bin = HourOf(u)
  BY <1>2
<1> DEFINE bucket == {t \in Regular(d) : HourOf(t) = HourOf(u)}
<1>4. u \in SessionBars(d) /\ u \in bucket /\ bucket \in SUBSET Full(d, HourOf(u))
  BY DEF Regular, Full
<1>5. b.at = Min(bucket) /\ b.source = Cardinality(bucket)
  BY <1>2
<1> HIDE DEF bucket
<1> QED BY <1>3, <1>4, <1>5

(* Its count is in bounds, and short of the session's bars when it must.    *)
LEMMA HourlyIsSound ==
  ASSUME QualityTypeOK, NEW b \in DerivedBars, b.daily = FALSE
  PROVE  /\ ~InvalidSource(b) /\ b.source <= Cardinality(Full(b.day, b.bin))
         /\ (/\ b.source < Cardinality(Full(b.day, b.bin))
             /\ \/ b.at = Min(Full(b.day, b.bin))
                \/ SessionEnd(b.day) - 1 \notin Full(b.day, b.bin)) => MissingSource(b)
         /\ b.source = Cardinality(Full(b.day, b.bin)) => ~MissingSource(b)
<1>1. PICK u \in SessionBars(b.day), bucket \in SUBSET Full(b.day, b.bin) :
        /\ b.bin = HourOf(u) /\ u \in bucket
        /\ b.at = Min(bucket) /\ b.source = Cardinality(bucket)
  BY DerivedTyped
<1>2. PICK d, full, low, high, e, n, at, source :
        /\ d = b.day /\ full = Full(b.day, b.bin) /\ low = Low(b.day, b.bin)
        /\ high = High(b.day, b.bin) /\ e = SessionEnd(b.day) /\ n = BinSlots
        /\ at = b.at /\ source = b.source
  OBVIOUS
<1>3. /\ low \in Nat /\ high \in Nat /\ low < high /\ high <= e /\ high <= low + n
      /\ full = low .. high - 1
  BY <1>1, <1>2, BucketIs
<1>4. n \in Nat \ {0} /\ e \in Nat
  BY <1>1, <1>2, CalendarTyped, SessionDay DEF Calendar
<1>5. high = IF low + n <= e THEN low + n ELSE e
  BY <1>2 DEF High
<1>6. bucket \in SUBSET Nat /\ bucket # {}
  BY <1>1, <1>2, <1>3
<1>7. at \in bucket /\ \A t \in bucket : at <= t
  BY <1>1, <1>2, <1>6, MinIsLeast
<1>8. at \in Nat /\ low <= at /\ at < high
  <2>1. at \in low .. high - 1
    BY <1>2, <1>3, <1>7
  <2> QED BY <1>3, <2>1
<1>9. /\ IsFiniteSet(full) /\ Cardinality(full) = high - low
      /\ IsFiniteSet(at .. high - 1) /\ Cardinality(at .. high - 1) = high - at
  BY <1>3, <1>8, IntervalSize
<1>10. bucket \in SUBSET full /\ bucket \in SUBSET (at .. high - 1)
  <2>1. bucket \in SUBSET full
    BY <1>2
  <2>2. \A t \in bucket : t \in at .. high - 1
    BY <1>3, <1>7, <1>8, <2>1
  <2> QED BY <2>1, <2>2
<1>11. IsFiniteSet(bucket) /\ source \in Nat /\ source # 0
  BY <1>1, <1>2, <1>6, <1>9, <1>10, FS_Subset, FS_CardinalityType, FS_EmptySet
<1>12. source <= high - low /\ source <= high - at
  BY <1>1, <1>2, <1>9, <1>10, FS_Subset
<1>13. source = high - low => bucket = full
  BY <1>1, <1>2, <1>9, <1>10, FS_Subset
<1>14. Min(full) = low
  <2>1. full \in SUBSET Nat /\ full # {}
    <3>1. \A t \in full : t \in Nat
      BY <1>3
    <3>2. low \in full
      BY <1>3
    <3> QED BY <3>1, <3>2
  <2>2. Min(full) \in full /\ \A t \in full : Min(full) <= t
    BY <2>1, MinIsLeast
  <2>3. low \in full
    BY <1>3
  <2> QED BY <1>3, <2>2, <2>3
<1>15. Cardinality(SessionBars(d)) \in Nat /\ source <= Cardinality(SessionBars(d))
  <2>1. SessionBars(d) = (DayStart(d) + SessionOpen) .. (e - 1) /\ DayStart(d) \in Nat
    BY <1>1, <1>2, SessionDay
  <2>2. SessionOpen \in Nat
    BY CalendarTyped DEF Calendar
  <2>3. IsFiniteSet(SessionBars(d))
    BY <1>4, <2>1, <2>2, FS_Interval
  <2>4. bucket \in SUBSET SessionBars(d)
    BY <1>2 DEF Full
  <2> QED BY <1>1, <1>2, <2>3, <2>4, FS_Subset, FS_CardinalityType
<1>16. ~InvalidSource(b)
  <2>1. Min({n, Cardinality(SessionBars(d))}) \in {n, Cardinality(SessionBars(d))}
    BY <1>4, <1>15, MinOfTwo
  <2> QED BY <1>2, <1>3, <1>4, <1>11, <1>12, <1>15, <2>1 DEF InvalidSource
<1>17. Min({n, e - at}) = IF n <= e - at THEN n ELSE e - at
  <2>1. n \in Int /\ e - at \in Int
    BY <1>4, <1>8
  <2> QED BY <2>1, MinOfTwo
<1>18. MissingSource(b) <=> source < Min({n, e - at})
  BY <1>2 DEF MissingSource
<1>19. ASSUME source < high - low, at = low \/ e - 1 \notin full PROVE MissingSource(b)
  <2>1. CASE at = low
    BY <1>3, <1>4, <1>5, <1>11, <1>17, <1>18, <1>19, <2>1
  <2>2. CASE e - 1 \notin full
    <3>1. high < e
      BY <1>3, <1>4, <2>2
    <3> QED BY <1>3, <1>4, <1>5, <1>8, <1>11, <1>12, <1>17, <1>18, <1>19, <3>1
  <2> QED BY <1>19, <2>1, <2>2
<1>20. ASSUME source = high - low PROVE ~MissingSource(b)
  <2>1. at = low
    BY <1>1, <1>2, <1>13, <1>14, <1>20
  <2> QED BY <1>3, <1>4, <1>5, <1>17, <1>18, <1>20, <2>1
<1> QED BY <1>2, <1>9, <1>12, <1>14, <1>16, <1>19, <1>20

(* A daily bar counts the bars its session has, out of all of them.         *)
LEMMA DailyIsSound ==
  ASSUME QualityTypeOK, NEW b \in DerivedBars, b.daily = TRUE
  PROVE  /\ {t \in SessionBars(b.day) : BinOf(t, TRUE) = b.bin} = SessionBars(b.day)
         /\ b.source <= Cardinality(SessionBars(b.day)) /\ Cardinality(SessionBars(b.day)) \in Nat
         /\ ~InvalidSource(b) /\ (b.source < Cardinality(SessionBars(b.day)) <=> MissingSource(b))
<1>1. PICK d \in DOMAIN SessionClose, daily \in BOOLEAN :
        \E bin \in {BinOf(t, daily) : t \in Regular(d)} :
          b = [daily |-> daily, day |-> d, bin |-> bin,
               at |-> Min({t \in Regular(d) : BinOf(t, daily) = bin}),
               source |-> Cardinality({t \in Regular(d) : BinOf(t, daily) = bin})]
  BY DEF DerivedBars
<1>2. \A t : BinOf(t, TRUE) = 0
  BY DEF BinOf
<1>3. PICK u \in Regular(d) :
        b = [daily |-> TRUE, day |-> d, bin |-> BinOf(u, TRUE),
             at |-> Min({t \in Regular(d) : BinOf(t, TRUE) = BinOf(u, TRUE)}),
             source |-> Cardinality({t \in Regular(d) : BinOf(t, TRUE) = BinOf(u, TRUE)})]
  <2>1. daily = TRUE
    BY <1>1
  <2> QED BY <1>1, <2>1
<1>4. b.day = d /\ b.bin = 0 /\ b.source = Cardinality(Regular(d)) /\ u \in SessionBars(d)
  <2>1. {t \in Regular(d) : BinOf(t, TRUE) = BinOf(u, TRUE)} = Regular(d)
    BY <1>2
  <2> QED BY <1>2, <1>3, <2>1 DEF Regular
<1>5. IsFiniteSet(SessionBars(d))
  <2>1. DayStart(d) + SessionOpen \in Int /\ SessionEnd(d) - 1 \in Int
    BY <1>4, SessionDay, CalendarTyped DEF Calendar
  <2> QED BY <1>4, <2>1, SessionDay, FS_Interval
<1>6. Regular(d) \in SUBSET SessionBars(d) /\ u \in Regular(d)
  BY <1>3 DEF Regular
<1>7. /\ IsFiniteSet(Regular(d)) /\ Cardinality(Regular(d)) \in Nat
      /\ Cardinality(Regular(d)) <= Cardinality(SessionBars(d)) /\ Cardinality(SessionBars(d)) \in Nat
      /\ Cardinality(Regular(d)) # 0
  BY <1>5, <1>6, FS_Subset, FS_CardinalityType, FS_EmptySet
<1>8. {t \in SessionBars(d) : BinOf(t, TRUE) = 0} = SessionBars(d)
  BY <1>2
<1>9. PICK k, n : k = b.source /\ n = Cardinality(SessionBars(b.day))
  OBVIOUS
<1>10. (InvalidSource(b) <=> k <= 0 \/ k > n) /\ (MissingSource(b) <=> k < n)
  BY <1>9 DEF InvalidSource, MissingSource
<1>11. k \in Nat /\ n \in Nat /\ k <= n /\ k # 0
  BY <1>4, <1>7, <1>9
<1>12. {t \in SessionBars(b.day) : BinOf(t, TRUE) = b.bin} = SessionBars(b.day)
  BY <1>4, <1>8
<1>13. k <= n /\ ~(k <= 0 \/ k > n)
  BY <1>11
<1>14. ~InvalidSource(b) /\ (k < n <=> MissingSource(b))
  BY <1>10, <1>13, Zenon
<1> QED BY <1>9, <1>11, <1>12, <1>13, <1>14

LEMMA DerivedIsSound == QualityTypeOK => DerivedSound
<1> SUFFICES ASSUME QualityTypeOK, NEW b \in DerivedBars
             PROVE  LET full == {t \in SessionBars(b.day) : BinOf(t, b.daily) = b.bin}
                    IN /\ ~InvalidSource(b) /\ b.source <= Cardinality(full)
                       /\ (b.source < Cardinality(full)
                           /\ (b.daily \/ b.at = Min(full) \/ SessionEnd(b.day) - 1 \notin full))
                            => MissingSource(b)
                       /\ b.source = Cardinality(full) => ~MissingSource(b)
  BY DEF DerivedSound
<1>1. b.daily = TRUE \/ b.daily = FALSE
  BY DEF DerivedBars
<1>2. CASE b.daily = TRUE
  <2>1. PICK k, n : k = b.source /\ n = Cardinality(SessionBars(b.day))
    OBVIOUS
  <2>2. k <= n /\ ~InvalidSource(b) /\ (k < n <=> MissingSource(b)) /\ n \in Nat
    BY <1>2, <2>1, DailyIsSound
  <2>3. {t \in SessionBars(b.day) : BinOf(t, b.daily) = b.bin} = SessionBars(b.day)
    BY <1>2, DailyIsSound
  <2> QED BY <2>1, <2>2, <2>3
<1>3. CASE b.daily = FALSE
  <2>1. {t \in SessionBars(b.day) : BinOf(t, b.daily) = b.bin} = Full(b.day, b.bin)
    BY <1>3 DEF Full, HourOf
  <2> QED BY <1>3, <2>1, HourlyIsSound
<1> QED BY <1>1, <1>2, <1>3

-----------------------------------------------------------------------------
(* The split of a large table                                               *)

(* A list of parts, the last of which is being filled.                      *)
Parts == {q \in Seq(SUBSET Positions) : Len(q) # 0}

(* The split starts with one empty part.                                    *)
LEMMA OneEmptyPart == <<{}>> \in Parts /\ Len(<<{}>>) = 1 /\ <<{}>>[1] = {}
<1>1. {} \in SUBSET Positions
  OBVIOUS
<1>2. <<{}>> \in Seq(SUBSET Positions) /\ Len(<<{}>>) = 1 /\ <<{}>>[1] = {}
  BY <1>1
<1> QED BY <1>2 DEF Parts

(* A step of the split, on the last part.                                   *)
LEMMA SplitStepIs ==
  ASSUME NEW parts \in Parts, NEW t
  PROVE  LET n == Len(parts)
         IN /\ n \in Nat \ {0} /\ parts[n] \in SUBSET Positions
            /\ SplitStep(parts, t) \in Parts
            /\ IF parts[n] # {} /\ Cardinality(parts[n]) + Cardinality(RowsAt(t)) > MaxPartRows
               THEN /\ Len(SplitStep(parts, t)) = n + 1
                    /\ \A j \in 1 .. n : SplitStep(parts, t)[j] = parts[j]
                    /\ SplitStep(parts, t)[n + 1] = RowsAt(t)
               ELSE /\ Len(SplitStep(parts, t)) = n
                    /\ \A j \in 1 .. n - 1 : SplitStep(parts, t)[j] = parts[j]
                    /\ SplitStep(parts, t)[n] = parts[n] \cup RowsAt(t)
<1>1. PICK n, rows, S : n = Len(parts) /\ rows = RowsAt(t) /\ S = SUBSET Positions
  OBVIOUS
<1>2. n \in Nat \ {0} /\ parts \in Seq(S) /\ n \in 1 .. n
  BY <1>1 DEF Parts
<1>3. parts[n] \in S /\ rows \in S /\ parts[n] \cup rows \in S
  <2>1. parts[n] \in S
    BY <1>1, <1>2
  <2>2. rows \in S
    BY <1>1 DEF RowsAt
  <2> QED BY <1>1, <2>1, <2>2
<1>4. CASE parts[n] # {} /\ Cardinality(parts[n]) + Cardinality(rows) > MaxPartRows
  <2>1. SplitStep(parts, t) = Append(parts, rows)
    BY <1>1, <1>4 DEF SplitStep, Last
  <2>2. /\ Append(parts, rows) \in Seq(S) /\ Len(Append(parts, rows)) = n + 1
        /\ \A j \in 1 .. n : Append(parts, rows)[j] = parts[j]
        /\ Append(parts, rows)[n + 1] = rows
    BY <1>1, <1>2, <1>3, AppendProperties
  <2>3. n + 1 # 0
    BY <1>2
  <2> QED BY <1>1, <1>2, <1>3, <1>4, <2>1, <2>2, <2>3 DEF Parts
<1>5. CASE ~(parts[n] # {} /\ Cardinality(parts[n]) + Cardinality(rows) > MaxPartRows)
  <2>1. SplitStep(parts, t) = [parts EXCEPT ![n] = parts[n] \cup rows]
    BY <1>1, <1>5 DEF SplitStep, Last
  <2>2. PICK w : w = parts[n] \cup rows
    OBVIOUS
  <2>3. /\ [parts EXCEPT ![n] = w] \in Seq(S) /\ Len([parts EXCEPT ![n] = w]) = n
        /\ \A j \in 1 .. n - 1 : [parts EXCEPT ![n] = w][j] = parts[j]
        /\ [parts EXCEPT ![n] = w][n] = w
    <3>1. w \in S /\ DOMAIN parts = 1 .. n
      BY <1>1, <1>2, <1>3, <2>2
    <3>2. \A j \in 1 .. n - 1 : j \in 1 .. n /\ j # n
      BY <1>2
    <3>3. [parts EXCEPT ![n] = w] \in Seq(S) /\ Len([parts EXCEPT ![n] = w]) = n
      BY <1>1, <1>2, <3>1, ExceptSeq
    <3> QED BY <1>2, <3>1, <3>2, <3>3
  <2> QED BY <1>1, <1>2, <1>3, <1>5, <2>1, <2>2, <2>3 DEF Parts
<1> QED BY <1>1, <1>4, <1>5

(* So it stays a list of parts.                                             *)
LEMMA SplitTyped == \A parts \in Parts : \A t : SplitStep(parts, t) \in Parts
BY SplitStepIs

(* The split is scanned timestamp by timestamp.                             *)
LEMMA SplitStepwise ==
  ASSUME NEW T \in SUBSET Nat, IsFiniteSet(T)
  PROVE  \E g \in [0 .. Cardinality(T) -> Parts] :
           /\ g[0] = <<{}>> /\ g[Cardinality(T)] = FoldLeft(SplitStep, <<{}>>, Ascending(T))
           /\ \A k \in 1 .. Cardinality(T) :
                g[k] = SplitStep(g[k - 1], Ascending(T)[k])
<1> DEFINE list == Ascending(T)
<1> DEFINE n == Cardinality(T)
<1> DEFINE F == [p \in (1 .. n) \X Parts |-> SplitStep(p[2], list[p[1]])]
<1> DEFINE body(it) ==
      [t \in SUBSET DOMAIN list |->
         IF t = {} THEN <<{}>> ELSE SplitStep(it[t \ {Max(t)}], list[Max(t)])]
<1>1. n \in Nat /\ DOMAIN list = 1 .. n /\ <<{}>> \in Parts /\ \A k \in 1 .. n : list[k] \in T
  <2>1. \A k \in 1 .. n : list[k] \in T
    BY AscendingIs, ElementOfSeq
  <2>2. <<{}>> \in Parts
    BY OneEmptyPart
  <2>3. n \in Nat /\ DOMAIN list = 1 .. n
    BY AscendingIs, LenProperties
  <2> QED BY <2>1, <2>2, <2>3
<1> HIDE DEF list, n
<1>3. ASSUME NEW x \in Parts, NEW k \in 1 .. n PROVE SplitStep(x, list[k]) \in Parts
  BY SplitTyped
<1>4. F \in [(1 .. n) \X Parts -> Parts]
      /\ \A k \in 1 .. n, x \in Parts : F[<<k, x>>] = SplitStep(x, list[k])
  BY <1>3
<1> HIDE DEF F
<1>5. PICK it \in [SUBSET (1 .. n) -> Parts] : IsIterated(it, n, <<{}>>, F)
  BY <1>1, <1>4, IterationExists
<1>6. ASSUME NEW t \in SUBSET (1 .. n), t # {}
      PROVE  Max(t) \in 1 .. n /\ t \ {Max(t)} \in SUBSET (1 .. n)
  <2>1. t \in SUBSET (0 .. n)
    OBVIOUS
  <2> QED BY <1>1, <1>6, <2>1, MaxIsGreatest
<1>7. it = body(it)
  <2>1. ASSUME NEW t \in SUBSET (1 .. n)
        PROVE  it[t] = IF t = {} THEN <<{}>> ELSE SplitStep(it[t \ {Max(t)}], list[Max(t)])
    <3>1. CASE t = {}
      BY <3>1, <1>5 DEF IsIterated
    <3>2. CASE t # {}
      <4>1. Max(t) \in 1 .. n /\ it[t \ {Max(t)}] \in Parts
        BY <3>2, <1>5, <1>6
      <4>2. it[t] = F[<<Max(t), it[t \ {Max(t)}]>>]
        BY <3>2, <1>5 DEF IsIterated
      <4> QED BY <3>2, <4>1, <4>2, <1>4
    <3> QED BY <3>1, <3>2
  <2> QED BY <2>1, <1>1, <1>5
<1> DEFINE folded == CHOOSE x : x = body(x)
<1>8. folded = body(folded)
  BY <1>7
<1>9. FoldLeft(SplitStep, <<{}>>, Ascending(T)) = folded[1 .. n]
  BY <1>1 DEF SplitByTime, FoldLeft, MapThenFoldSet, list
<1> HIDE DEF folded
<1>10. \A t \in SUBSET (1 .. n) :
         folded[t] = IF t = {} THEN <<{}>> ELSE SplitStep(folded[t \ {Max(t)}], list[Max(t)])
  BY <1>1, <1>8
<1>11. folded[{}] = <<{}>>
  BY <1>10
<1>12. ASSUME NEW k \in 1 .. n
       PROVE  folded[1 .. k] = SplitStep(folded[1 .. k - 1], list[k])
  BY <1>1, <1>10, FirstPositions
<1>13. StepsFollow(folded, n, Parts, <<{}>>, F)
  <2>1. \A k \in 1 .. n : folded[1 .. k - 1] \in Parts =>
          folded[1 .. k] = F[<<k, folded[1 .. k - 1]>>]
    BY <1>4, <1>12
  <2> QED BY <1>1, <1>4, <1>11, <2>1 DEF StepsFollow
<1>14. PICK g \in [0 .. n -> Parts] :
         /\ g[0] = <<{}>> /\ g[n] = folded[1 .. n]
         /\ \A k \in 1 .. n : g[k] = F[<<k, g[k - 1]>>]
  BY <1>13, IterationSteps DEF StepsListed
<1>15. \A k \in 1 .. n : g[k] = SplitStep(g[k - 1], list[k])
  <2>1. \A k \in 1 .. n : k - 1 \in 0 .. n
    BY <1>1
  <2>2. \A k \in 1 .. n : g[k - 1] \in Parts
    BY <1>14, <2>1
  <2> QED BY <1>4, <1>14, <2>2
<1> QED BY <1>9, <1>14, <1>15 DEF list, n

(* What the parts hold once the timestamps of T were split.                 *)
RowsOf(T) == {k \in Positions : barRows[k].at \in T}
IsSplit(T, parts) ==
  /\ parts \in Parts
  /\ \A k : (\E j \in 1 .. Len(parts) : k \in parts[j]) <=> k \in RowsOf(T)
  /\ \A j \in 1 .. Len(parts) : \A i \in 1 .. j - 1 :
       \A p \in parts[i], q \in parts[j] : barRows[p].at < barRows[q].at
  /\ \A j \in 1 .. Len(parts) :
       Cardinality(parts[j]) > MaxPartRows => \E t : Stamps(parts[j]) = {t}

(* Together two parts have at most as many rows as both have.               *)
LEMMA TogetherAtMost ==
  \A S, T : IsFiniteSet(S) /\ IsFiniteSet(T) =>
    /\ Cardinality(S) \in Nat /\ Cardinality(T) \in Nat /\ Cardinality(S \cup T) \in Nat
    /\ Cardinality(S \cup T) <= Cardinality(S) + Cardinality(T)
<1> SUFFICES ASSUME NEW S, NEW T, IsFiniteSet(S), IsFiniteSet(T)
             PROVE  /\ Cardinality(S) \in Nat /\ Cardinality(T) \in Nat
                    /\ Cardinality(S \cup T) \in Nat
                    /\ Cardinality(S \cup T) <= Cardinality(S) + Cardinality(T)
  OBVIOUS
<1>1. Cardinality(S \cup T) = Cardinality(S) + Cardinality(T) - Cardinality(S \cap T)
      /\ IsFiniteSet(S \cup T)
  BY FS_Union
<1>2. IsFiniteSet(S \cap T)
  BY FS_Subset
<1> QED BY <1>1, <1>2, FS_CardinalityType

(* The next timestamp goes after the ones split.                            *)
LEMMA SplitGrows ==
  ASSUME QualityTypeOK, NEW T \in SUBSET Nat, NEW parts, IsSplit(T, parts),
         NEW t \in Nat, \A u \in T : u < t
  PROVE  IsSplit(T \cup {t}, SplitStep(parts, t))
<1>1. PICK n, rows, next, last :
        /\ n = Len(parts) /\ rows = RowsAt(t) /\ next = SplitStep(parts, t) /\ last = parts[n]
  OBVIOUS
<1>2. parts \in Parts
  BY DEF IsSplit
<1>3. /\ n \in Nat \ {0} /\ last \in SUBSET Positions /\ next \in Parts
      /\ IF last # {} /\ Cardinality(last) + Cardinality(rows) > MaxPartRows
         THEN /\ Len(next) = n + 1 /\ \A j \in 1 .. n : next[j] = parts[j]
              /\ next[n + 1] = rows
         ELSE /\ Len(next) = n /\ \A j \in 1 .. n - 1 : next[j] = parts[j]
              /\ next[n] = last \cup rows
  BY <1>1, <1>2, SplitStepIs
<1>4. \A k : k \in RowsOf(T \cup {t}) <=> k \in RowsOf(T) \/ k \in rows
  BY <1>1 DEF RowsOf, RowsAt
<1>5. /\ \A k : (\E j \in 1 .. n : k \in parts[j]) <=> k \in RowsOf(T)
      /\ \A j \in 1 .. n : \A i \in 1 .. j - 1 :
           \A p \in parts[i], q \in parts[j] : barRows[p].at < barRows[q].at
      /\ \A j \in 1 .. n : Cardinality(parts[j]) > MaxPartRows => \E u : Stamps(parts[j]) = {u}
  BY <1>1 DEF IsSplit
<1>6. \A j \in 1 .. n : \A p \in parts[j], q \in rows : barRows[p].at < barRows[q].at
  <2>1. ASSUME NEW j \in 1 .. n, NEW p \in parts[j] PROVE barRows[p].at \in T
    BY <1>5 DEF RowsOf
  <2>2. \A q \in rows : barRows[q].at = t
    BY <1>1 DEF RowsAt
  <2> QED BY <2>1, <2>2
<1>7. Cardinality(rows) > MaxPartRows => Stamps(rows) = {t}
  <2>1. rows # {} => Stamps(rows) = {t}
    BY <1>1 DEF RowsAt, Stamps
  <2>2. rows = {} => Cardinality(rows) = 0
    BY FS_EmptySet
  <2> QED BY <2>1, <2>2, CalendarTyped DEF Calendar
<1>8. n \in 1 .. n /\ \A j \in 1 .. n - 1 : j \in 1 .. n
  BY <1>3
<1>9. CASE last # {} /\ Cardinality(last) + Cardinality(rows) > MaxPartRows
  <2>1. /\ Len(next) = n + 1 /\ \A j \in 1 .. n : next[j] = parts[j]
        /\ next[n + 1] = rows
    BY <1>3, <1>9
  <2>2. \A j \in 1 .. n + 1 : j \in 1 .. n \/ j = n + 1
    BY <1>3
  <2>3. \A j \in 1 .. n : j \in 1 .. n + 1
    BY <1>3
  <2>4. n + 1 \in 1 .. n + 1
    BY <1>3
  <2>5. \A k : (\E j \in 1 .. Len(next) : k \in next[j]) <=> k \in RowsOf(T \cup {t})
    BY <1>4, <1>5, <2>1, <2>2, <2>3, <2>4
  <2>6. ASSUME NEW j \in 1 .. Len(next), NEW i \in 1 .. j - 1
        PROVE  \A p \in next[i], q \in next[j] : barRows[p].at < barRows[q].at
    <3>1. i \in 1 .. n
      BY <1>3, <2>1
    <3> QED BY <1>5, <1>6, <2>1, <2>2, <3>1
  <2>7. \A j \in 1 .. Len(next) :
          Cardinality(next[j]) > MaxPartRows => \E u : Stamps(next[j]) = {u}
    BY <1>5, <1>7, <2>1, <2>2
  <2> QED BY <1>1, <1>3, <2>5, <2>6, <2>7 DEF IsSplit
<1>10. CASE ~(last # {} /\ Cardinality(last) + Cardinality(rows) > MaxPartRows)
  <2>1. /\ Len(next) = n /\ \A j \in 1 .. n - 1 : next[j] = parts[j]
        /\ next[n] = last \cup rows
    BY <1>3, <1>10
  <2>2. \A j \in 1 .. n : j \in 1 .. n - 1 \/ j = n
    BY <1>3
  <2>3. \A k : (\E j \in 1 .. Len(next) : k \in next[j]) <=> k \in RowsOf(T \cup {t})
    <3>1. ASSUME NEW k
          PROVE  (\E j \in 1 .. n : k \in next[j]) <=> (\E j \in 1 .. n : k \in parts[j]) \/ k \in rows
      <4>1. ASSUME NEW j \in 1 .. n, k \in next[j]
            PROVE  (\E i \in 1 .. n : k \in parts[i]) \/ k \in rows
        BY <1>1, <1>8, <2>1, <2>2, <4>1
      <4>2. ASSUME NEW j \in 1 .. n, k \in parts[j]
            PROVE  \E i \in 1 .. n : k \in next[i]
        BY <1>1, <1>8, <2>1, <2>2, <4>2
      <4>3. k \in rows => \E i \in 1 .. n : k \in next[i]
        BY <1>8, <2>1
      <4> QED BY <4>1, <4>2, <4>3
    <3> QED BY <1>4, <1>5, <2>1, <3>1
  <2>4. ASSUME NEW j \in 1 .. Len(next), NEW i \in 1 .. j - 1
        PROVE  \A p \in next[i], q \in next[j] : barRows[p].at < barRows[q].at
    <3>1. j \in 1 .. n /\ i \in 1 .. n - 1 /\ i \in 1 .. n /\ next[i] = parts[i]
      BY <1>3, <2>1
    <3>2. \A p \in parts[i], q \in parts[j] : barRows[p].at < barRows[q].at
      BY <1>5, <3>1
    <3>3. next[j] = parts[j] \/ next[j] = parts[j] \cup rows
      BY <1>1, <2>1, <2>2, <3>1
    <3> QED BY <1>6, <3>1, <3>2, <3>3
  <2>5. Cardinality(last \cup rows) > MaxPartRows => \E u : Stamps(last \cup rows) = {u}
    <3>1. CASE last = {}
      <4>1. last \cup rows = rows
        BY <3>1
      <4> QED BY <1>7, <4>1
    <3>2. CASE last # {}
      <4>1. IsFiniteSet(last) /\ IsFiniteSet(rows)
        <5>1. rows \in SUBSET Positions
          BY <1>1 DEF RowsAt
        <5> QED BY <1>3, <5>1, StampsTyped
      <4>2. /\ Cardinality(last) \in Nat /\ Cardinality(rows) \in Nat
            /\ Cardinality(last \cup rows) \in Nat
            /\ Cardinality(last \cup rows) <= Cardinality(last) + Cardinality(rows)
        BY <4>1, TogetherAtMost
      <4>3. ~(Cardinality(last) + Cardinality(rows) > MaxPartRows) /\ MaxPartRows \in Nat
        BY <1>10, <3>2, CalendarTyped DEF Calendar
      <4> QED BY <4>2, <4>3
    <3> QED BY <3>1, <3>2
  <2>6. \A j \in 1 .. Len(next) :
          Cardinality(next[j]) > MaxPartRows => \E u : Stamps(next[j]) = {u}
    <3>1. ASSUME NEW j \in 1 .. n, Cardinality(next[j]) > MaxPartRows
          PROVE  \E u : Stamps(next[j]) = {u}
      <4>1. CASE j \in 1 .. n - 1
        BY <1>5, <2>1, <3>1, <4>1
      <4>2. CASE j = n
        BY <2>1, <2>5, <3>1, <4>2
      <4> QED BY <2>2, <4>1, <4>2
    <3> QED BY <2>1, <3>1
  <2> QED BY <1>1, <1>3, <2>3, <2>4, <2>6 DEF IsSplit
<1> QED BY <1>9, <1>10

(* So the parts of all the timestamps are split.                            *)
LEMMA SplitIsSplit ==
  ASSUME QualityTypeOK
  PROVE  IsSplit(Observed, FoldLeft(SplitStep, <<{}>>, Ascending(Observed)))
<1>1. Observed \in SUBSET Nat /\ IsFiniteSet(Observed)
  BY StampsTyped DEF Observed
<1>2. PICK T, n, list : T = Observed /\ n = Cardinality(Observed) /\ list = Ascending(Observed)
  OBVIOUS
<1>3. PICK g \in [0 .. n -> Parts] :
        /\ g[0] = <<{}>> /\ g[n] = FoldLeft(SplitStep, <<{}>>, Ascending(Observed))
        /\ \A k \in 1 .. n : g[k] = SplitStep(g[k - 1], list[k])
  BY <1>1, <1>2, SplitStepwise
<1>4. /\ n \in Nat /\ list \in Seq(T) /\ Len(list) = n /\ T \in SUBSET Nat
      /\ \A k \in 1 .. n : list[k] \in T /\ list[k] \in Nat
      /\ \A k \in 1 .. n : \A j \in 1 .. k - 1 : list[j] < list[k]
      /\ \A t \in T : \E k \in 1 .. n : list[k] = t
  <2>1. /\ n \in Nat /\ list \in Seq(T) /\ Len(list) = n
        /\ \A k \in 1 .. n : \A j \in 1 .. k - 1 : list[j] < list[k]
        /\ \A t \in T : \E k \in 1 .. n : list[k] = t
    BY <1>1, <1>2, AscendingIs
  <2>2. \A k \in 1 .. n : list[k] \in T
    BY <2>1
  <2> QED BY <1>1, <1>2, <2>1, <2>2
<1> DEFINE First(k) == {list[j] : j \in 1 .. k}
<1> DEFINE G == {k \in 0 .. n : IsSplit(First(k), g[k])}
<1>5. 0 \in G
  <2>1. First(0) = {} /\ g[0] = <<{}>>
    BY <1>3
  <2> HIDE DEF First
  <2>2. PICK q : q = <<{}>>
    OBVIOUS
  <2>3. q \in Parts /\ Len(q) = 1 /\ q[1] = {}
    BY <2>2, OneEmptyPart
  <2>4. \A j \in 1 .. Len(q) : j = 1 /\ q[j] = {}
    BY <2>3
  <2>5. Cardinality({}) = 0 /\ ~(0 > MaxPartRows)
    BY FS_EmptySet, CalendarTyped DEF Calendar
  <2>6. \A k : k \notin RowsOf({})
    BY DEF RowsOf
  <2>7. IsSplit({}, q)
    BY <2>3, <2>4, <2>5, <2>6 DEF IsSplit
  <2>8. First(0) = {} /\ g[0] = q
    BY <2>1, <2>2
  <2>9. IsSplit(First(0), g[0])
    BY <2>7, <2>8
  <2> QED BY <1>4, <2>9
<1>6. ASSUME NEW k \in 1 .. n, k - 1 \in G PROVE k \in G
  <2>1. IsSplit(First(k - 1), g[k - 1]) /\ k \in 0 .. n
    BY <1>4, <1>6
  <2>2. PICK S, parts, t : S = First(k - 1) /\ parts = g[k - 1] /\ t = list[k]
    OBVIOUS
  <2>3. S \in SUBSET Nat /\ t \in Nat /\ \A u \in S : u < t
    <3>1. \A j \in 1 .. k - 1 : j \in 1 .. n
      BY <1>4
    <3> QED BY <1>4, <2>2, <3>1
  <2>4. First(k) = S \cup {t}
    <3>1. 1 .. k = (1 .. k - 1) \cup {k}
      BY <1>4
    <3> QED BY <2>2, <3>1
  <2> HIDE DEF First
  <2>5. IsSplit(S, parts)
    BY <2>1, <2>2
  <2>6. IsSplit(S \cup {t}, SplitStep(parts, t))
    BY <2>3, <2>5, SplitGrows
  <2>7. g[k] = SplitStep(parts, t)
    BY <1>3, <2>2
  <2> QED BY <2>1, <2>4, <2>6, <2>7
<1> HIDE DEF G
<1>7. Upwards(0, n, G)
  BY <1>4, <1>5, <1>6 DEF Upwards
<1>8. n \in G
  BY <1>4, <1>7, UpwardsHolds
<1>9. First(n) = T
  BY <1>4
<1> HIDE DEF First
<1> QED BY <1>2, <1>3, <1>8, <1>9 DEF G

(* Such parts are the table, timestamps apart.                              *)
LEMMA SplitIsSound == QualityTypeOK => SplitSound
<1> SUFFICES ASSUME QualityTypeOK PROVE SplitSound
  OBVIOUS
<1>1. PICK parts : parts = SplitByTime
  OBVIOUS
<1>2. \A p \in Positions : barRows[p].at \in Observed
  BY DEF Observed, Stamps
<1>3. CASE Len(barRows) <= MaxPartRows
  <2>1. parts = <<Positions>>
    BY <1>1, <1>3 DEF SplitByTime
  <2>2. DOMAIN parts = {1} /\ parts[1] = Positions
    BY <2>1
  <2>3. Cardinality(Positions) = Len(barRows) /\ Len(barRows) \in Nat
    BY BarRowsTyped
  <2>4. ~(Cardinality(Positions) > MaxPartRows)
    BY <1>3, <2>3, CalendarTyped DEF Calendar
  <2>5. UNION {parts[k] : k \in DOMAIN parts} = Positions
    BY <2>2
  <2>6. \A j, k \in DOMAIN parts : ~(j < k)
    BY <2>2
  <2> QED BY <1>1, <2>2, <2>4, <2>5, <2>6 DEF SplitSound
<1>4. CASE ~(Len(barRows) <= MaxPartRows)
  <2>1. IsSplit(Observed, parts)
    BY <1>1, <1>4, SplitIsSplit DEF SplitByTime
  <2>2. parts \in Seq(SUBSET Positions)
    BY <2>1 DEF IsSplit, Parts
  <2>3. DOMAIN parts = 1 .. Len(parts) /\ Len(parts) \in Nat
    BY <2>2
  <2>4. UNION {parts[k] : k \in DOMAIN parts} = Positions
    <3>1. \A k : (\E j \in DOMAIN parts : k \in parts[j]) <=> k \in Positions
      BY <1>2, <2>1, <2>3 DEF IsSplit, RowsOf
    <3> QED BY <3>1
  <2>5. ASSUME NEW j \in DOMAIN parts, NEW k \in DOMAIN parts, j < k,
               NEW s \in Stamps(parts[j]), NEW t \in Stamps(parts[k])
        PROVE  s < t
    <3>1. PICK p \in parts[j], q \in parts[k] : s = barRows[p].at /\ t = barRows[q].at
      BY DEF Stamps
    <3>2. k \in 1 .. Len(parts) /\ j \in 1 .. k - 1
      BY <2>3, <2>5
    <3> QED BY <2>1, <3>1, <3>2 DEF IsSplit
  <2>6. ASSUME NEW k \in DOMAIN parts, Cardinality(parts[k]) > MaxPartRows
        PROVE  Cardinality(Stamps(parts[k])) = 1
    <3>1. PICK t : Stamps(parts[k]) = {t}
      BY <2>1, <2>3, <2>6 DEF IsSplit
    <3> QED BY <3>1, FS_Singleton
  <2> QED BY <1>1, <2>4, <2>5, <2>6 DEF SplitSound
<1> QED BY <1>3, <1>4

(* Every table of delivered rows is reported on as it should be.            *)
LEMMA QualityIsSound == QualityTypeOK => QualitySound
BY GapsAreExact, RunsAreExact, ScopesAreSound, DerivedIsSound, SplitIsSound DEF QualitySound

-----------------------------------------------------------------------------
(* The whole specifications                                                 *)

(* One more element.                                                        *)
LEMMA AppendTyped ==
  ASSUME NEW S, NEW s \in Seq(S), NEW e \in S
  PROVE  Append(s, e) \in Seq(S) /\ Len(Append(s, e)) = Len(s) + 1
BY AppendProperties

(* A new bar's close is a price.                                            *)
LEMMA CalculatorStep == CalculatorTypeOK /\ [CalculatorNext]_calculatorVars => CalculatorTypeOK'
<1> SUFFICES ASSUME CalculatorTypeOK, [CalculatorNext]_calculatorVars PROVE CalculatorTypeOK'
  OBVIOUS
<1>1. MaxBars \in Nat /\ closes \in Seq(Price) /\ Len(closes) <= MaxBars
  BY CalculatorAssumption DEF CalculatorTypeOK
<1>2. CASE NewBar
  <2>1. Len(closes) < MaxBars /\ \E p \in Price : closes' = Append(closes, p)
    BY <1>2 DEF NewBar
  <2>2. PICK p \in Price : closes' = Append(closes, p)
    BY <2>1
  <2>3. closes' \in Seq(Price) /\ Len(closes') = Len(closes) + 1 /\ Len(closes) \in Nat
    BY <1>1, <2>2, AppendTyped, LenProperties
  <2> QED BY <1>1, <2>1, <2>3 DEF CalculatorTypeOK
<1>3. CASE UNCHANGED calculatorVars
  BY <1>1, <1>3 DEF calculatorVars, CalculatorTypeOK
<1> QED BY <1>2, <1>3 DEF CalculatorNext

(* No bar yet.                                                              *)
LEMMA CalculatorStart == CalculatorInit => CalculatorTypeOK
BY CalculatorAssumption, EmptySeq DEF CalculatorInit, CalculatorTypeOK

(* The series of closes keeps its type.                                     *)
LEMMA CalculatorTypeCorrect == CalculatorSpec => []CalculatorTypeOK
<1> QED BY CalculatorStart, CalculatorStep, PTL DEF CalculatorSpec

(* A delivered row is one a provider may deliver.                           *)
LEMMA QualityStep == QualityTypeOK /\ [QualityNext]_qualityVars => QualityTypeOK'
<1> SUFFICES ASSUME QualityTypeOK, [QualityNext]_qualityVars PROVE QualityTypeOK'
  OBVIOUS
<1>1. MaxBarRows \in Nat /\ barRows \in Seq(BarRow) /\ Len(barRows) <= MaxBarRows
  BY QualityAssumption DEF QualityTypeOK
<1>2. ASSUME NEW r \in BarRow, Deliver(r) PROVE QualityTypeOK'
  <2>1. Len(barRows) < MaxBarRows /\ barRows' = Append(barRows, r)
    BY <1>2 DEF Deliver
  <2>2. barRows' \in Seq(BarRow) /\ Len(barRows') = Len(barRows) + 1 /\ Len(barRows) \in Nat
    BY <1>1, <2>1, AppendTyped, LenProperties
  <2> QED BY <1>1, <2>1, <2>2 DEF QualityTypeOK
<1>3. CASE UNCHANGED qualityVars
  BY <1>1, <1>3 DEF qualityVars, QualityTypeOK
<1> QED BY <1>2, <1>3 DEF QualityNext

(* No row yet.                                                              *)
LEMMA QualityStart == QualityInit => QualityTypeOK
BY QualityAssumption, EmptySeq DEF QualityInit, QualityTypeOK

(* The table of a partition keeps its type.                                 *)
LEMMA QualityTypeCorrect == QualitySpec => []QualityTypeOK
<1> QED BY QualityStart, QualityStep, PTL DEF QualitySpec

(* Every series of closes a calculator may be given keeps the values it had *)
(* once more closes follow; rounding does not accumulate, an average stays  *)
(* within (w+1)/4 or n/2 quanta of the exact one however long the series;   *)
(* and the index stays between 0 and 100.                                   *)
THEOREM ValuesStayFinal == CalculatorSpec => []ValuesAreFinal
<1> QED BY CalculatorTypeCorrect, ValuesFinalOfPrices, PTL

(* Every table a provider may deliver, in any order, with any rows in error *)
(* or twice, is reported on, scoped, derived from and split as it should    *)
(* be.                                                                      *)
THEOREM QualityStaysSound == QualitySpec => []QualitySound
<1> QED BY QualityTypeCorrect, QualityIsSound, PTL
=============================================================================
