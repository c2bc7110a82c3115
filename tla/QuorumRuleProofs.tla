-------------------------- MODULE QuorumRuleProofs --------------------------
(***************************************************************************)
(* QuorumRule.tla for every validator set, every choice of weights and all *)
(* three rules.                                                            *)
(*                                                                         *)
(* Sums of weights are defined by recursion over a set, in an order that   *)
(* CHOOSE gives.  That the recursion is well defined, and that the order   *)
(* does not matter, is shown with least counterexamples: a smallest set of *)
(* validators for which a formula fails, or a least number.  The binary    *)
(* search of count_weight_cap is treated likewise.                         *)
(*                                                                         *)
(* Then: a vote set counts and weighs every signer exactly once; two       *)
(* quorums overlap by count and by weight; the cap that is found leaves    *)
(* the chain live without any f members, and a capped set stays as it is   *)
(* when it is capped again.                                                *)
(***************************************************************************)
EXTENDS QuorumRule, FiniteSetTheorems, TLAPS

\* A nonempty set of naturals has a least member.
LEMMA LeastNatural ==
    ASSUME NEW T, T \subseteq Nat, T # {}
    PROVE  \E x \in T : \A y \in T : x <= y
<1> DEFINE R == OpToRel(<, Nat)
<1>1. IsWellFoundedOn(R, Nat)
  BY NatLessThanWellFounded
<1>2. \A x, y \in T : <<y, x>> \in R <=> y < x
  BY DEF OpToRel
<1> HIDE DEF R
<1>3. PICK x \in T : \A y \in T : ~(<<y, x>> \in R)
  BY <1>1, WFMin
<1>4. ASSUME NEW y \in T PROVE x <= y
  <2>1. x \in Nat /\ y \in Nat
    OBVIOUS
  <2>2. ~(y < x)
    BY <1>2, <1>3
  <2> QED BY <2>1, <2>2
<1> QED BY <1>4

\* A set of naturals that holds 0 and every successor of its members is Nat.
LEMMA Climb ==
    ASSUME NEW P \in SUBSET Nat, 0 \in P, \A n \in P : n + 1 \in P
    PROVE  P = Nat
<1> DEFINE T == Nat \ P
<1> SUFFICES ASSUME T # {} PROVE FALSE
  OBVIOUS
<1>1. PICK x \in T : \A y \in T : x <= y
  BY LeastNatural
<1>2. x \in Nat /\ x # 0 /\ x - 1 \in Nat /\ (x - 1) + 1 = x /\ ~(x <= x - 1)
  BY <1>1
<1>3. x - 1 \in P
  BY <1>1, <1>2
<1> QED BY <1>1, <1>2, <1>3

\* Among the subsets of a finite set, one of a nonempty collection is minimal.
LEMMA SmallestSet ==
    ASSUME NEW U, IsFiniteSet(U), NEW Bad \in SUBSET (SUBSET U), Bad # {}
    PROVE  \E B \in Bad : \A C \in Bad : C \subseteq B => C = B
<1> DEFINE R == StrictSubsetOrdering(U)
<1>1. IsWellFoundedOn(R, FiniteSubsetsOf(U)) /\ FiniteSubsetsOf(U) = SUBSET U
  BY FS_StrictSubsetOrderingWellFounded, FS_FiniteSubsetsOfFinite
<1>2. \A B, C \in SUBSET U : C \subseteq B /\ C # B => <<C, B>> \in R
  BY DEF StrictSubsetOrdering
<1> HIDE DEF R
<1>3. PICK B \in Bad : \A C \in Bad : ~(<<C, B>> \in R)
  BY <1>1, WFMin
<1> QED BY <1>2, <1>3

-----------------------------------------------------------------------------
(* Sums of weights *)

\* The member a sum takes next.
Pick(s) == CHOOSE x \in s : TRUE

\* The summation that MapThenSumSet recurses by: g is its table.
Summed(g, w, s) == IF s = {} THEN 0 ELSE w[Pick(s)] + g[s \ {Pick(s)}]

IsSum(g, w, S) == g = [s \in SUBSET S |-> Summed(g, w, s)]

\* WeightOf is the last entry of such a table.
LEMMA WeightUnfolds ==
    ASSUME NEW w, NEW S
    PROVE  WeightOf(w, S) = (CHOOSE g : IsSum(g, w, S))[S]
BY DEF WeightOf, MapThenSumSet, MapThenFoldSet, IsSum, Summed, Pick

\* A nonempty set has the member that is picked.
LEMMA PickIn == ASSUME NEW s, s # {} PROVE Pick(s) \in s
BY DEF Pick

\* The table exists: each round of the recursion gets the sets of one more
\* member right.
LEMMA SumExists ==
    ASSUME NEW w, NEW S, IsFiniteSet(S)
    PROVE  \E g : IsSum(g, w, S)
<1> DEFINE Right(g, n) == \A s \in SUBSET S : Cardinality(s) <= n => g[s] = Summed(g, w, s)
           P == {n \in Nat : \E g : DOMAIN g = SUBSET S /\ g = [s \in SUBSET S |-> g[s]] /\ Right(g, n)}
<1>0. \A s \in SUBSET S : IsFiniteSet(s) /\ Cardinality(s) \in Nat
  BY FS_Subset, FS_CardinalityType
<1>1. 0 \in P
  <2> DEFINE g == [s \in SUBSET S |-> 0]
  <2>1. \A s \in SUBSET S : Cardinality(s) <= 0 => s = {}
    BY <1>0, FS_EmptySet
  <2>2. Right(g, 0)
    BY <2>1 DEF Summed
  <2> QED BY <2>2
<1>2. ASSUME NEW n \in P PROVE n + 1 \in P
  <2>1. PICK g : DOMAIN g = SUBSET S /\ Right(g, n)
    OBVIOUS
  <2> DEFINE h == [s \in SUBSET S |-> Summed(g, w, s)]
  <2>2. ASSUME NEW s \in SUBSET S, Cardinality(s) <= n + 1
        PROVE  h[s] = Summed(h, w, s)
    <3>1. CASE s = {}
      BY <3>1 DEF Summed
    <3>2. CASE s # {}
      <4>1. Pick(s) \in s
        BY <3>2, PickIn
      <4> DEFINE u == s \ {Pick(s)}
      <4>2. u \in SUBSET S /\ Cardinality(u) = Cardinality(s) - 1
        BY <1>0, <4>1, FS_RemoveElement
      <4>3. Cardinality(u) <= n
        BY <1>0, <2>2, <4>2
      <4>4. g[u] = Summed(g, w, u)
        BY <2>1, <4>2, <4>3
      <4>5. h[u] = g[u]
        BY <4>2, <4>4
      <4> QED BY <3>2, <4>5 DEF Summed
    <3> QED BY <3>1, <3>2
  <2>3. Right(h, n + 1)
    BY <2>2
  <2>4. DOMAIN h = SUBSET S /\ h = [s \in SUBSET S |-> h[s]] /\ n + 1 \in Nat
    OBVIOUS
  <2> HIDE DEF h, Right
  <2> QED BY <2>3, <2>4
<1>3. P = Nat
  <2> HIDE DEF P
  <2>1. P \in SUBSET Nat
    BY DEF P
  <2> QED BY <1>1, <1>2, <2>1, Climb
<1>4. Cardinality(S) \in P
  BY <1>0, <1>3
<1>5. PICK g : g = [s \in SUBSET S |-> g[s]] /\ Right(g, Cardinality(S))
  BY <1>4
<1>6. \A s \in SUBSET S : Cardinality(s) <= Cardinality(S)
  BY FS_Subset
<1>7. \A s \in SUBSET S : g[s] = Summed(g, w, s)
  BY <1>5, <1>6
<1>8. [s \in SUBSET S |-> g[s]] = [s \in SUBSET S |-> Summed(g, w, s)]
  BY <1>7
<1>9. IsSum(g, w, S)
  BY <1>5, <1>8 DEF IsSum
<1> QED BY <1>9

\* Two tables agree where both are defined.
LEMMA SumUnique ==
    ASSUME NEW w, NEW S, IsFiniteSet(S), NEW A \in SUBSET S, NEW B \in SUBSET S,
           NEW g, IsSum(g, w, A), NEW h, IsSum(h, w, B),
           NEW s \in SUBSET A, s \in SUBSET B
    PROVE  g[s] = h[s]
<1> DEFINE Bad == {t \in SUBSET S : t \subseteq A /\ t \subseteq B /\ g[t] # h[t]}
<1> SUFFICES ASSUME Bad # {} PROVE FALSE
  OBVIOUS
<1>1. PICK t \in Bad : \A u \in Bad : u \subseteq t => u = t
  <2>1. Bad \in SUBSET (SUBSET S)
    OBVIOUS
  <2> HIDE DEF Bad
  <2> QED BY <2>1, SmallestSet
<1>2. g[t] = Summed(g, w, t) /\ h[t] = Summed(h, w, t)
  BY <1>1 DEF IsSum
<1>3. t # {}
  BY <1>1, <1>2 DEF Summed
<1>4. Pick(t) \in t
  BY <1>3, PickIn
<1>5. t \ {Pick(t)} \notin Bad
  BY <1>1, <1>4
<1>6. g[t \ {Pick(t)}] = h[t \ {Pick(t)}]
  BY <1>1, <1>5
<1> QED BY <1>1, <1>2, <1>6 DEF Summed

\* What WeightOf computes, one chosen member at a time.
LEMMA WeightPick ==
    ASSUME NEW w, NEW S, IsFiniteSet(S)
    PROVE  /\ S = {} => WeightOf(w, S) = 0
           /\ S # {} => WeightOf(w, S) = w[Pick(S)] + WeightOf(w, S \ {Pick(S)})
<1> DEFINE g == CHOOSE g : IsSum(g, w, S)
           u == S \ {Pick(S)}
           h == CHOOSE h : IsSum(h, w, u)
<1>1. IsSum(g, w, S) /\ WeightOf(w, S) = g[S]
  BY SumExists, WeightUnfolds
<1>2. IsFiniteSet(u) /\ u \in SUBSET S
  BY FS_Subset
<1>3. IsSum(h, w, u) /\ WeightOf(w, u) = h[u]
  BY <1>2, SumExists, WeightUnfolds
<1> HIDE DEF g, h
<1>4. g[S] = Summed(g, w, S)
  BY <1>1 DEF IsSum
<1>5. g[u] = h[u]
  BY <1>1, <1>2, <1>3, SumUnique
<1> QED BY <1>1, <1>3, <1>4, <1>5 DEF Summed

\* The weights the chain gives, and the ones the cap leaves.
WeightTable == [Validator -> Nat \ {0}]

\* Sets of members are finite and no larger than the whole set.
LEMMA ValidatorsFinite ==
    ASSUME NEW S \in SUBSET Validator
    PROVE  IsFiniteSet(S) /\ Cardinality(S) \in Nat /\ Cardinality(S) <= Cardinality(Validator)
BY ValidatorsAssumption, FS_Subset, FS_CardinalityType

\* A sum of weights is a natural number.
LEMMA WeightType ==
    ASSUME NEW w \in WeightTable, NEW S \in SUBSET Validator
    PROVE  WeightOf(w, S) \in Nat
<1> DEFINE Bad == {t \in SUBSET Validator : WeightOf(w, t) \notin Nat}
<1> SUFFICES ASSUME Bad # {} PROVE FALSE
  OBVIOUS
<1>1. PICK t \in Bad : \A u \in Bad : u \subseteq t => u = t
  <2>1. Bad \in SUBSET (SUBSET Validator)
    OBVIOUS
  <2> HIDE DEF Bad
  <2> QED BY <2>1, SmallestSet, ValidatorsAssumption
<1>2. t \in SUBSET Validator /\ WeightOf(w, t) \notin Nat /\ IsFiniteSet(t)
  BY <1>1, ValidatorsFinite
<1>3. t # {}
  <2>1. t = {} => WeightOf(w, t) = 0
    BY <1>2, WeightPick
  <2> QED BY <1>2, <2>1
<1>4. Pick(t) \in t
  BY <1>3, PickIn
<1>5. WeightOf(w, t \ {Pick(t)}) \in Nat
  BY <1>1, <1>4
<1>6. w[Pick(t)] \in Nat
  BY <1>2, <1>4 DEF WeightTable
<1> QED BY <1>2, <1>3, <1>5, <1>6, WeightPick

\* The order in which MapThenSumSet takes the members does not matter.
LEMMA WeightRemove ==
    ASSUME NEW w \in WeightTable, NEW S \in SUBSET Validator, NEW x \in S
    PROVE  WeightOf(w, S) = w[x] + WeightOf(w, S \ {x})
<1> DEFINE Bad == {t \in SUBSET Validator : \E y \in t : WeightOf(w, t) # w[y] + WeightOf(w, t \ {y})}
<1> SUFFICES ASSUME Bad # {} PROVE FALSE
  OBVIOUS
<1>1. PICK t \in Bad : \A u \in Bad : u \subseteq t => u = t
  <2>1. Bad \in SUBSET (SUBSET Validator)
    OBVIOUS
  <2> HIDE DEF Bad
  <2> QED BY <2>1, SmallestSet, ValidatorsAssumption
<1>2. PICK y \in t : WeightOf(w, t) # w[y] + WeightOf(w, t \ {y})
  BY <1>1
<1> DEFINE c == Pick(t)
           both == t \ {y, c}
<1>3. t \in SUBSET Validator /\ t # {} /\ IsFiniteSet(t) /\ c \in t
  BY <1>1, <1>2, ValidatorsFinite, PickIn
<1>4. WeightOf(w, t) = w[c] + WeightOf(w, t \ {c})
  BY <1>3, WeightPick
<1>5. y # c
  BY <1>2, <1>4
<1> HIDE DEF c
<1>6. t \ {c} \notin Bad /\ t \ {y} \notin Bad
  BY <1>1, <1>2, <1>3
<1>7. /\ (t \ {c}) \ {y} = both /\ (t \ {y}) \ {c} = both
      /\ y \in t \ {c} /\ c \in t \ {y}
      /\ t \ {c} \in SUBSET Validator /\ t \ {y} \in SUBSET Validator /\ both \in SUBSET Validator
  BY <1>2, <1>3, <1>5
<1>8. WeightOf(w, t \ {c}) = w[y] + WeightOf(w, both)
  BY <1>6, <1>7
<1>9. WeightOf(w, t \ {y}) = w[c] + WeightOf(w, both)
  BY <1>6, <1>7
<1>10. WeightOf(w, both) \in Nat /\ w[c] \in Nat /\ w[y] \in Nat
  BY <1>2, <1>3, <1>7, WeightType DEF WeightTable
<1> HIDE DEF both
<1> QED BY <1>2, <1>4, <1>8, <1>9, <1>10

\* A vote more is its weight more.
LEMMA WeightAdd ==
    ASSUME NEW w \in WeightTable, NEW S \in SUBSET Validator, NEW x \in Validator \ S
    PROVE  WeightOf(w, S \cup {x}) = WeightOf(w, S) + w[x]
<1>1. (S \cup {x}) \ {x} = S /\ x \in S \cup {x} /\ S \cup {x} \in SUBSET Validator
  OBVIOUS
<1>2. WeightOf(w, S \cup {x}) = w[x] + WeightOf(w, S)
  BY <1>1, WeightRemove
<1>3. WeightOf(w, S) \in Nat /\ w[x] \in Nat
  BY WeightType DEF WeightTable
<1> QED BY <1>2, <1>3

\* What two sets of signers share is counted twice.
LEMMA WeightUnion ==
    ASSUME NEW w \in WeightTable, NEW A \in SUBSET Validator, NEW B \in SUBSET Validator
    PROVE  WeightOf(w, A) + WeightOf(w, B) = WeightOf(w, A \cup B) + WeightOf(w, A \cap B)
<1> DEFINE Bad == {t \in SUBSET Validator :
                     WeightOf(w, A) + WeightOf(w, t) # WeightOf(w, A \cup t) + WeightOf(w, A \cap t)}
<1> SUFFICES ASSUME Bad # {} PROVE FALSE
  OBVIOUS
<1>1. PICK t \in Bad : \A u \in Bad : u \subseteq t => u = t
  <2>1. Bad \in SUBSET (SUBSET Validator)
    OBVIOUS
  <2> HIDE DEF Bad
  <2> QED BY <2>1, SmallestSet, ValidatorsAssumption
<1>2. t \in SUBSET Validator
      /\ WeightOf(w, A) + WeightOf(w, t) # WeightOf(w, A \cup t) + WeightOf(w, A \cap t)
  BY <1>1
<1>3. t # {}
  <2>1. A \cup {} = A /\ A \cap {} = {}
    OBVIOUS
  <2> QED BY <1>2, <2>1
<1>4. PICK x \in t : TRUE
  BY <1>3
<1> DEFINE u == t \ {x}
<1>5. u \in SUBSET Validator /\ u \notin Bad /\ x \in Validator /\ x \notin u /\ u \cup {x} = t
  BY <1>1, <1>2, <1>4
<1>6. WeightOf(w, A) + WeightOf(w, u) = WeightOf(w, A \cup u) + WeightOf(w, A \cap u)
  BY <1>5
<1> HIDE DEF u, Bad
<1>7. WeightOf(w, t) = WeightOf(w, u) + w[x]
  BY <1>5, WeightAdd
<1>8. /\ WeightOf(w, A) \in Nat /\ WeightOf(w, u) \in Nat /\ w[x] \in Nat
      /\ WeightOf(w, A \cup u) \in Nat /\ WeightOf(w, A \cap u) \in Nat
  <2>1. A \cup u \in SUBSET Validator /\ A \cap u \in SUBSET Validator
    BY <1>5
  <2> QED BY <1>5, <2>1, WeightType DEF WeightTable
<1>9. CASE x \in A
  <2>1. A \cup t = A \cup u /\ A \cap t = (A \cap u) \cup {x} /\ x \notin A \cap u
        /\ A \cap u \in SUBSET Validator
    BY <1>5, <1>9
  <2>2. WeightOf(w, A \cap t) = WeightOf(w, A \cap u) + w[x]
    BY <1>5, <2>1, WeightAdd
  <2>3. WeightOf(w, A \cup t) = WeightOf(w, A \cup u)
    BY <2>1
  <2> QED BY <1>2, <1>6, <1>7, <1>8, <2>2, <2>3
<1>10. CASE x \notin A
  <2>1. A \cup t = (A \cup u) \cup {x} /\ A \cap t = A \cap u /\ x \notin A \cup u
        /\ A \cup u \in SUBSET Validator
    BY <1>5, <1>10
  <2>2. WeightOf(w, A \cup t) = WeightOf(w, A \cup u) + w[x]
    BY <1>5, <2>1, WeightAdd
  <2>3. WeightOf(w, A \cap t) = WeightOf(w, A \cap u)
    BY <2>1
  <2> QED BY <1>2, <1>6, <1>7, <1>8, <2>2, <2>3
<1> QED BY <1>9, <1>10

\* A part and the rest.
LEMMA WeightSplit ==
    ASSUME NEW w \in WeightTable, NEW B \in SUBSET Validator, NEW A \in SUBSET B
    PROVE  /\ WeightOf(w, B) = WeightOf(w, A) + WeightOf(w, B \ A)
           /\ WeightOf(w, A) <= WeightOf(w, B)
<1>1. /\ A \cup (B \ A) = B /\ A \cap (B \ A) = {}
      /\ A \in SUBSET Validator /\ B \ A \in SUBSET Validator
  OBVIOUS
<1>2. WeightOf(w, A) + WeightOf(w, B \ A) = WeightOf(w, B) + WeightOf(w, {})
  BY <1>1, WeightUnion
<1>3. WeightOf(w, {}) = 0
  BY WeightPick, FS_EmptySet
<1>4. WeightOf(w, A) \in Nat /\ WeightOf(w, B \ A) \in Nat /\ WeightOf(w, B) \in Nat
  BY <1>1, WeightType
<1> QED BY <1>2, <1>3, <1>4

\* Members of weight one are counted.
LEMMA WeightOfOnes ==
    ASSUME NEW w \in WeightTable, \A p \in Validator : w[p] = 1, NEW S \in SUBSET Validator
    PROVE  WeightOf(w, S) = Cardinality(S)
<1> DEFINE Bad == {t \in SUBSET Validator : WeightOf(w, t) # Cardinality(t)}
<1> SUFFICES ASSUME Bad # {} PROVE FALSE
  OBVIOUS
<1>1. PICK t \in Bad : \A u \in Bad : u \subseteq t => u = t
  <2>1. Bad \in SUBSET (SUBSET Validator)
    OBVIOUS
  <2> HIDE DEF Bad
  <2> QED BY <2>1, SmallestSet, ValidatorsAssumption
<1>2. t \in SUBSET Validator /\ WeightOf(w, t) # Cardinality(t) /\ IsFiniteSet(t)
  BY <1>1, ValidatorsFinite
<1>3. t # {}
  BY <1>2, WeightPick, FS_EmptySet
<1>4. PICK x \in t : TRUE
  BY <1>3
<1>5. t \ {x} \notin Bad /\ t \ {x} \in SUBSET Validator /\ w[x] = 1
  BY <1>1, <1>2, <1>4
<1>6. WeightOf(w, t) = 1 + Cardinality(t \ {x})
  BY <1>2, <1>4, <1>5, WeightRemove
<1>7. Cardinality(t \ {x}) = Cardinality(t) - 1 /\ Cardinality(t) \in Nat
  BY <1>2, <1>4, FS_RemoveElement, ValidatorsFinite
<1> QED BY <1>2, <1>6, <1>7

-----------------------------------------------------------------------------
(* The cap *)

\* Max of a nonempty bounded set of naturals is its greatest member.
LEMMA MaxIsGreatest ==
    ASSUME NEW n \in Nat, NEW S, S \subseteq 0 .. n, S # {}
    PROVE  Max(S) \in S /\ \A y \in S : y <= Max(S)
<1> DEFINE T == {k \in Nat : n - k \in S}
<1>1. T \subseteq Nat
  OBVIOUS
<1>2. PICK z \in S : TRUE
  OBVIOUS
<1>3. n - z \in Nat /\ n - (n - z) = z
  BY <1>2
<1>4. n - z \in T
  BY <1>3
<1>5. PICK x \in T : \A y \in T : x <= y
  <2> HIDE DEF T
  <2> QED BY <1>1, <1>4, LeastNatural
<1>6. ASSUME NEW y \in S PROVE n - x >= y
  <2>1. y \in 0 .. n /\ n - y \in Nat /\ n - (n - y) = y
    OBVIOUS
  <2>2. n - y \in T
    BY <2>1
  <2> QED BY <2>1, <2>2, <1>5
<1>7. n - x \in S
  BY <1>5
<1>8. Max(S) \in S /\ \A y \in S : Max(S) >= y
  BY <1>6, <1>7 DEF Max
<1>9. ASSUME NEW y \in S PROVE y <= Max(S)
  BY <1>8
<1> QED BY <1>8, <1>9

\* Min of two numbers.
LEMMA MinOfTwo ==
    ASSUME NEW a \in Nat, NEW b \in Nat
    PROVE  Min({a, b}) = IF a <= b THEN a ELSE b
<1> DEFINE m == IF a <= b THEN a ELSE b
<1>1. m \in {a, b} /\ \A y \in {a, b} : m =< y
  OBVIOUS
<1>2. Min({a, b}) \in {a, b} /\ \A y \in {a, b} : Min({a, b}) =< y
  BY <1>1 DEF Min
<1> QED BY <1>1, <1>2

\* The count of members and of faults.
LEMMA Numbers ==
    /\ Cardinality(Validator) \in Nat /\ Cardinality(Validator) > 0
    /\ Faults(Cardinality(Validator)) \in Nat
    /\ Faults(Cardinality(Validator)) <= Cardinality(Validator)
    /\ Cardinality(Validator) >= 4 => Faults(Cardinality(Validator)) > 0
<1>1. Cardinality(Validator) \in Nat /\ Cardinality(Validator) > 0
  BY ValidatorsAssumption, FS_CardinalityType, FS_EmptySet
<1> QED BY <1>1 DEF Faults

\* One member weighs no more than all of them.
LEMMA OneOfAll ==
    ASSUME NEW w \in WeightTable, NEW p \in Validator
    PROVE  w[p] <= WeightOf(w, Validator)
<1>1. {p} \in SUBSET Validator /\ {p} \ {p} = {} /\ IsFiniteSet({})
  BY FS_EmptySet
<1>2. WeightOf(w, {p}) = w[p] + WeightOf(w, {}) /\ WeightOf(w, {}) = 0
  BY <1>1, WeightRemove, WeightPick
<1>3. WeightOf(w, {p}) <= WeightOf(w, Validator)
  BY <1>1, WeightSplit
<1>4. w[p] \in Nat
  BY DEF WeightTable
<1> QED BY <1>2, <1>3, <1>4

\* The largest weight of a set.
LEMMA LargestWeight ==
    ASSUME NEW w \in WeightTable
    PROVE  LET m == Max({w[p] : p \in Validator})
           IN  /\ m \in Nat \ {0}
               /\ \A p \in Validator : w[p] <= m
<1> DEFINE T == {w[p] : p \in Validator}
           n == WeightOf(w, Validator)
<1>1. n \in Nat
  BY WeightType
<1>2. ASSUME NEW y \in T PROVE y \in 0 .. n /\ y # 0
  <2>1. PICK p \in Validator : y = w[p]
    OBVIOUS
  <2>2. w[p] \in Nat \ {0} /\ w[p] <= n
    BY OneOfAll DEF WeightTable
  <2> QED BY <1>1, <2>1, <2>2
<1>3. T \subseteq 0 .. n /\ T # {}
  BY <1>2, ValidatorsAssumption
<1>5. \A p \in Validator : w[p] \in T
  OBVIOUS
<1> HIDE DEF T, n
<1>4. Max(T) \in T /\ \A y \in T : y <= Max(T)
  BY <1>1, <1>3, MaxIsGreatest
<1>6. Max(T) \in Nat \ {0} /\ \A p \in Validator : w[p] <= Max(T)
  BY <1>1, <1>2, <1>4, <1>5
<1> QED BY <1>6 DEF T

\* cap_entries: no weight exceeds the cap, none grows, none vanishes.
LEMMA CapTable ==
    ASSUME NEW w \in WeightTable, NEW cap \in Nat \ {0}
    PROVE  /\ CapEntries(cap, w) \in WeightTable
           /\ \A p \in Validator : CapEntries(cap, w)[p] = IF w[p] <= cap THEN w[p] ELSE cap
<1>1. \A p \in Validator : w[p] \in Nat \ {0}
  BY DEF WeightTable
<1>2. \A p \in Validator : CapEntries(cap, w)[p] = IF w[p] <= cap THEN w[p] ELSE cap
  BY <1>1, MinOfTwo DEF CapEntries
<1>3. CapEntries(cap, w) \in WeightTable
  BY <1>1, <1>2 DEF CapEntries, WeightTable
<1> QED BY <1>2, <1>3

\* A cap no weight exceeds changes nothing.
LEMMA CapAbove ==
    ASSUME NEW w \in WeightTable, NEW cap \in Nat \ {0}, \A p \in Validator : w[p] <= cap
    PROVE  CapEntries(cap, w) = w
<1>1. \A p \in Validator : CapEntries(cap, w)[p] = w[p]
  BY CapTable
<1> QED BY <1>1 DEF CapEntries, WeightTable

\* A set of members can be filled up to any larger number of them.
LEMMA FillUp ==
    ASSUME NEW C \in SUBSET Validator, NEW k \in Nat,
           Cardinality(C) <= k, k <= Cardinality(Validator)
    PROVE  \E T \in SUBSET Validator : C \subseteq T /\ Cardinality(T) = k
<1> DEFINE n == Cardinality(Validator)
           c == Cardinality(C)
           P == {j \in Nat : c + j <= n =>
                    \E T \in SUBSET Validator : C \subseteq T /\ Cardinality(T) = c + j}
<1>1. c \in Nat /\ n \in Nat
  BY ValidatorsFinite, Numbers
<1>2. 0 \in P
  BY <1>1
<1>3. ASSUME NEW j \in P PROVE j + 1 \in P
  <2> SUFFICES ASSUME c + (j + 1) <= n
               PROVE  \E T \in SUBSET Validator : C \subseteq T /\ Cardinality(T) = c + (j + 1)
    BY <1>3
  <2>1. PICK T \in SUBSET Validator : C \subseteq T /\ Cardinality(T) = c + j
    BY <1>1, <1>3
  <2>2. T # Validator
    BY <1>1, <1>3, <2>1
  <2>3. PICK x \in Validator : x \notin T
    BY <2>2
  <2>4. Cardinality(T \cup {x}) = c + j + 1
    BY <2>1, <2>3, FS_AddElement, ValidatorsFinite
  <2> QED BY <1>1, <1>3, <2>1, <2>4
<1>4. P = Nat
  <2>1. P \in SUBSET Nat
    OBVIOUS
  <2> HIDE DEF P
  <2> QED BY <1>2, <1>3, <2>1, Climb
<1>5. k - c \in P /\ c + (k - c) = k
  BY <1>1, <1>4
<1> QED BY <1>1, <1>5

\* largest_weight_sum: no group of that many members is heavier.
LEMMA LargestSum ==
    ASSUME NEW w \in WeightTable, NEW k \in Nat, k <= Cardinality(Validator)
    PROVE  /\ LargestWeightSum(k, w) \in Nat
           /\ \A S \in SUBSET Validator : Cardinality(S) <= k => WeightOf(w, S) <= LargestWeightSum(k, w)
           /\ \E S \in SUBSET Validator : Cardinality(S) = k /\ LargestWeightSum(k, w) = WeightOf(w, S)
<1> DEFINE T == {WeightOf(w, S) : S \in kSubset(k, Validator)}
           n == WeightOf(w, Validator)
<1>1. n \in Nat
  BY WeightType
<1>2. ASSUME NEW y \in T PROVE y \in 0 .. n
  <2>1. PICK S \in SUBSET Validator : y = WeightOf(w, S)
    BY DEF kSubset
  <2>2. WeightOf(w, S) \in Nat /\ WeightOf(w, S) <= n
    BY WeightType, WeightSplit
  <2> HIDE DEF n
  <2> QED BY <1>1, <2>1, <2>2
<1>3. \E S \in SUBSET Validator : {} \subseteq S /\ Cardinality(S) = k
  <2>1. Cardinality({}) = 0 /\ {} \in SUBSET Validator
    BY FS_EmptySet
  <2> QED BY <2>1, FillUp
<1>4. T # {}
  BY <1>3 DEF kSubset
<1>5. LargestWeightSum(k, w) = Max(T)
  BY DEF LargestWeightSum
<1>6. Max(T) \in T /\ \A y \in T : y <= Max(T)
  <2> HIDE DEF T, n
  <2> QED BY <1>1, <1>2, <1>4, MaxIsGreatest
<1>7. Max(T) \in Nat
  BY <1>1, <1>2, <1>6
<1>8. PICK S \in SUBSET Validator : Cardinality(S) = k /\ Max(T) = WeightOf(w, S)
  BY <1>6 DEF kSubset
<1>9. ASSUME NEW C \in SUBSET Validator, Cardinality(C) <= k
      PROVE  WeightOf(w, C) <= Max(T)
  <2>1. PICK D \in SUBSET Validator : C \subseteq D /\ Cardinality(D) = k
    BY <1>9, FillUp
  <2>2. WeightOf(w, C) <= WeightOf(w, D) /\ WeightOf(w, C) \in Nat /\ WeightOf(w, D) \in Nat
    BY <2>1, WeightSplit, WeightType
  <2>3. WeightOf(w, D) \in T
    BY <2>1 DEF kSubset
  <2>4. WeightOf(w, D) <= Max(T)
    BY <2>3, <1>6
  <2> HIDE DEF T
  <2> QED BY <2>2, <2>4, <1>7
<1> HIDE DEF T
<1> QED BY <1>5, <1>7, <1>8, <1>9

\* A cap that keeps the chain live: whoever up to f members are, the others
\* carry a quorum of the capped weight.
LEMMA LiveMeans ==
    ASSUME NEW w \in WeightTable, NEW cap \in Nat \ {0},
           CountLiveAtCap(Faults(Cardinality(Validator)), cap, w),
           NEW S \in SUBSET Validator,
           Cardinality(S) >= Cardinality(Validator) - Faults(Cardinality(Validator))
    PROVE  WeightOf(CapEntries(cap, w), S) >= QuorumWeight(WeightOf(CapEntries(cap, w), Validator))
<1> DEFINE u == CapEntries(cap, w)
           n == Cardinality(Validator)
           f == Faults(n)
           C == Validator \ S
           total == WeightOf(u, Validator)
<1>1. u \in WeightTable
  BY CapTable
<1>2. n \in Nat /\ f \in Nat /\ f <= n /\ Cardinality(S) \in Nat
  BY Numbers, ValidatorsFinite
<1>3. Cardinality(C) = n - Cardinality(S)
  <2>1. Validator \cap S = S
    OBVIOUS
  <2> QED BY <2>1, FS_Difference, ValidatorsAssumption
<1>4. total - LargestWeightSum(f, u) >= QuorumWeight(total)
  BY DEF CountLiveAtCap
<1>5. C \in SUBSET Validator /\ Validator \ C = S
  OBVIOUS
<1> HIDE DEF u, n, f, C
<1>6. Cardinality(C) <= f
  BY <1>2, <1>3 DEF n, f
<1>7. WeightOf(u, C) <= LargestWeightSum(f, u) /\ LargestWeightSum(f, u) \in Nat
  BY <1>1, <1>2, <1>5, <1>6, LargestSum DEF n
<1>8. total = WeightOf(u, C) + WeightOf(u, S)
  BY <1>1, <1>5, WeightSplit
<1>9. total \in Nat /\ WeightOf(u, C) \in Nat /\ WeightOf(u, S) \in Nat
  BY <1>1, <1>5, WeightType
<1>10. QuorumWeight(total) \in Int
  BY <1>9 DEF QuorumWeight
<1> HIDE DEF total
<1>11. WeightOf(u, S) >= QuorumWeight(total)
  BY <1>4, <1>7, <1>8, <1>9, <1>10
<1> QED BY <1>11 DEF u, total

\* With a cap of one every member counts the same, and the others of f are a
\* quorum: the search of count_weight_cap starts from a cap that is live.
LEMMA LiveAtOne ==
    ASSUME NEW w \in WeightTable, Cardinality(Validator) >= 4
    PROVE  CountLiveAtCap(Faults(Cardinality(Validator)), 1, w)
<1> DEFINE u == CapEntries(1, w)
           n == Cardinality(Validator)
           f == Faults(n)
<1>1. u \in WeightTable /\ \A p \in Validator : u[p] = 1
  <2>1. \A p \in Validator : w[p] \in Nat \ {0}
    BY DEF WeightTable
  <2>2. u \in WeightTable /\ \A p \in Validator : u[p] = IF w[p] <= 1 THEN w[p] ELSE 1
    BY CapTable
  <2> HIDE DEF u
  <2> QED BY <2>1, <2>2
<1>2. n \in Nat /\ f \in Nat /\ f <= n
  BY Numbers
<1> HIDE DEF u
<1>3. WeightOf(u, Validator) = n
  BY <1>1, WeightOfOnes
<1>4. LargestWeightSum(f, u) = f
  <2>1. PICK S \in SUBSET Validator : Cardinality(S) = f /\ LargestWeightSum(f, u) = WeightOf(u, S)
    BY <1>1, <1>2, LargestSum
  <2> QED BY <1>1, <2>1, WeightOfOnes
<1>5. n - f >= QuorumWeight(n)
  BY <1>2 DEF f, Faults, QuorumWeight
<1> QED BY <1>3, <1>4, <1>5 DEF CountLiveAtCap, u

-----------------------------------------------------------------------------
(* The search for the cap *)

\* One step of the binary search of count_weight_cap; g is its table.
Searched(g, f, w, b) ==
    LET middle == (b[1] + b[2] + 1) \div 2
    IN  IF b[1] >= b[2] THEN b[1]
        ELSE IF CountLiveAtCap(f, middle, w) THEN g[<<middle, b[2]>>]
        ELSE g[<<b[1], middle - 1>>]

IsSearch(g, f, w, m) == g = [b \in (1 .. m) \X (1 .. m) |-> Searched(g, f, w, b)]

\* count_weight_cap is the largest weight or the outcome of the search.
LEMMA CapUnfolds ==
    ASSUME NEW v
    PROVE  CountWeightCap(v) =
              LET maximum == Max({v.weight[p] : p \in Validator})
              IN  IF v.f <= 0 \/ CountLiveAtCap(v.f, maximum, v.weight) THEN maximum
                  ELSE (CHOOSE g : IsSearch(g, v.f, v.weight, maximum))[<<1, maximum>>]
BY DEF CountWeightCap, IsSearch, Searched

\* The middle lies between, above the lower end.
LEMMA Middle ==
    ASSUME NEW lo \in Nat, NEW hi \in Nat, lo < hi
    PROVE  /\ (lo + hi + 1) \div 2 \in Nat
           /\ lo < (lo + hi + 1) \div 2
           /\ (lo + hi + 1) \div 2 <= hi
OBVIOUS

\* The search comes to an end, so its table exists: each turn gets the intervals
\* that are one wider right.
LEMMA SearchExists ==
    ASSUME NEW f, NEW w, NEW m \in Nat
    PROVE  \E g : IsSearch(g, f, w, m)
<1> DEFINE D == (1 .. m) \X (1 .. m)
           Right(g, n) == \A lo, hi \in 1 .. m :
                             hi - lo <= n => g[<<lo, hi>>] = Searched(g, f, w, <<lo, hi>>)
           P == {n \in Nat : \E g : g = [b \in D |-> g[b]] /\ Right(g, n)}
<1>1. 0 \in P
  <2> DEFINE g == [b \in D |-> b[1]]
  <2>1. ASSUME NEW lo \in 1 .. m, NEW hi \in 1 .. m, hi - lo <= 0
        PROVE  g[<<lo, hi>>] = Searched(g, f, w, <<lo, hi>>)
    <3>1. lo >= hi /\ <<lo, hi>> \in D /\ <<lo, hi>>[1] = lo /\ <<lo, hi>>[2] = hi
      BY <2>1
    <3>2. Searched(g, f, w, <<lo, hi>>) = lo
      BY <3>1 DEF Searched
    <3> QED BY <3>1, <3>2
  <2>2. g = [b \in D |-> g[b]]
    OBVIOUS
  <2> HIDE DEF g
  <2> QED BY <2>1, <2>2
<1>2. ASSUME NEW n \in P PROVE n + 1 \in P
  <2>0. n \in Nat
    BY <1>2
  <2>1. PICK g : Right(g, n)
    BY <1>2
  <2> DEFINE h == [b \in D |-> Searched(g, f, w, b)]
  <2>2. ASSUME NEW lo \in 1 .. m, NEW hi \in 1 .. m, hi - lo <= n
        PROVE  h[<<lo, hi>>] = g[<<lo, hi>>]
    BY <2>1, <2>2
  <2>3. ASSUME NEW lo \in 1 .. m, NEW hi \in 1 .. m, hi - lo <= n + 1
        PROVE  h[<<lo, hi>>] = Searched(h, f, w, <<lo, hi>>)
    <3> DEFINE mid == (lo + hi + 1) \div 2
    <3>1. h[<<lo, hi>>] = Searched(g, f, w, <<lo, hi>>)
      OBVIOUS
    <3>2. <<lo, hi>>[1] = lo /\ <<lo, hi>>[2] = hi
      OBVIOUS
    <3> HIDE DEF h
    <3>3. CASE lo >= hi
      BY <3>1, <3>2, <3>3 DEF Searched
    <3>4. CASE lo < hi
      <4>1. mid \in 1 .. m /\ mid - 1 \in 1 .. m /\ hi - mid <= n /\ (mid - 1) - lo <= n
        BY <2>0, <2>3, <3>4, Middle
      <4>2. h[<<mid, hi>>] = g[<<mid, hi>>] /\ h[<<lo, mid - 1>>] = g[<<lo, mid - 1>>]
        BY <2>2, <4>1
      <4> QED BY <3>1, <3>2, <4>2 DEF Searched
    <3> QED BY <3>3, <3>4
  <2>4. h = [b \in D |-> h[b]]
    OBVIOUS
  <2>5. n + 1 \in Nat
    BY <2>0
  <2> HIDE DEF h
  <2>6. Right(h, n + 1)
    BY <2>3
  <2> HIDE DEF Right
  <2> QED BY <2>4, <2>5, <2>6
<1>3. P = Nat
  <2>1. P \in SUBSET Nat
    OBVIOUS
  <2> HIDE DEF P
  <2> QED BY <1>1, <1>2, <2>1, Climb
<1>4. PICK g : g = [b \in D |-> g[b]] /\ Right(g, m)
  BY <1>3
<1>5. ASSUME NEW b \in D PROVE g[b] = Searched(g, f, w, b)
  <2>1. PICK lo \in 1 .. m, hi \in 1 .. m : b = <<lo, hi>>
    OBVIOUS
  <2>2. hi - lo <= m
    BY <2>1
  <2> QED BY <1>4, <2>1, <2>2
<1>6. [b \in D |-> g[b]] = [b \in D |-> Searched(g, f, w, b)]
  BY <1>5
<1>7. IsSearch(g, f, w, m)
  BY <1>4, <1>6 DEF IsSearch
<1> QED BY <1>7

\* From a live lower end the search returns a live cap of the interval.
LEMMA SearchFinds ==
    ASSUME NEW f, NEW w, NEW m \in Nat, NEW g, IsSearch(g, f, w, m),
           NEW a \in 1 .. m, NEW z \in 1 .. m, a <= z, CountLiveAtCap(f, a, w)
    PROVE  g[<<a, z>>] \in 1 .. m /\ CountLiveAtCap(f, g[<<a, z>>], w)
<1> DEFINE Good(c) == c \in 1 .. m /\ CountLiveAtCap(f, c, w)
           P == {n \in Nat : \A lo, hi \in 1 .. m :
                    lo <= hi /\ hi - lo <= n /\ CountLiveAtCap(f, lo, w) => Good(g[<<lo, hi>>])}
<1>0. \A lo, hi \in 1 .. m : g[<<lo, hi>>] = Searched(g, f, w, <<lo, hi>>)
  BY DEF IsSearch
<1>1. 0 \in P
  <2>1. ASSUME NEW lo \in 1 .. m, NEW hi \in 1 .. m, lo <= hi, hi - lo <= 0,
               CountLiveAtCap(f, lo, w)
        PROVE  Good(g[<<lo, hi>>])
    <3>1. lo >= hi
      BY <2>1
    <3>2. g[<<lo, hi>>] = lo
      BY <1>0, <3>1 DEF Searched
    <3> QED BY <2>1, <3>2
  <2> QED BY <2>1
<1>2. ASSUME NEW n \in P PROVE n + 1 \in P
  <2>1. ASSUME NEW lo \in 1 .. m, NEW hi \in 1 .. m, lo <= hi, hi - lo <= n + 1,
               CountLiveAtCap(f, lo, w)
        PROVE  Good(g[<<lo, hi>>])
    <3> DEFINE mid == (lo + hi + 1) \div 2
    <3>0. n \in Nat
      BY <1>2
    <3>1. CASE lo >= hi
      <4>1. g[<<lo, hi>>] = lo
        BY <1>0, <3>1 DEF Searched
      <4> QED BY <2>1, <4>1
    <3>2. CASE lo < hi
      <4>1. /\ mid \in 1 .. m /\ mid - 1 \in 1 .. m /\ hi - mid <= n /\ (mid - 1) - lo <= n
            /\ mid <= hi /\ lo <= mid - 1 /\ ~(lo >= hi)
        BY <2>1, <3>0, <3>2, Middle
      <4>2. g[<<lo, hi>>] = IF CountLiveAtCap(f, mid, w) THEN g[<<mid, hi>>]
                            ELSE g[<<lo, mid - 1>>]
        BY <1>0, <4>1 DEF Searched
      <4>3. CountLiveAtCap(f, mid, w) => Good(g[<<mid, hi>>])
        BY <1>2, <4>1
      <4>4. Good(g[<<lo, mid - 1>>])
        BY <1>2, <2>1, <4>1
      <4> HIDE DEF mid
      <4> QED BY <4>2, <4>3, <4>4
    <3> QED BY <3>1, <3>2
  <2> QED BY <1>2, <2>1
<1>3. P = Nat
  <2>1. P \in SUBSET Nat
    OBVIOUS
  <2> HIDE DEF P
  <2> QED BY <1>1, <1>2, <2>1, Climb
<1>4. m \in P /\ z - a <= m
  BY <1>3
<1> QED BY <1>4

\* count_weight_cap: the cap it returns is a weight's size and live.
LEMMA CapIsLive ==
    ASSUME NEW w \in WeightTable, NEW b, Cardinality(Validator) >= 4
    PROVE  LET v == BuildValidatorSet(w, b)
           IN  /\ CountWeightCap(v) \in Nat \ {0}
               /\ CountLiveAtCap(v.f, CountWeightCap(v), w)
<1> DEFINE v == BuildValidatorSet(w, b)
           m == Max({w[p] : p \in Validator})
           g == CHOOSE g : IsSearch(g, v.f, w, m)
<1>1. v.f = Faults(Cardinality(Validator)) /\ v.weight = w /\ v.f > 0 /\ v.f \in Nat
  BY Numbers DEF BuildValidatorSet
<1>2. m \in Nat \ {0}
  BY LargestWeight
<1>3. CountWeightCap(v) = IF CountLiveAtCap(v.f, m, w) THEN m ELSE g[<<1, m>>]
  <2>1. CountWeightCap(v) =
              LET maximum == Max({v.weight[p] : p \in Validator})
              IN  IF v.f <= 0 \/ CountLiveAtCap(v.f, maximum, v.weight) THEN maximum
                  ELSE (CHOOSE h : IsSearch(h, v.f, v.weight, maximum))[<<1, maximum>>]
    BY CapUnfolds
  <2> HIDE DEF v
  <2> QED BY <1>1, <2>1
<1>4. IsSearch(g, v.f, w, m)
  BY <1>2, SearchExists
<1>5. CountLiveAtCap(v.f, 1, w)
  BY <1>1, LiveAtOne
<1> HIDE DEF v, m, g
<1>6. g[<<1, m>>] \in 1 .. m /\ CountLiveAtCap(v.f, g[<<1, m>>], w)
  BY <1>2, <1>4, <1>5, SearchFinds
<1> QED BY <1>2, <1>3, <1>6 DEF v

-----------------------------------------------------------------------------
(* The sets and the counters *)

\* The chain's set, the engine's set and the vote sets.  The engine's set is
\* built anew from its weights; under the Capped rule, for four members and more,
\* these are live and of stake; the counters are those of the signers.
SetInv ==
    /\ given = BuildValidatorSet(given.weight, given.weighted)
    /\ given.weight \in WeightTable
    /\ given.weighted \in BOOLEAN
    /\ ~given.weighted => \A p \in Validator : given.weight[p] = 1
    /\ vs = ValidatorSetForRule(rule, given)

TallyInv ==
    /\ DOMAIN tally = Side
    /\ \A s \in Side :
          /\ DOMAIN tally[s] = {"votes", "count", "weight"}
          /\ tally[s].votes \in SUBSET Validator
          /\ tally[s].count = Cardinality(tally[s].votes)
          /\ tally[s].weight = WeightOf(vs.weight, tally[s].votes)

WeightInv == SetInv /\ TallyInv

\* The engine's set is the chain's, or the chain's under a live cap.
LEMMA EngineSet ==
    ASSUME SetInv
    PROVE  /\ vs = BuildValidatorSet(vs.weight, vs.weighted)
           /\ vs.weight \in WeightTable
           /\ vs.weighted = given.weighted
           /\ \/ vs = given /\ (rule = "capped" => ~given.weighted \/ Cardinality(Validator) < 4)
              \/ /\ rule = "capped" /\ given.weighted /\ Cardinality(Validator) >= 4
                 /\ \E cap \in Nat \ {0} :
                       /\ CountLiveAtCap(Faults(Cardinality(Validator)), cap, given.weight)
                       /\ vs.weight = CapEntries(cap, given.weight)
<1>1. CASE rule = "capped" /\ given.weighted /\ Cardinality(Validator) >= 4
  <2> DEFINE cap == CountWeightCap(given)
             u == CapEntries(cap, given.weight)
  <2>1. vs = BuildValidatorSet(u, TRUE)
    <3>1. ~(Cardinality(Validator) < 4)
      BY <1>1, Numbers
    <3> QED BY <1>1, <3>1 DEF SetInv, ValidatorSetForRule, CountCappedSet
  <2>2. vs.weight = u /\ vs.weighted = TRUE
    BY <2>1 DEF BuildValidatorSet
  <2>3. /\ cap \in Nat \ {0}
        /\ CountLiveAtCap(Faults(Cardinality(Validator)), cap, given.weight)
    <3>1. given.f = Faults(Cardinality(Validator))
      BY DEF SetInv, BuildValidatorSet
    <3>2. given = BuildValidatorSet(given.weight, given.weighted) /\ given.weight \in WeightTable
      BY DEF SetInv
    <3> QED BY <1>1, <3>1, <3>2, CapIsLive
  <2>4. u \in WeightTable
    BY <2>3, CapTable DEF SetInv
  <2>5. given.weighted = TRUE
    BY <1>1, <2>1 DEF SetInv, BuildValidatorSet
  <2> HIDE DEF cap, u
  <2>6. vs.weight = CapEntries(cap, given.weight)
    BY <2>2 DEF u
  <2> QED BY <1>1, <2>1, <2>2, <2>3, <2>4, <2>5, <2>6
<1>2. CASE ~(rule = "capped" /\ given.weighted /\ Cardinality(Validator) >= 4)
  <2>1. Cardinality(Validator) >= 4 \/ Cardinality(Validator) < 4
    BY Numbers
  <2>2. vs = given /\ (rule = "capped" => ~given.weighted \/ Cardinality(Validator) < 4)
    BY <1>2, <2>1 DEF SetInv, ValidatorSetForRule, CountCappedSet
  <2> QED BY <2>2 DEF SetInv
<1> QED BY <1>1, <1>2

\* What the engine's set holds beside the weights.
LEMMA EngineThresholds ==
    ASSUME SetInv
    PROVE  /\ vs.total = WeightOf(vs.weight, Validator)
           /\ vs.quorum_weight = QuorumWeight(vs.total)
           /\ vs.quorum = QuorumCount(Cardinality(Validator))
           /\ vs.f = Faults(Cardinality(Validator))
           /\ vs.total \in Nat /\ vs.quorum_weight \in Nat
           /\ 3 * vs.quorum_weight > 2 * vs.total
<1>1. vs = BuildValidatorSet(vs.weight, vs.weighted) /\ vs.weight \in WeightTable
  BY EngineSet
<1>2. /\ vs.total = WeightOf(vs.weight, Validator)
      /\ vs.quorum_weight = QuorumWeight(vs.total)
      /\ vs.quorum = QuorumCount(Cardinality(Validator))
      /\ vs.f = Faults(Cardinality(Validator))
  BY <1>1 DEF BuildValidatorSet
<1>3. vs.total \in Nat
  BY <1>1, <1>2, WeightType
<1>4. ASSUME NEW t \in Nat PROVE QuorumWeight(t) \in Nat /\ 3 * QuorumWeight(t) > 2 * t
  BY DEF QuorumWeight
<1> QED BY <1>2, <1>3, <1>4

\* A capped set is live with its own weights, so capping it again changes nothing.
LEMMA CappedTwice ==
    ASSUME SetInv
    PROVE  ValidatorSetForRule(rule, vs) = vs
<1>1. CASE rule = "capped" /\ given.weighted /\ Cardinality(Validator) >= 4
  <2> DEFINE m == Max({vs.weight[p] : p \in Validator})
  <2>1. /\ vs = BuildValidatorSet(vs.weight, vs.weighted)
        /\ vs.weight \in WeightTable
        /\ vs.weighted = given.weighted
        /\ vs.f = Faults(Cardinality(Validator))
    BY EngineSet, EngineThresholds
  <2>2. PICK cap \in Nat \ {0} :
           /\ CountLiveAtCap(vs.f, cap, given.weight)
           /\ vs.weight = CapEntries(cap, given.weight)
    <3>1. ~(Cardinality(Validator) < 4)
      BY <1>1, Numbers
    <3> QED BY <1>1, <2>1, <3>1, EngineSet
  <2>3. m \in Nat \ {0} /\ \A p \in Validator : vs.weight[p] <= m
    BY <2>1, LargestWeight
  <2>4. CapEntries(m, vs.weight) = vs.weight
    BY <2>1, <2>3, CapAbove
  <2>5. CountLiveAtCap(vs.f, m, vs.weight)
    BY <2>2, <2>4 DEF CountLiveAtCap
  <2>6. CountWeightCap(vs) = m
    BY <2>5, CapUnfolds
  <2>7. CountCappedSet(vs) = BuildValidatorSet(vs.weight, TRUE)
    <3>1. ~(Cardinality(Validator) < 4) /\ vs.weighted
      BY <1>1, <2>1, Numbers
    <3> HIDE DEF m
    <3> QED BY <2>4, <2>6, <3>1 DEF CountCappedSet
  <2>8. vs.weighted = TRUE
    BY <1>1, <2>1 DEF SetInv
  <2> QED BY <1>1, <2>1, <2>7, <2>8 DEF ValidatorSetForRule
<1>2. CASE ~(rule = "capped" /\ given.weighted /\ Cardinality(Validator) >= 4)
  <2>1. Cardinality(Validator) >= 4 \/ Cardinality(Validator) < 4
    BY Numbers
  <2>2. vs = given
    BY <1>2, EngineSet
  <2> QED BY <1>2, <2>1, <2>2 DEF ValidatorSetForRule, CountCappedSet
<1> QED BY <1>1, <1>2

\* The thresholds leave room for f signers twice: c_types.ml computes quorum so
\* that two quorums overlap in at least f + 1 of n members.
LEMMA ThresholdsOverlap ==
    ASSUME NEW n \in Nat, n > 0
    PROVE  /\ Faults(n) \in Nat
           /\ QuorumCount(n) \in Nat
           /\ 2 * QuorumCount(n) - n > Faults(n)
BY DEF Faults, QuorumCount

\* Two sets of at least QuorumCount(n) members of an n-member set share more
\* than Faults(n) of them.
LEMMA LargeSetsMeet ==
    ASSUME NEW A \in SUBSET Validator, NEW B \in SUBSET Validator,
           Cardinality(A) >= QuorumCount(Cardinality(Validator)),
           Cardinality(B) >= QuorumCount(Cardinality(Validator))
    PROVE  Cardinality(A \cap B) > Faults(Cardinality(Validator))
<1> DEFINE n == Cardinality(Validator)
<1>1. n \in Nat /\ n > 0
  BY ValidatorsAssumption, FS_CardinalityType, FS_EmptySet
<1>2. IsFiniteSet(A) /\ IsFiniteSet(B) /\ A \cup B \in SUBSET Validator
  BY ValidatorsAssumption, FS_Subset
<1>3. /\ Cardinality(A \cup B) <= n
      /\ IsFiniteSet(A \cup B)
      /\ IsFiniteSet(A \cap B)
  BY <1>2, ValidatorsAssumption, FS_Subset
<1>4. Cardinality(A \cup B) = Cardinality(A) + Cardinality(B) - Cardinality(A \cap B)
  BY <1>2, FS_Union
<1>5. /\ Cardinality(A) \in Nat
      /\ Cardinality(B) \in Nat
      /\ Cardinality(A \cup B) \in Nat
      /\ Cardinality(A \cap B) \in Nat
  BY <1>2, <1>3, FS_CardinalityType
<1>6. /\ QuorumCount(n) \in Nat
      /\ Faults(n) \in Nat
      /\ 2 * QuorumCount(n) - n > Faults(n)
  BY <1>1, ThresholdsOverlap
<1> HIDE DEF n
<1> QED BY <1>1, <1>3, <1>4, <1>5, <1>6 DEF n

-----------------------------------------------------------------------------
(* The invariant *)

\* Empty vote sets weigh nothing.
LEMMA WeightInvInit == QuorumInit => WeightInv
<1> SUFFICES ASSUME QuorumInit PROVE WeightInv
  OBVIOUS
<1>1. PICK weight \in StakeSets, weighted \in Weighted :
         /\ ~weighted => \A p \in Validator : weight[p] = 1
         /\ given = BuildValidatorSet(weight, weighted)
  BY DEF QuorumInit
<1>2. given.weight = weight /\ given.weighted = weighted
  BY <1>1 DEF BuildValidatorSet
<1>3. weight \in WeightTable /\ weighted \in BOOLEAN
  BY StakesAssumption DEF WeightTable
<1>4. SetInv
  BY <1>1, <1>2, <1>3 DEF SetInv, QuorumInit
<1>5. tally = [s \in Side |-> EmptyTally]
  BY DEF QuorumInit
<1>6. Cardinality({}) = 0 /\ WeightOf(vs.weight, {}) = 0
  BY FS_EmptySet, WeightPick
<1>7. TallyInv
  BY <1>5, <1>6 DEF TallyInv, EmptyTally
<1> QED BY <1>4, <1>7 DEF WeightInv

\* add_vote refuses a duplicate, so each signer is counted and weighed once.
LEMMA WeightInvNext == WeightInv /\ [QuorumNext]_ruleVars => WeightInv'
<1> SUFFICES ASSUME WeightInv, [QuorumNext]_ruleVars PROVE WeightInv'
  OBVIOUS
<1>1. ASSUME NEW s \in Side, NEW p \in Validator, AddVote(s, p) PROVE WeightInv'
  <2> DEFINE old == tally[s]
             new == [old EXCEPT !.votes = old.votes \cup {p},
                                !.count = old.count + 1,
                                !.weight = old.weight + vs.weight[p]]
  <2>1. /\ tally' = [tally EXCEPT ![s] = new]
        /\ p \notin old.votes
        /\ vs' = vs /\ given' = given /\ rule' = rule
    BY <1>1 DEF AddVote
  <2>2. SetInv'
    BY <2>1 DEF WeightInv, SetInv
  <2>3. /\ DOMAIN old = {"votes", "count", "weight"}
        /\ old.votes \in SUBSET Validator
        /\ old.count = Cardinality(old.votes)
        /\ old.weight = WeightOf(vs.weight, old.votes)
    BY DEF WeightInv, TallyInv
  <2>4. Cardinality(old.votes \cup {p}) = Cardinality(old.votes) + 1
    BY <2>1, <2>3, ValidatorsFinite, FS_AddElement
  <2>5. WeightOf(vs.weight, old.votes \cup {p}) = WeightOf(vs.weight, old.votes) + vs.weight[p]
    BY <2>1, <2>3, EngineSet, WeightAdd DEF WeightInv
  <2>6. /\ DOMAIN new = {"votes", "count", "weight"}
        /\ new.votes = old.votes \cup {p}
        /\ new.count = old.count + 1
        /\ new.weight = old.weight + vs.weight[p]
    BY <2>3
  <2>7. DOMAIN tally' = Side /\ tally'[s] = new /\ \A t \in Side \ {s} : tally'[t] = tally[t]
    BY <2>1 DEF WeightInv, TallyInv
  <2>8. /\ new.votes \in SUBSET Validator
        /\ new.count = Cardinality(new.votes)
        /\ new.weight = WeightOf(vs.weight, new.votes)
    BY <2>3, <2>4, <2>5, <2>6
  <2> HIDE DEF new
  <2>9. TallyInv'
    BY <2>1, <2>6, <2>7, <2>8 DEF WeightInv, TallyInv
  <2> QED BY <2>2, <2>9 DEF WeightInv
<1>2. ASSUME UNCHANGED ruleVars PROVE WeightInv'
  BY <1>2 DEF WeightInv, SetInv, TallyInv, ruleVars
<1> QED BY <1>1, <1>2 DEF QuorumNext

\* Each signer of a vote set is counted and weighed once, by the weights of the
\* engine's set, which the rule makes of the chain's.
THEOREM QuorumInvariant == QuorumSpec => []WeightInv
BY WeightInvInit, WeightInvNext, PTL DEF QuorumSpec

\* The counters of a side as the thresholds see them.
LEMMA Counters ==
    ASSUME WeightInv, NEW s \in Side
    PROVE  /\ tally[s].votes \in SUBSET Validator
           /\ tally[s].count = Cardinality(tally[s].votes)
           /\ tally[s].count \in Nat
           /\ tally[s].weight = WeightOf(vs.weight, tally[s].votes)
           /\ tally[s].weight \in Nat
<1>1. /\ tally[s].votes \in SUBSET Validator
      /\ tally[s].count = Cardinality(tally[s].votes)
      /\ tally[s].weight = WeightOf(vs.weight, tally[s].votes)
  BY DEF WeightInv, TallyInv
<1>2. vs.weight \in WeightTable
  BY EngineSet DEF WeightInv
<1> QED BY <1>1, <1>2, ValidatorsFinite, WeightType

\* The weight of the signers of both sides.
LEMMA SharedWeight ==
    ASSUME WeightInv
    PROVE  /\ WeightOf(vs.weight, SignedTwice) \in Nat
           /\ WeightOf(vs.weight, SignedTwice) >= tally["left"].weight + tally["right"].weight - vs.total
<1> DEFINE A == tally["left"].votes
           B == tally["right"].votes
<1>1. /\ A \in SUBSET Validator /\ B \in SUBSET Validator
      /\ tally["left"].weight = WeightOf(vs.weight, A)
      /\ tally["right"].weight = WeightOf(vs.weight, B)
      /\ tally["left"].weight \in Nat /\ tally["right"].weight \in Nat
  BY Counters DEF Side
<1>2. vs.weight \in WeightTable
  BY EngineSet DEF WeightInv
<1>3. vs.total = WeightOf(vs.weight, Validator) /\ vs.total \in Nat
  BY EngineThresholds DEF WeightInv
<1>4. SignedTwice = A \cap B
  BY DEF SignedTwice
<1> HIDE DEF A, B
<1>5. A \cup B \in SUBSET Validator /\ A \cap B \in SUBSET Validator
  BY <1>1
<1>6. WeightOf(vs.weight, A) + WeightOf(vs.weight, B)
         = WeightOf(vs.weight, A \cup B) + WeightOf(vs.weight, A \cap B)
  BY <1>1, <1>2, WeightUnion
<1>7. /\ WeightOf(vs.weight, A \cup B) <= WeightOf(vs.weight, Validator)
      /\ WeightOf(vs.weight, A \cup B) \in Nat /\ WeightOf(vs.weight, A \cap B) \in Nat
  BY <1>2, <1>5, WeightSplit, WeightType
<1> QED BY <1>1, <1>3, <1>4, <1>6, <1>7

-----------------------------------------------------------------------------
\* Two quorums for different values need signers of more than a third of the
\* weight to sign twice, whatever the weights, the rule and the cap.
THEOREM WeightQuorumsMeetAlways == QuorumSpec => []WeightQuorumsMeet
<1>1. WeightInv => WeightQuorumsMeet
  <2> SUFFICES ASSUME WeightInv, Reached("left"), Reached("right")
               PROVE  3 * WeightOf(vs.weight, SignedTwice) > vs.total
    BY DEF WeightQuorumsMeet
  <2>1. tally["left"].weight >= vs.quorum_weight /\ tally["right"].weight >= vs.quorum_weight
    BY DEF Reached, QuorumReached
  <2>2. /\ vs.total \in Nat /\ vs.quorum_weight \in Nat
        /\ 3 * vs.quorum_weight > 2 * vs.total
    BY EngineThresholds DEF WeightInv
  <2>3. tally["left"].weight \in Nat /\ tally["right"].weight \in Nat
    BY Counters DEF Side
  <2> QED BY <2>1, <2>2, <2>3, SharedWeight
<1> QED BY QuorumInvariant, <1>1, PTL

\* Two quorums for different values share more than f signers under the rules
\* that count them, whatever the weights and the cap.
THEOREM CountQuorumsMeetAlways == QuorumSpec => []CountQuorumsMeet
<1>1. WeightInv => CountQuorumsMeet
  <2> SUFFICES ASSUME WeightInv, rule # "prior", Reached("left"), Reached("right")
               PROVE  Cardinality(SignedTwice) > Faults(Cardinality(Validator))
    BY DEF CountQuorumsMeet
  <2>1. vs.quorum = QuorumCount(Cardinality(Validator))
    BY EngineThresholds DEF WeightInv
  <2>2. \A s \in Side : Reached(s) =>
           Cardinality(tally[s].votes) >= QuorumCount(Cardinality(Validator))
    BY <2>1, Counters DEF Reached, QuorumReached
  <2>3. /\ tally["left"].votes \in SUBSET Validator
        /\ tally["right"].votes \in SUBSET Validator
    BY Counters DEF Side
  <2> QED BY <2>2, <2>3, LargeSetsMeet DEF SignedTwice, Side
<1> QED BY QuorumInvariant, <1>1, PTL

\* The weight that skips a round and the weight of a quorum exceed the total
\* together, so some signer of a skip is in every quorum.
THEOREM SkipAlwaysBlocksQuorum == QuorumSpec => []SkipBlocksQuorum
<1>1. WeightInv => SkipBlocksQuorum
  <2> SUFFICES ASSUME WeightInv, Skips("left"), Reached("right"), SignedTwice = {}
               PROVE  FALSE
    BY DEF SkipBlocksQuorum
  <2>1. /\ tally["left"].weight >= vs.total - vs.quorum_weight + 1
        /\ tally["right"].weight >= vs.quorum_weight
    BY DEF Skips, RoundSkipReached, RoundSkipWeight, Reached, QuorumReached
  <2>2. vs.total \in Nat /\ vs.quorum_weight \in Nat
    BY EngineThresholds DEF WeightInv
  <2>3. tally["left"].weight \in Nat /\ tally["right"].weight \in Nat
    BY Counters DEF Side
  <2>4. WeightOf(vs.weight, SignedTwice) = 0
    BY WeightPick, FS_EmptySet
  <2> QED BY <2>1, <2>2, <2>3, <2>4, SharedWeight
<1> QED BY QuorumInvariant, <1>1, PTL

\* A node that finalizes by its counters has signers that every node accepts as
\* a certificate, and the other way round: the cap of a capped set is no cap.
THEOREM CertificateAlwaysAgrees == QuorumSpec => []CertificateAgrees
<1>1. WeightInv => CertificateAgrees
  <2> SUFFICES ASSUME WeightInv, NEW s \in Side
               PROVE  /\ Reached(s) = HasQuorumForRule(rule, vs, tally[s].votes)
                      /\ Reached(s) = HasQuorumForRule(rule, given, tally[s].votes)
    BY DEF CertificateAgrees
  <2>1. /\ tally[s].count = Cardinality(tally[s].votes)
        /\ tally[s].weight = WeightOf(vs.weight, tally[s].votes)
    BY Counters
  <2>2. ValidatorSetForRule(rule, vs) = vs /\ ValidatorSetForRule(rule, given) = vs
    BY CappedTwice DEF WeightInv, SetInv
  <2>3. vs.weighted = given.weighted
    BY EngineSet DEF WeightInv
  <2> QED BY <2>1, <2>2, <2>3
             DEF Reached, QuorumReached, HasQuorumForRule, WeightsValid
<1> QED BY QuorumInvariant, <1>1, PTL

\* Under the Capped rule any f validators may be silent and the others decide:
\* count_weight_cap returns a cap under which the heaviest f are not needed.
THEOREM CappedStaysLive == QuorumSpec => []CappedIsLive
<1>1. WeightInv => CappedIsLive
  <2> DEFINE n == Cardinality(Validator)
  <2> SUFFICES ASSUME WeightInv, NEW s \in Side, rule = "capped",
                      tally[s].count >= n - Faults(n)
               PROVE  Reached(s)
    BY DEF CappedIsLive
  <2> DEFINE S == tally[s].votes
  <2>1. /\ S \in SUBSET Validator /\ tally[s].count = Cardinality(S)
        /\ tally[s].count \in Nat /\ tally[s].weight = WeightOf(vs.weight, S)
    BY Counters
  <2>2. n \in Nat /\ n > 0 /\ Faults(n) \in Nat
    BY Numbers
  <2>3. /\ vs.total = WeightOf(vs.weight, Validator) /\ vs.total \in Nat
        /\ vs.quorum_weight = QuorumWeight(vs.total)
        /\ vs.quorum = QuorumCount(n)
        /\ vs.weight \in WeightTable
    BY EngineThresholds, EngineSet DEF WeightInv
  <2>4. tally[s].count >= vs.quorum
    BY <2>1, <2>2, <2>3 DEF QuorumCount, Faults
  <2>5. tally[s].weight >= vs.quorum_weight
    <3>1. CASE n < 4
      <4>1. S = Validator
        <5>1. Faults(n) = 0
          BY <2>2, <3>1 DEF Faults
        <5>2. Cardinality(S) >= n /\ Cardinality(S) <= n
          BY <2>1, <2>2, <5>1, ValidatorsFinite
        <5>3. Cardinality(S) = n
          BY <2>1, <2>2, <5>2
        <5> QED BY <2>1, <5>3, FS_Subset, ValidatorsAssumption
      <4>2. vs.total > 0
        <5>1. PICK p \in Validator : TRUE
          BY ValidatorsAssumption
        <5>2. vs.weight[p] \in Nat \ {0} /\ vs.weight[p] <= vs.total
          BY <2>3, OneOfAll DEF WeightTable
        <5> QED BY <2>3, <5>2
      <4>3. ASSUME NEW t \in Nat, t > 0 PROVE t >= QuorumWeight(t)
        BY <4>3 DEF QuorumWeight
      <4> QED BY <2>1, <2>3, <4>1, <4>2, <4>3
    <3>2. CASE n >= 4 /\ ~given.weighted
      <4>1. vs = given /\ \A p \in Validator : vs.weight[p] = 1
        BY <3>2, EngineSet DEF WeightInv, SetInv
      <4>2. tally[s].weight = Cardinality(S) /\ vs.total = n
        BY <2>1, <2>3, <4>1, WeightOfOnes
      <4>3. n - Faults(n) >= QuorumWeight(n) /\ QuorumWeight(n) \in Nat
        BY <2>2, <3>2 DEF Faults, QuorumWeight
      <4> QED BY <2>1, <2>2, <2>3, <4>2, <4>3
    <3>3. CASE n >= 4 /\ given.weighted
      <4>1. PICK cap \in Nat \ {0} :
               /\ CountLiveAtCap(Faults(n), cap, given.weight)
               /\ vs.weight = CapEntries(cap, given.weight)
        <5>1. ~(n < 4)
          BY <2>2, <3>3
        <5> QED BY <3>3, <5>1, EngineSet DEF WeightInv
      <4>2. given.weight \in WeightTable
        BY DEF WeightInv, SetInv
      <4> QED BY <2>1, <2>3, <4>1, <4>2, LiveMeans
    <3> QED BY <2>2, <3>1, <3>2, <3>3
  <2> QED BY <2>4, <2>5 DEF Reached, QuorumReached, WeightsValid
<1> QED BY QuorumInvariant, <1>1, PTL

-----------------------------------------------------------------------------
(* The assumption of Voting.tla *)

\* The faulty members have at most a third of the weight, or are at most f under
\* a rule that counts.
FewFaults(honest) ==
    \/ 3 * WeightOf(vs.weight, Validator \ honest) <= vs.total
    \/ rule # "prior" /\ Cardinality(Validator \ honest) <= Faults(Cardinality(Validator))

\* QuorumAssumption of Voting.tla, where the quorums are the signers that
\* has_quorum_for_rule accepts: any two share an honest member.
QuorumsShareHonest ==
    \A A, B, honest \in SUBSET Validator :
        ( /\ HasQuorumForRule(rule, given, A)
          /\ HasQuorumForRule(rule, given, B)
          /\ FewFaults(honest) ) => A \cap B \cap honest # {}

\* The rules of c_types.ml give the voting what it assumes of its quorums.
THEOREM QuorumAssumptionHolds == QuorumSpec => []QuorumsShareHonest
<1>1. WeightInv => QuorumsShareHonest
  <2> SUFFICES ASSUME WeightInv, NEW A \in SUBSET Validator, NEW B \in SUBSET Validator,
                      NEW honest \in SUBSET Validator,
                      HasQuorumForRule(rule, given, A), HasQuorumForRule(rule, given, B),
                      FewFaults(honest), A \cap B \cap honest = {}
               PROVE  FALSE
    BY DEF QuorumsShareHonest
  <2> DEFINE w == vs.weight
             F == Validator \ honest
             both == A \cap B
  <2>1. ValidatorSetForRule(rule, given) = vs
    BY DEF WeightInv, SetInv
  <2>2. /\ WeightOf(w, A) >= vs.quorum_weight /\ WeightOf(w, B) >= vs.quorum_weight
        /\ rule # "prior" => Cardinality(A) >= vs.quorum /\ Cardinality(B) >= vs.quorum
    BY <2>1 DEF HasQuorumForRule
  <2>3. /\ vs.total = WeightOf(w, Validator) /\ vs.total \in Nat /\ vs.quorum_weight \in Nat
        /\ 3 * vs.quorum_weight > 2 * vs.total
        /\ vs.quorum = QuorumCount(Cardinality(Validator)) /\ w \in WeightTable
    BY EngineThresholds, EngineSet DEF WeightInv
  <2>4. both \subseteq F /\ both \in SUBSET Validator /\ F \in SUBSET Validator
        /\ A \cup B \in SUBSET Validator
    OBVIOUS
  <2> HIDE DEF w, F, both
  <2>5. CASE 3 * WeightOf(w, F) <= vs.total
    <3>1. WeightOf(w, A) + WeightOf(w, B) = WeightOf(w, A \cup B) + WeightOf(w, both)
      BY <2>3, WeightUnion DEF both
    <3>2. WeightOf(w, A \cup B) <= vs.total /\ WeightOf(w, both) <= WeightOf(w, F)
      <4>1. WeightOf(w, A \cup B) <= WeightOf(w, Validator)
        BY <2>3, <2>4, WeightSplit
      <4>2. both \in SUBSET F
        BY <2>4
      <4>3. WeightOf(w, both) <= WeightOf(w, F)
        BY <2>3, <2>4, <4>2, WeightSplit
      <4> QED BY <2>3, <4>1, <4>3
    <3>3. /\ WeightOf(w, A) \in Nat /\ WeightOf(w, B) \in Nat /\ WeightOf(w, F) \in Nat
          /\ WeightOf(w, A \cup B) \in Nat /\ WeightOf(w, both) \in Nat
      BY <2>3, <2>4, WeightType
    <3> QED BY <2>2, <2>3, <2>5, <3>1, <3>2, <3>3
  <2>6. CASE rule # "prior" /\ Cardinality(F) <= Faults(Cardinality(Validator))
    <3>1. Cardinality(both) > Faults(Cardinality(Validator))
      BY <2>2, <2>3, <2>6, LargeSetsMeet DEF both
    <3>2. Cardinality(both) <= Cardinality(F) /\ Cardinality(both) \in Nat /\ Cardinality(F) \in Nat
      BY <2>4, ValidatorsFinite, FS_Subset
    <3> QED BY <2>6, <3>1, <3>2, Numbers
  <2> QED BY <2>5, <2>6 DEF FewFaults, w, F
<1> QED BY QuorumInvariant, <1>1, PTL

=============================================================================
