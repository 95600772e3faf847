------------------------------ MODULE Induction ------------------------------
(***************************************************************************)
(* Induction over numbers, stated of sets and functions: what the models   *)
(* compute step by step along a list or a range is proved by looking at    *)
(* the first step at which it would go wrong.                              *)
(***************************************************************************)
EXTENDS Integers, FiniteSetTheorems, WellFoundedInduction, TLAPS

(* A set of numbers with a member has a least one. *)
LEMMA LeastNat ==
    ASSUME NEW T \in SUBSET Nat, T # {}
    PROVE  \E n \in T : \A m \in T : n <= m
<1>1. PICK R : R = OpToRel(<, Nat) OBVIOUS
<1>2. IsWellFoundedOn(R, Nat) BY <1>1, NatLessThanWellFounded
<1>3. PICK n \in T : \A m \in T : ~ (<<m, n>> \in R) BY <1>2, WFMin
<1>4. R = {ss \in Nat \X Nat : ss[1] < ss[2]} BY <1>1 DEF OpToRel
<1>5. \A m \in T : ~(m < n) BY <1>3, <1>4
<1> QED BY <1>5

(* A function defined by its first value and a step from each to the next. *)
Iterates(g, n, S, a, F) ==
    g \in [0..n -> S] /\ g[0] = a /\ \A i \in 1..n : g[i] = F[<<i, g[i - 1]>>]

LEMMA Recursion ==
    ASSUME NEW S, NEW n \in Nat, NEW a \in S, NEW F \in [(1..n) \X S -> S]
    PROVE  \E g : Iterates(g, n, S, a, F)
<1> DEFINE Until(k, g) == Iterates(g, k, S, a, F)
           T == {k \in 0..n : ~\E g : Until(k, g)}
<1>0. T \in SUBSET Nat OBVIOUS
<1>1. T = {}
  <2>1. SUFFICES ASSUME T # {} PROVE FALSE OBVIOUS
  <2>2. PICK k \in T : \A m \in T : k <= m
    <3> HIDE DEF T
    <3> QED BY <1>0, <2>1, LeastNat
  <2>3. k # 0
    <3>1. Until(0, [i \in 0..0 |-> a]) BY DEF Iterates
    <3> QED BY <3>1
  <2>4. k - 1 \in 0..n /\ k - 1 \notin T /\ k \in 1..n BY <2>2, <2>3
  <2>5. PICK g : Until(k - 1, g) BY <2>4
  <2>6. F[<<k, g[k - 1]>>] \in S BY <2>4, <2>5 DEF Iterates
  <2> DEFINE h == [i \in 0..k |-> IF i = k THEN F[<<k, g[k - 1]>>] ELSE g[i]]
  <2>7. Until(k, h)
    <3>1. h \in [0..k -> S] BY <2>4, <2>5, <2>6 DEF Iterates
    <3>2. h[0] = a BY <2>4, <2>5 DEF Iterates
    <3>3. ASSUME NEW i \in 1..k PROVE h[i] = F[<<i, h[i - 1]>>]
      <4>1. CASE i = k
        <5>1. h[k] = F[<<k, g[k - 1]>>] /\ h[k - 1] = g[k - 1] BY <2>4
        <5> QED BY <4>1, <5>1
      <4>2. CASE i # k BY <4>2, <2>4, <2>5 DEF Iterates
      <4> QED BY <4>1, <4>2
    <3> QED BY <3>1, <3>2, <3>3 DEF Iterates
  <2> QED BY <2>2, <2>7
<1>2. n \in 0..n OBVIOUS
<1>3. \E g : Until(n, g)
  <2> HIDE DEF Until
  <2> QED BY <1>1, <1>2
<1> QED BY <1>3

(* A set of numbers with a member and a bound has a greatest one. *)
LEMMA GreatestNat ==
    ASSUME NEW T \in SUBSET Nat, T # {}, NEW b \in Nat, \A t \in T : t <= b
    PROVE  \E n \in T : \A m \in T : m <= n
<1> DEFINE below == {b - i : i \in T}
<1>0. PICK e \in T : TRUE OBVIOUS
<1>1. below \in SUBSET Nat /\ below # {}
  <2>1. b - e \in Nat OBVIOUS
  <2>2. b - e \in below BY <2>1
  <2> QED BY <2>2
<1>2. PICK k \in below : \A j \in below : k <= j
  <2> HIDE DEF below
  <2> QED BY <1>1, LeastNat
<1>3. PICK n \in T : k = b - n OBVIOUS
<1>4. \A m \in T : b - m \in below OBVIOUS
<1>5. ASSUME NEW m \in T PROVE m <= n
  <2>1. k <= b - m BY <1>2, <1>4
  <2>2. m \in Nat /\ n \in Nat OBVIOUS
  <2> QED BY ONLY b \in Nat, <1>3, <2>1, <2>2
<1> QED BY <1>5

(* The image of a finite set is finite. *)
LEMMA ImageFinite ==
    ASSUME NEW S, IsFiniteSet(S), NEW f, f = [x \in S |-> f[x]]
    PROVE  IsFiniteSet({f[x] : x \in S})
<1> DEFINE T == {f[x] : x \in S}
<1>1. f \in Surjection(S, T) BY DEF Surjection
<1> QED BY <1>1, FS_Surjection

(* A finite set that is not empty has an element with none before it in a  *)
(* relation that is an order.                                              *)
LEMMA MinimalElement ==
    ASSUME NEW S, IsFiniteSet(S), S # {}, NEW R,
           \A x \in S : <<x, x>> \notin R,
           \A x, y, z \in S : <<x, y>> \in R /\ <<y, z>> \in R => <<x, z>> \in R
    PROVE  \E m \in S : \A k \in S : <<k, m>> \notin R
<1> DEFINE lower(x) == {k \in S : <<k, x>> \in R}
           sizes == {Cardinality(lower(x)) : x \in S}
<1>1. \A x \in S : lower(x) \in SUBSET S OBVIOUS
<1>2. \A x \in S : IsFiniteSet(lower(x)) /\ Cardinality(lower(x)) \in Nat
  <2> HIDE DEF lower
  <2> QED BY <1>1, FS_Subset, FS_CardinalityType
<1>3. sizes \in SUBSET Nat /\ sizes # {}
  <2> HIDE DEF lower
  <2> QED BY <1>2
<1>4. PICK n \in sizes : \A i \in sizes : n <= i
  <2> HIDE DEF sizes
  <2> QED BY <1>3, LeastNat
<1>5. PICK m \in S : n = Cardinality(lower(m)) BY <1>4
<1>6. ASSUME NEW k \in S, <<k, m>> \in R PROVE FALSE
  <2>1. lower(k) \in SUBSET lower(m) BY <1>6
  <2>2. k \in lower(m) /\ k \notin lower(k) BY <1>6
  <2>3. lower(k) # lower(m) BY <2>2
  <2> HIDE DEF lower
  <2>4. Cardinality(lower(k)) \in sizes /\ Cardinality(lower(m)) <= Cardinality(lower(k)) BY <1>4, <1>5
  <2>5. Cardinality(lower(k)) <= Cardinality(lower(m)) /\ Cardinality(lower(k)) # Cardinality(lower(m))
    BY <1>2, <2>1, <2>3, FS_Subset
  <2> QED BY <1>2, <2>4, <2>5
<1> QED BY <1>6
=============================================================================
