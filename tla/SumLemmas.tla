------------------------------ MODULE SumLemmas ------------------------------
(***************************************************************************)
(* What SumFunction, a fold of the community modules, returns for a        *)
(* function with a finite domain, and the lemma that makes a histogram a   *)
(* count: the buckets of a finite set add up to its cardinality.           *)
(*                                                                         *)
(* Induction over finite sets is done by taking a smallest counterexample: *)
(* strict inclusion of subsets of a finite set is well-founded.            *)
(***************************************************************************)
EXTENDS Naturals, FiniteSets, Functions, FiniteSetTheorems, WellFoundedInduction, TLAPS

(* The element that the fold takes from a set next.                        *)
Pick(s) == CHOOSE x \in s : TRUE

(* One step of the fold: g holds the sums over the subsets of D.           *)
Added(f, g, s) == IF s = {} THEN 0 ELSE f[Pick(s)] + g[s \ {Pick(s)}]

Sums(f, g, D) == g = [s \in SUBSET D |-> Added(f, g, s)]

Picked(s) == s # {} => Pick(s) \in s

-----------------------------------------------------------------------------
LEMMA PickIn == \A s : Picked(s)
BY DEF Pick, Picked

(* A set of subsets of a finite set has a member that no other is within.  *)
LEMMA SmallestSubset ==
  ASSUME NEW D, IsFiniteSet(D), NEW B, B \subseteq SUBSET D, B # {}
  PROVE  \E T \in B : \A U \in B : U \subseteq T => U = T
<1>1. IsWellFoundedOn(StrictSubsetOrdering(D), SUBSET D)
  BY FS_StrictSubsetOrderingWellFounded, FS_FiniteSubsetsOfFinite
<1>2. PICK T \in B : \A U \in B : <<U, T>> \notin StrictSubsetOrdering(D)
  BY <1>1, WFMin
<1>3. ASSUME NEW U \in B, U \subseteq T PROVE U = T
  BY <1>2, <1>3 DEF StrictSubsetOrdering
<1> QED BY <1>3

(* The sums over the subsets of a finite set are determined by f.          *)
LEMMA SumsUnique ==
  ASSUME NEW f, NEW D, IsFiniteSet(D), NEW g, NEW h, Sums(f, g, D), Sums(f, h, D)
  PROVE  g = h
<1> DEFINE B == {s \in SUBSET D : g[s] # h[s]}
<1>1. ASSUME B # {} PROVE FALSE
  <2>1. PICK T \in B : \A U \in B : U \subseteq T => U = T
    <3> HIDE DEF B
    <3>1. B \subseteq SUBSET D
      BY DEF B
    <3> QED BY <1>1, <3>1, SmallestSubset
  <2>2. g[T] = Added(f, g, T) /\ h[T] = Added(f, h, T)
    BY DEF Sums
  <2>3. CASE T = {}
    BY <2>2, <2>3 DEF Added
  <2>4. CASE T # {}
    <3>1. Pick(T) \in T
      BY <2>4, PickIn DEF Picked
    <3>2. g[T \ {Pick(T)}] = h[T \ {Pick(T)}]
      BY <2>1, <3>1
    <3> QED BY <2>2, <3>2 DEF Added
  <2> QED BY <2>3, <2>4
<1>2. \A s \in SUBSET D : g[s] = h[s]
  BY <1>1
<1>3. g = [s \in SUBSET D |-> g[s]] /\ h = [s \in SUBSET D |-> h[s]]
  BY DEF Sums
<1> QED BY <1>2, <1>3

(* Sums over the subsets of D hold those over the subsets of a part of it. *)
LEMMA SumsRestrict ==
  ASSUME NEW f, NEW D, NEW g, Sums(f, g, D), NEW T \in SUBSET D
  PROVE  Sums(f, [s \in SUBSET T |-> g[s]], T)
<1> DEFINE h == [s \in SUBSET T |-> g[s]]
<1>1. ASSUME NEW s \in SUBSET T PROVE h[s] = Added(f, h, s)
  <2>1. h[s] = Added(f, g, s)
    BY DEF Sums
  <2>2. s # {} => g[s \ {Pick(s)}] = h[s \ {Pick(s)}]
    OBVIOUS
  <2> QED BY <2>1, <2>2 DEF Added
<1>2. h = [s \in SUBSET T |-> Added(f, h, s)]
  BY <1>1
<1> QED BY <1>2 DEF Sums

LEMMA SumsExist ==
  ASSUME NEW f, NEW D, IsFiniteSet(D)
  PROVE  \E g : Sums(f, g, D)
<1> DEFINE G(u) == CHOOSE g : Sums(f, g, u)
           B == {s \in SUBSET D : ~ \E g : Sums(f, g, s)}
<1>1. ASSUME B # {} PROVE FALSE
  <2>1. PICK T \in B : \A U \in B : U \subseteq T => U = T
    <3> HIDE DEF B
    <3>1. B \subseteq SUBSET D
      BY DEF B
    <3> QED BY <1>1, <3>1, SmallestSubset
  <2>2. \A u \in SUBSET T : u # T => Sums(f, G(u), u)
    BY <2>1
  <2> DEFINE h == [s \in SUBSET T |-> IF s = {} THEN 0
                                      ELSE f[Pick(s)] + G(s \ {Pick(s)})[s \ {Pick(s)}]]
  <2> HIDE DEF G
  <2>3. ASSUME NEW u \in SUBSET T, u # T, NEW v \in SUBSET u
        PROVE  G(u)[v] = G(v)[v]
    <3>1. Sums(f, G(u), u) /\ Sums(f, G(v), v)
      BY <2>2, <2>3
    <3>2. Sums(f, [s \in SUBSET v |-> G(u)[s]], v)
      BY <3>1, SumsRestrict
    <3>3. IsFiniteSet(v)
      BY FS_Subset
    <3>4. [s \in SUBSET v |-> G(u)[s]] = G(v)
      BY <3>1, <3>2, <3>3, SumsUnique
    <3> QED BY <3>4
  <2>4. ASSUME NEW u \in SUBSET T, u # T PROVE h[u] = G(u)[u]
    <3>1. G(u)[u] = Added(f, G(u), u)
      BY <2>2, <2>4 DEF Sums
    <3>2. u # {} => G(u)[u \ {Pick(u)}] = G(u \ {Pick(u)})[u \ {Pick(u)}]
      BY <2>3, <2>4
    <3> QED BY <3>1, <3>2 DEF Added
  <2>5. ASSUME NEW s \in SUBSET T PROVE h[s] = Added(f, h, s)
    <3>1. CASE s = {}
      BY <3>1 DEF Added
    <3>2. CASE s # {}
      <4>1. Pick(s) \in s
        BY <3>2, PickIn DEF Picked
      <4>2. h[s \ {Pick(s)}] = G(s \ {Pick(s)})[s \ {Pick(s)}]
        <5> DEFINE u == s \ {Pick(s)}
        <5>1. u \in SUBSET T /\ u # T
          BY <4>1
        <5> HIDE DEF u, h
        <5> QED BY <2>4, <5>1 DEF u
      <4> QED BY <3>2, <4>2 DEF Added
    <3> QED BY <3>1, <3>2
  <2>6. Sums(f, h, T)
    <3>1. h = [s \in SUBSET T |-> h[s]]
      OBVIOUS
    <3> HIDE DEF h
    <3> QED BY <2>5, <3>1 DEF Sums
  <2> QED BY <2>1, <2>6
<1> QED BY <1>1

(* The fold sums over its set what it sums over each subset.               *)
LEMMA SumFunctionSums ==
  ASSUME NEW f, IsFiniteSet(DOMAIN f)
  PROVE  \E g : Sums(f, g, DOMAIN f) /\ SumFunction(f) = g[DOMAIN f]
<1> DEFINE g == CHOOSE g : Sums(f, g, DOMAIN f)
<1>1. Sums(f, g, DOMAIN f)
  BY SumsExist
<1>2. SumFunction(f) = g[DOMAIN f]
  BY DEF SumFunction, SumFunctionOnSet, FoldFunctionOnSet, MapThenFoldSet, Sums, Added, Pick
<1> QED BY <1>1, <1>2

(* A histogram counts: if f[b] members of a finite set S are in bucket b,  *)
(* the sum of f is the cardinality of S.                                   *)
LEMMA BucketsAddUp ==
  ASSUME NEW S, IsFiniteSet(S), NEW K, IsFiniteSet(K), NEW bucket \in [S -> K], NEW f,
         f = [b \in K |-> Cardinality({x \in S : bucket[x] = b})]
  PROVE  SumFunction(f) = Cardinality(S)
<1> DEFINE Within(s) == {x \in S : bucket[x] \in s}
<1>1. PICK g : Sums(f, g, K) /\ SumFunction(f) = g[K]
  <2>1. DOMAIN f = K
    OBVIOUS
  <2> QED BY <2>1, SumFunctionSums
<1> DEFINE B == {s \in SUBSET K : g[s] # Cardinality(Within(s))}
<1>2. ASSUME B # {} PROVE FALSE
  <2>1. PICK T \in B : \A U \in B : U \subseteq T => U = T
    <3> HIDE DEF B
    <3>1. B \subseteq SUBSET K
      BY DEF B
    <3> QED BY <1>2, <3>1, SmallestSubset
  <2>2. g[T] = Added(f, g, T)
    BY <1>1 DEF Sums
  <2>3. CASE T = {}
    <3>1. Within(T) = {}
      BY <2>3
    <3> QED BY <2>1, <2>2, <2>3, <3>1, FS_EmptySet DEF Added
  <2>4. CASE T # {}
    <3> DEFINE k == Pick(T)
               One == {x \in S : bucket[x] = k}
               Rest == Within(T \ {k})
    <3>1. k \in T /\ T \ {k} \in SUBSET K /\ T \ {k} # T
      BY <2>4, PickIn DEF Picked
    <3>2. g[T \ {k}] = Cardinality(Rest)
      BY <2>1, <3>1
    <3>3. f[k] = Cardinality(One)
      BY <3>1
    <3>4. Within(T) = One \cup Rest /\ One \cap Rest = {}
      BY <3>1
    <3>5. IsFiniteSet(One) /\ IsFiniteSet(Rest) /\ One \in SUBSET S /\ Rest \in SUBSET S
      BY FS_Subset
    <3>6. g[T] = Cardinality(One) + Cardinality(Rest)
      BY <2>2, <2>4, <3>2, <3>3 DEF Added
    <3> HIDE DEF One, Rest, Within
    <3>7. Cardinality(One \cup Rest)
            = Cardinality(One) + Cardinality(Rest) - Cardinality(One \cap Rest)
      BY <3>5, FS_Union
    <3>8. Cardinality(One \cap Rest) = 0
      BY <3>4, FS_EmptySet
    <3>9. Cardinality(One) \in Nat /\ Cardinality(Rest) \in Nat
      BY <3>5, FS_CardinalityType
    <3>10. Cardinality(Within(T)) = g[T]
      BY <3>4, <3>6, <3>7, <3>8, <3>9
    <3> QED BY <2>1, <3>10
  <2> QED BY <2>3, <2>4
<1>3. g[K] = Cardinality(Within(K))
  BY <1>2
<1>4. Within(K) = S
  OBVIOUS
<1> QED BY <1>1, <1>3, <1>4

=============================================================================
