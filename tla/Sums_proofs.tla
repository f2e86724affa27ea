---------------------------- MODULE Sums_proofs ----------------------------
(***************************************************************************)
(* Least and greatest numbers, induction on finite sets, and sums over     *)
(* them.  The library's folds are recursive functions; a recursive         *)
(* function is a CHOOSE, so what it computes follows once a function of    *)
(* that form is shown to exist, by the well-foundedness of <.              *)
(***************************************************************************)
EXTENDS Integers, FiniteSets, FiniteSetsExt, Functions, FiniteSetTheorems,
        WellFoundedInduction, TLAPS

-----------------------------------------------------------------------------
(***************************************************************************)
(* Least elements, and induction on finite sets                            *)
(***************************************************************************)

Below == {ss \in Nat \X Nat : ss[1] < ss[2]}

LEMMA BelowWF == IsWellFoundedOn(Below, Nat)
  BY NatLessThanWellFounded DEF OpToRel, Below

\* A set of numbers has a least element ...
LEMMA NatLeast ==
  ASSUME NEW T \in SUBSET Nat, T # {}
  PROVE  \E x \in T : \A y \in T : x <= y
<1>2. PICK x \in T : \A y \in T : ~ (<<y, x>> \in Below)
  BY BelowWF, WFMin
<1>3. ASSUME NEW y \in T
      PROVE  x <= y
  <2>1. x \in Nat /\ y \in Nat /\ <<y, x>> \notin Below
    BY <1>2
  <2>2. ~ (y < x)
    BY <2>1 DEF Below
  <2>3. QED BY <2>1, <2>2
<1>4. QED BY <1>3

\* ... and a bounded one a greatest.
LEMMA GreatestExists ==
  ASSUME NEW n \in Nat, NEW S \in SUBSET (0 .. n), S # {}
  PROVE  \E m \in S : \A s \in S : s <= m
<1> DEFINE T == {n - s : s \in S}
<1>0. \A s \in S : s \in 0 .. n /\ s \in Nat /\ n - s \in Nat
  OBVIOUS
<1>1. T \in SUBSET Nat /\ T # {}
  BY <1>0
<1> HIDE DEF T
<1>2. PICK x \in T : \A y \in T : x <= y
  BY <1>1, NatLeast
<1> USE DEF T
<1>3. PICK m \in S : x = n - m
  OBVIOUS
<1>4. ASSUME NEW s \in S
      PROVE  s <= m
  BY <1>0, <1>2, <1>3
<1>5. QED BY <1>3, <1>4

\* A set G of good sets to which every set belongs whose proper subsets are
\* good has all the subsets of a finite set.
LEMMA SubsetInduction ==
  ASSUME NEW S, IsFiniteSet(S), NEW G,
         \A T \in SUBSET S : (\A U \in SUBSET T : U # T => U \in G) => T \in G
  PROVE  \A T \in SUBSET S : T \in G
<1> DEFINE Bad == {T \in SUBSET S : T \notin G}
           Sizes == {Cardinality(T) : T \in Bad}
<1>1. SUFFICES ASSUME Bad # {}
               PROVE  FALSE
  OBVIOUS
<1>2. \A T \in SUBSET S : IsFiniteSet(T) /\ Cardinality(T) \in Nat
  BY FS_Subset, FS_CardinalityType
<1>3. Sizes \in SUBSET Nat /\ Sizes # {}
  BY <1>1, <1>2
<1> HIDE DEF Sizes
<1>4. PICK n \in Sizes : \A k \in Sizes : n <= k
  BY <1>3, NatLeast
<1> USE DEF Sizes
<1>5. PICK T \in Bad : n = Cardinality(T)
  OBVIOUS
<1>6. ASSUME NEW U \in SUBSET T, U # T
      PROVE  U \in G
  <2>1. Cardinality(U) < Cardinality(T)
    BY <1>2, <1>6, FS_Subset
  <2>2. Cardinality(U) \in Nat /\ Cardinality(T) \in Nat
    BY <1>2
  <2>3. U \notin Bad
    BY <1>4, <1>5, <2>1, <2>2
  <2>4. QED BY <2>3
<1>7. QED BY <1>5, <1>6

-----------------------------------------------------------------------------
(***************************************************************************)
(* The recursive function                                                  *)
(***************************************************************************)

Picked(s) == CHOOSE x \in s : TRUE

\* g adds up fun over every subset of S.
Adds(g, fun, S) ==
  g = [s \in SUBSET S |->
         IF s = {} THEN 0 ELSE fun[Picked(s)] + g[s \ {Picked(s)}]]

Adder(fun, S) == CHOOSE g : Adds(g, fun, S)

Total(fun, S) == Adder(fun, S)[S]

\* The two folds in use are such totals.
LEMMA FoldIsTotal ==
  ASSUME NEW fun, NEW S
  PROVE  FoldFunctionOnSet(+, 0, fun, S) = Total(fun, S)
  BY DEF FoldFunctionOnSet, MapThenFoldSet, Total, Adder, Adds, Picked

LEMMA SumIsTotal ==
  ASSUME NEW fun, NEW S
  PROVE  MapThenSumSet(LAMBDA f : fun[f], S) = Total(fun, S)
  BY DEF MapThenSumSet, MapThenFoldSet, Total, Adder, Adds, Picked

LEMMA PickedIn ==
  ASSUME NEW s, s # {}
  PROVE  Picked(s) \in s
  BY DEF Picked

\* An adder gives for a subset what it should.
AddsUp(g, fun, s) ==
  g[s] = IF s = {} THEN 0 ELSE fun[Picked(s)] + g[s \ {Picked(s)}]

LEMMA AddsAt ==
  ASSUME NEW fun, NEW S, NEW g, Adds(g, fun, S), NEW s, s \subseteq S
  PROVE  AddsUp(g, fun, s)
<1> DEFINE body(h, t) == IF t = {} THEN 0 ELSE fun[Picked(t)] + h[t \ {Picked(t)}]
<1>1. g = [t \in SUBSET S |-> body(g, t)]
  BY DEF Adds
<1> HIDE DEF body
<1>2. g[s] = body(g, s)
  BY <1>1
<1>3. QED BY <1>2 DEF body, AddsUp

\* Two adders agree where both are defined.
LEMMA AddersAgree ==
  ASSUME NEW fun, NEW S, IsFiniteSet(S), NEW T, S \subseteq T,
         NEW g, Adds(g, fun, S), NEW h, Adds(h, fun, T)
  PROVE  g[S] = h[S]
<1> DEFINE G == {s \in SUBSET S : g[s] = h[s]}
<1>1. ASSUME NEW s \in SUBSET S, \A U \in SUBSET s : U # s => U \in G
      PROVE  s \in G
  <2>0. s \subseteq S /\ s \subseteq T
    OBVIOUS
  <2>1. AddsUp(g, fun, s) /\ AddsUp(h, fun, s)
    BY <2>0, AddsAt
  <2>2. CASE s = {}
    BY <2>1, <2>2 DEF AddsUp
  <2>3. CASE s # {}
    <3>1. s \ {Picked(s)} \in SUBSET s /\ s \ {Picked(s)} # s
      BY <2>3, PickedIn
    <3>2. g[s \ {Picked(s)}] = h[s \ {Picked(s)}]
      BY <1>1, <3>1
    <3>3. QED BY <2>1, <2>3, <3>2 DEF AddsUp
  <2>4. QED BY <2>2, <2>3
<1> HIDE DEF G
<1>2. \A s \in SUBSET S : s \in G
  BY <1>1, SubsetInduction
<1>3. QED BY <1>2 DEF G

\* An adder of T adds over the subsets of S as well.
LEMMA AdderRestricts ==
  ASSUME NEW fun, NEW T, NEW S, S \subseteq T, NEW h, Adds(h, fun, T)
  PROVE  Adds([s \in SUBSET S |-> h[s]], fun, S)
<1> DEFINE g == [s \in SUBSET S |-> h[s]]
           body(k, t) == IF t = {} THEN 0 ELSE fun[Picked(t)] + k[t \ {Picked(t)}]
<1>1. ASSUME NEW s \in SUBSET S
      PROVE  g[s] = body(g, s)
  <2>1. h[s] = IF s = {} THEN 0 ELSE fun[Picked(s)] + h[s \ {Picked(s)}]
    BY AddsAt DEF AddsUp
  <2>2. s \ {Picked(s)} \in SUBSET S
    OBVIOUS
  <2>3. g[s \ {Picked(s)}] = h[s \ {Picked(s)}] /\ g[s] = h[s]
    BY <2>2
  <2>4. QED BY <2>1, <2>3
<1>2. g = [s \in SUBSET S |-> body(g, s)]
  <2> HIDE DEF body
  <2>1. g = [s \in SUBSET S |-> g[s]]
    OBVIOUS
  <2> HIDE DEF g
  <2>2. QED BY <1>1, <2>1
<1>3. QED BY <1>2 DEF Adds

LEMMA AdderExists ==
  ASSUME NEW fun, NEW S, IsFiniteSet(S)
  PROVE  Adds(Adder(fun, S), fun, S)
<1> DEFINE G == {T \in SUBSET S : \E g : Adds(g, fun, T)}
<1>1. ASSUME NEW T \in SUBSET S, \A U \in SUBSET T : U # T => U \in G
      PROVE  T \in G
  <2>1. \A U \in SUBSET T : U # T => Adds(Adder(fun, U), fun, U)
    BY <1>1 DEF Adder
  <2> DEFINE body(k, t) == IF t = {} THEN 0 ELSE fun[Picked(t)] + k[t \ {Picked(t)}]
             val(t) == IF t = {} THEN 0 ELSE fun[Picked(t)] + Total(fun, t \ {Picked(t)})
             g == [t \in SUBSET T |-> val(t)]
  <2>2. ASSUME NEW U \in SUBSET T, U # T
        PROVE  val(U) = Total(fun, U)
    <3>1. Adds(Adder(fun, U), fun, U)
      BY <2>1, <2>2
    <3>2. Adder(fun, U)[U] =
            IF U = {} THEN 0 ELSE fun[Picked(U)] + Adder(fun, U)[U \ {Picked(U)}]
      BY <3>1, AddsAt DEF AddsUp
    <3>3. CASE U = {}
      BY <3>2, <3>3 DEF Total
    <3>4. CASE U # {}
      <4>1. PICK V : V = U \ {Picked(U)}
        OBVIOUS
      <4>2. V \subseteq U /\ V \in SUBSET T /\ V # T /\ IsFiniteSet(V)
        BY <2>2, <3>4, <4>1, PickedIn, FS_Subset
      <4>3. Adds(Adder(fun, V), fun, V)
        BY <2>1, <4>2
      <4>4. Adder(fun, V)[V] = Adder(fun, U)[V]
        BY <3>1, <4>2, <4>3, AddersAgree
      <4>5. QED BY <3>2, <3>4, <4>1, <4>4 DEF Total
    <3>5. QED BY <3>3, <3>4
  <2>3. ASSUME NEW t \in SUBSET T
        PROVE  val(t) = body(g, t)
    <3>1. CASE t = {}
      BY <3>1
    <3>2. CASE t # {}
      <4>1. PICK V : V = t \ {Picked(t)}
        OBVIOUS
      <4>2. V \in SUBSET T /\ V # T
        BY <3>2, <4>1, PickedIn
      <4>3. g[V] = val(V) /\ val(V) = Total(fun, V)
        <5>1. val(V) = Total(fun, V)
          BY <2>2, <4>2
        <5> HIDE DEF val
        <5>2. QED BY <4>2, <5>1
      <4> HIDE DEF g
      <4>4. QED BY <3>2, <4>1, <4>3
    <3>3. QED BY <3>1, <3>2
  <2>4. g = [t \in SUBSET T |-> body(g, t)]
    <3> HIDE DEF val, body
    <3>1. QED BY <2>3
  <2>5. Adds(g, fun, T)
    BY <2>4 DEF Adds
  <2>6. QED BY <2>5
<1> HIDE DEF G
<1>2. S \in G
  BY <1>1, SubsetInduction
<1>3. QED BY <1>2 DEF G, Adder

-----------------------------------------------------------------------------
(***************************************************************************)
(* Totals                                                                  *)
(***************************************************************************)

LEMMA TotalStep ==
  ASSUME NEW fun, NEW S, IsFiniteSet(S)
  PROVE  Total(fun, S) =
           IF S = {} THEN 0 ELSE fun[Picked(S)] + Total(fun, S \ {Picked(S)})
<1>1. Adds(Adder(fun, S), fun, S)
  BY AdderExists
<1>2. Adder(fun, S)[S] =
        IF S = {} THEN 0 ELSE fun[Picked(S)] + Adder(fun, S)[S \ {Picked(S)}]
  BY <1>1, AddsAt DEF AddsUp
<1>3. PICK V : V = S \ {Picked(S)}
  OBVIOUS
<1>4. V \subseteq S /\ IsFiniteSet(V)
  BY <1>3, FS_Subset
<1>5. Adder(fun, V)[V] = Adder(fun, S)[V]
  BY <1>1, <1>4, AdderExists, AddersAgree
<1>6. QED BY <1>2, <1>3, <1>5 DEF Total

LEMMA TotalEmpty ==
  ASSUME NEW fun
  PROVE  Total(fun, {}) = 0
  BY TotalStep, FS_EmptySet

LEMMA TotalNat ==
  ASSUME NEW D, NEW fun \in [D -> Nat], NEW S \in SUBSET D, IsFiniteSet(S)
  PROVE  Total(fun, S) \in Nat
<1> DEFINE G == {T \in SUBSET S : Total(fun, T) \in Nat}
<1>1. ASSUME NEW T \in SUBSET S, \A U \in SUBSET T : U # T => U \in G
      PROVE  T \in G
  <2>1. Total(fun, T) =
          IF T = {} THEN 0 ELSE fun[Picked(T)] + Total(fun, T \ {Picked(T)})
    BY TotalStep, FS_Subset
  <2>2. T # {} => /\ fun[Picked(T)] \in Nat
                  /\ Total(fun, T \ {Picked(T)}) \in Nat
    BY <1>1, PickedIn
  <2>3. QED BY <2>1, <2>2
<1> HIDE DEF G
<1>2. S \in G
  BY <1>1, SubsetInduction
<1>3. QED BY <1>2 DEF G

\* An element more adds its value, whichever element the fold picks first.
LEMMA TotalMore ==
  ASSUME NEW D, NEW fun \in [D -> Nat], NEW S \in SUBSET D, IsFiniteSet(S),
         NEW x \in S
  PROVE  Total(fun, S) = fun[x] + Total(fun, S \ {x})
<1> DEFINE G == {T \in SUBSET S : \A y \in T : Total(fun, T) = fun[y] + Total(fun, T \ {y})}
<1>1. ASSUME NEW T \in SUBSET S, \A U \in SUBSET T : U # T => U \in G, NEW y \in T
      PROVE  Total(fun, T) = fun[y] + Total(fun, T \ {y})
  <2>1. PICK p \in T : p = Picked(T)
    BY PickedIn
  <2>2. Total(fun, T) = fun[p] + Total(fun, T \ {p})
    BY <2>1, TotalStep, FS_Subset
  <2>3. CASE y = p
    BY <2>2, <2>3
  <2>4. CASE y # p
    <3>1. PICK U, V, W : U = T \ {p} /\ V = T \ {y} /\ W = T \ {p, y}
      OBVIOUS
    <3>2. /\ U \in SUBSET T /\ U # T /\ y \in U /\ U \ {y} = W
          /\ V \in SUBSET T /\ V # T /\ p \in V /\ V \ {p} = W
      BY <2>4, <3>1
    <3>3. Total(fun, U) = fun[y] + Total(fun, W) /\ Total(fun, V) = fun[p] + Total(fun, W)
      BY <1>1, <3>2
    <3>4. /\ fun[p] \in Nat /\ fun[y] \in Nat
          /\ Total(fun, U) \in Nat /\ Total(fun, V) \in Nat /\ Total(fun, W) \in Nat
      BY <3>1, TotalNat, FS_Subset
    <3>5. Total(fun, T) = fun[p] + Total(fun, U)
      BY <2>2, <3>1
    <3>6. Total(fun, T) = fun[y] + Total(fun, V)
      BY <3>3, <3>4, <3>5
    <3>7. QED BY <3>1, <3>6
  <2>5. QED BY <2>3, <2>4
<1>2. \A T \in SUBSET S : (\A U \in SUBSET T : U # T => U \in G) => T \in G
  BY <1>1
<1> HIDE DEF G
<1>3. S \in G
  BY <1>2, SubsetInduction
<1>4. QED BY <1>3 DEF G

\* Two functions that agree on a set have the same total over it.
LEMMA TotalSame ==
  ASSUME NEW fun, NEW h, NEW S, IsFiniteSet(S), \A x \in S : fun[x] = h[x]
  PROVE  Total(fun, S) = Total(h, S)
<1> DEFINE G == {T \in SUBSET S : Total(fun, T) = Total(h, T)}
<1>1. ASSUME NEW T \in SUBSET S, \A U \in SUBSET T : U # T => U \in G
      PROVE  T \in G
  <2>1. /\ Total(fun, T) =
             IF T = {} THEN 0 ELSE fun[Picked(T)] + Total(fun, T \ {Picked(T)})
        /\ Total(h, T) =
             IF T = {} THEN 0 ELSE h[Picked(T)] + Total(h, T \ {Picked(T)})
    BY TotalStep, FS_Subset
  <2>2. T # {} => /\ fun[Picked(T)] = h[Picked(T)]
                  /\ Total(fun, T \ {Picked(T)}) = Total(h, T \ {Picked(T)})
    BY <1>1, PickedIn
  <2>3. QED BY <2>1, <2>2
<1> HIDE DEF G
<1>2. S \in G
  BY <1>1, SubsetInduction
<1>3. QED BY <1>2 DEF G

\* A value that is one of those summed is no more than the total.
LEMMA TotalAtLeast ==
  ASSUME NEW D, NEW fun \in [D -> Nat], NEW S \in SUBSET D, IsFiniteSet(S),
         NEW x \in S
  PROVE  fun[x] <= Total(fun, S)
<1>1. /\ Total(fun, S) = fun[x] + Total(fun, S \ {x})
      /\ fun[x] \in Nat /\ Total(fun, S \ {x}) \in Nat
  BY TotalMore, TotalNat, FS_Subset
<1>2. QED BY <1>1

\* The total over a part is no more than that over the whole.
LEMMA TotalPart ==
  ASSUME NEW D, NEW fun \in [D -> Nat], NEW S \in SUBSET D, IsFiniteSet(S),
         NEW T \in SUBSET S
  PROVE  Total(fun, T) <= Total(fun, S)
<1> DEFINE G == {R \in SUBSET S : Total(fun, S \ R) <= Total(fun, S)}
<1>1. ASSUME NEW R \in SUBSET S, \A U \in SUBSET R : U # R => U \in G
      PROVE  R \in G
  <2>1. CASE R = {}
    <3>1. S \ R = S /\ Total(fun, S) \in Nat
      BY <2>1, TotalNat
    <3>2. QED BY <3>1
  <2>2. CASE R # {}
    <3>1. PICK x \in R : TRUE
      BY <2>2
    <3>2. PICK U, V, W : U = R \ {x} /\ V = S \ U /\ W = S \ R
      OBVIOUS
    <3>3. U \in SUBSET R /\ U # R /\ x \in V /\ V \ {x} = W
      BY <3>1, <3>2
    <3>4. Total(fun, V) <= Total(fun, S)
      BY <1>1, <3>2, <3>3
    <3>5. Total(fun, V) = fun[x] + Total(fun, W)
      BY <3>2, <3>3, TotalMore, FS_Subset
    <3>6. /\ fun[x] \in Nat /\ Total(fun, V) \in Nat
          /\ Total(fun, W) \in Nat /\ Total(fun, S) \in Nat
      BY <3>1, <3>2, TotalNat, FS_Subset
    <3>7. Total(fun, W) <= Total(fun, S)
      BY <3>4, <3>5, <3>6
    <3>8. QED BY <3>2, <3>7
  <2>3. QED BY <2>1, <2>2
<1> HIDE DEF G
<1>2. \A R \in SUBSET S : R \in G
  BY <1>1, SubsetInduction
<1>3. S \ T \in G
  BY <1>2
<1>4. S \ (S \ T) = T
  OBVIOUS
<1>5. QED BY <1>3, <1>4 DEF G

\* One more for an element that is summed is one more in total.
LEMMA TotalBump ==
  ASSUME NEW D, NEW fun \in [D -> Nat], NEW S \in SUBSET D, IsFiniteSet(S),
         NEW x \in S, NEW g \in [D -> Nat], g[x] = fun[x] + 1,
         \A y \in S : y # x => g[y] = fun[y]
  PROVE  Total(g, S) = Total(fun, S) + 1
<1>1. PICK T : T = S \ {x}
  OBVIOUS
<1>2. T \in SUBSET D /\ IsFiniteSet(T) /\ \A y \in T : g[y] = fun[y]
  BY <1>1, FS_Subset
<1>3. Total(fun, S) = fun[x] + Total(fun, T)
  BY <1>1, TotalMore
<1>4. Total(g, S) = g[x] + Total(g, T)
  BY <1>1, TotalMore
<1>5. Total(g, T) = Total(fun, T)
  BY <1>2, TotalSame
<1>6. fun[x] \in Nat /\ Total(fun, T) \in Nat
  BY <1>2, TotalNat
<1>7. QED BY <1>3, <1>4, <1>5, <1>6

=============================================================================
