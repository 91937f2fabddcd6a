---------------------------- MODULE SumTheorems ----------------------------
(***************************************************************************)
(* The sum of a function's values, which the models write as a fold.  The  *)
(* fold takes the values in an unspecified order; here it is shown to be   *)
(* the cardinality of a set, one element for each unit of each value, so   *)
(* that facts about sums are facts about finite sets.                      *)
(***************************************************************************)
EXTENDS Integers, Functions, FiniteSetTheorems, WellFoundedInduction, TLAPS

Total(f) == FoldFunction(LAMBDA x, y : x + y, 0, f)

(* The units of the values of f on S, and their number.                    *)
Units(f, S) == {u \in S \X Nat : 1 <= u[2] /\ u[2] <= f[u[1]]}
Weight(f, S) == Cardinality(Units(f, S))

-----------------------------------------------------------------------------
(* Among sets of subsets of a finite set there is a smallest one: what     *)
(* takes the place of induction over a finite set.                         *)
LEMMA MinimalSubset ==
  ASSUME NEW S, IsFiniteSet(S), NEW B \in SUBSET (SUBSET S), B # {}
  PROVE  \E T \in B : \A U \in B : U \subseteq T => U = T
<1> DEFINE R == StrictSubsetOrdering(S)
<1>1. IsWellFoundedOn(R, FiniteSubsetsOf(S))
  BY FS_StrictSubsetOrderingWellFounded
<1>2. B \subseteq FiniteSubsetsOf(S)
  BY FS_FiniteSubsetsOfFinite
<1>3. PICK T \in B : \A U \in B : ~ (<<U, T>> \in R)
  <2> HIDE DEF R
  <2> QED
    BY <1>1, <1>2, WFMin
<1>4. ASSUME NEW U \in B, U \subseteq T PROVE U = T
  BY <1>3, <1>4 DEF StrictSubsetOrdering
<1> QED
  BY <1>4

LEMMA OnePoint ==
  ASSUME NEW f, NEW x, f[x] \in Nat
  PROVE  /\ IsFiniteSet(Units(f, {x}))
         /\ Weight(f, {x}) = f[x]
<1> DEFINE n == f[x]
<1>1. Units(f, {x}) = {x} \X (1..n)
  BY DEF Units
<1>2. IsFiniteSet(1..n) /\ Cardinality(1..n) = n
  <2>1. n \in Nat
    OBVIOUS
  <2> HIDE DEF n
  <2> QED
    BY <2>1, FS_Interval
<1>3. IsFiniteSet({x}) /\ Cardinality({x}) = 1
  BY FS_Singleton
<1>4. /\ IsFiniteSet({x} \X (1..n))
      /\ Cardinality({x} \X (1..n)) = 1 * n
  <2> HIDE DEF n
  <2> QED
    BY <1>2, <1>3, FS_Product
<1>5. \A i \in Nat : 1 * i = i
  OBVIOUS
<1>6. Cardinality({x} \X (1..n)) = n
  BY <1>4, <1>5, Zenon
<1> QED
  BY <1>1, <1>4, <1>6, Zenon DEF Weight

LEMMA TwoParts ==
  ASSUME NEW f, NEW S, NEW T, S \cap T = {},
         IsFiniteSet(Units(f, S)), IsFiniteSet(Units(f, T))
  PROVE  /\ IsFiniteSet(Units(f, S \cup T))
         /\ Weight(f, S \cup T) = Weight(f, S) + Weight(f, T)
<1>1. /\ Units(f, S \cup T) = Units(f, S) \cup Units(f, T)
      /\ Units(f, S) \cap Units(f, T) = {}
  BY DEF Units
<1>2. /\ IsFiniteSet(Units(f, S) \cup Units(f, T))
      /\ Cardinality(Units(f, S) \cup Units(f, T))
           = Cardinality(Units(f, S)) + Cardinality(Units(f, T)) - Cardinality({})
  BY <1>1, FS_Union
<1>3. Cardinality({}) = 0
  BY FS_EmptySet
<1>4. Cardinality(Units(f, S)) \in Nat /\ Cardinality(Units(f, T)) \in Nat
  BY FS_CardinalityType
<1>5. \A i, j \in Nat : i + j - 0 = i + j
  OBVIOUS
<1> QED
  BY <1>1, <1>2, <1>3, <1>4, <1>5, Zenon DEF Weight

LEMMA NoUnits ==
  ASSUME NEW f
  PROVE  IsFiniteSet(Units(f, {})) /\ Weight(f, {}) = 0
<1>1. Units(f, {}) = {}
  BY DEF Units
<1> QED
  BY <1>1, FS_EmptySet DEF Weight

(* The values on a finite set have finitely many units.                    *)
LEMMA FiniteUnits ==
  ASSUME NEW S, IsFiniteSet(S), NEW f, \A x \in S : f[x] \in Nat
  PROVE  IsFiniteSet(Units(f, S)) /\ Weight(f, S) \in Nat
<1> DEFINE B == {T \in SUBSET S : ~ IsFiniteSet(Units(f, T))}
<1>1. B = {}
  <2> SUFFICES ASSUME B # {} PROVE FALSE
    OBVIOUS
  <2>1. PICK T \in B : \A U \in B : U \subseteq T => U = T
    <3>1. B \in SUBSET (SUBSET S)
      OBVIOUS
    <3> HIDE DEF B
    <3> QED
      BY <3>1, MinimalSubset
  <2>2. T # {}
    BY NoUnits
  <2>3. PICK x \in T : TRUE
    BY <2>2
  <2>4. IsFiniteSet(Units(f, T \ {x}))
    BY <2>1, <2>3
  <2>5. IsFiniteSet(Units(f, {x}))
    BY <2>3, OnePoint
  <2>6. IsFiniteSet(Units(f, (T \ {x}) \cup {x}))
    <3>1. (T \ {x}) \cap {x} = {}
      OBVIOUS
    <3> QED
      BY <2>4, <2>5, <3>1, TwoParts
  <2>7. (T \ {x}) \cup {x} = T
    BY <2>3
  <2> QED
    BY <2>6, <2>7
<1>2. IsFiniteSet(Units(f, S))
  BY <1>1
<1> QED
  BY <1>2, FS_CardinalityType DEF Weight

LEMMA WithoutOne ==
  ASSUME NEW S, IsFiniteSet(S), NEW f, \A x \in S : f[x] \in Nat, NEW x \in S
  PROVE  /\ Weight(f, S) = f[x] + Weight(f, S \ {x})
         /\ Weight(f, S \ {x}) \in Nat
<1>1. IsFiniteSet(S \ {x}) /\ \A y \in S \ {x} : f[y] \in Nat
  BY FS_RemoveElement
<1>2. IsFiniteSet(Units(f, S \ {x})) /\ Weight(f, S \ {x}) \in Nat
  BY <1>1, FiniteUnits
<1>3. IsFiniteSet(Units(f, {x})) /\ Weight(f, {x}) = f[x]
  BY OnePoint
<1>4. (S \ {x}) \cap {x} = {} /\ (S \ {x}) \cup {x} = S
  OBVIOUS
<1>5. Weight(f, (S \ {x}) \cup {x}) = Weight(f, S \ {x}) + Weight(f, {x})
  BY <1>2, <1>3, <1>4, TwoParts
<1>6. f[x] \in Nat
  OBVIOUS
<1>7. \A i, j \in Nat : i + j = j + i
  OBVIOUS
<1> QED
  BY <1>2, <1>3, <1>4, <1>5, <1>6, <1>7, Zenon

(* The recursive function that the folds are made of, and its one solution: *)
(* the weights of all subsets.                                             *)
Picked(s) == CHOOSE x \in s : TRUE

Adds(f, D, g) ==
  g = [s \in SUBSET D |-> IF s = {} THEN 0 ELSE f[Picked(s)] + g[s \ {Picked(s)}]]

LEMMA WeightAdds ==
  ASSUME NEW D, IsFiniteSet(D), NEW f, \A x \in D : f[x] \in Nat
  PROVE  Adds(f, D, [s \in SUBSET D |-> Weight(f, s)])
<1> DEFINE w == [s \in SUBSET D |-> Weight(f, s)]
<1>1. ASSUME NEW s \in SUBSET D, s # {}
      PROVE  w[s] = f[Picked(s)] + w[s \ {Picked(s)}]
  <2>1. Picked(s) \in s
    BY <1>1 DEF Picked
  <2>2. IsFiniteSet(s) /\ \A y \in s : f[y] \in Nat
    BY FS_Subset
  <2>3. Weight(f, s) = f[Picked(s)] + Weight(f, s \ {Picked(s)})
    BY <2>1, <2>2, WithoutOne
  <2>4. s \ {Picked(s)} \in SUBSET D
    OBVIOUS
  <2> QED
    BY <2>3, <2>4
<1>2. w[{}] = 0
  BY NoUnits
<1>3. \A s \in SUBSET D :
        w[s] = IF s = {} THEN 0 ELSE f[Picked(s)] + w[s \ {Picked(s)}]
  BY <1>1, <1>2
<1>4. w = [s \in SUBSET D |-> w[s]]
  OBVIOUS
<1> HIDE DEF w
<1>5. Adds(f, D, w)
  BY <1>3, <1>4 DEF Adds
<1> QED
  BY <1>5 DEF w

LEMMA OnlyWeightAdds ==
  ASSUME NEW D, IsFiniteSet(D), NEW f, \A x \in D : f[x] \in Nat,
         NEW g, Adds(f, D, g)
  PROVE  g[D] = Weight(f, D)
<1> DEFINE w == [s \in SUBSET D |-> Weight(f, s)]
           B == {s \in SUBSET D : g[s] # w[s]}
<1>1. Adds(f, D, w)
  BY WeightAdds
<1>2. \A s \in SUBSET D :
        g[s] = IF s = {} THEN 0 ELSE f[Picked(s)] + g[s \ {Picked(s)}]
  BY DEF Adds
<1>3. \A s \in SUBSET D :
        w[s] = IF s = {} THEN 0 ELSE f[Picked(s)] + w[s \ {Picked(s)}]
  <2> HIDE DEF w
  <2> QED
    BY <1>1 DEF Adds
<1>4. B = {}
  <2> SUFFICES ASSUME B # {} PROVE FALSE
    OBVIOUS
  <2>1. PICK T \in B : \A U \in B : U \subseteq T => U = T
    <3>1. B \in SUBSET (SUBSET D)
      OBVIOUS
    <3> HIDE DEF B
    <3> QED
      BY <3>1, MinimalSubset
  <2> HIDE DEF w
  <2>2. T # {}
    BY <1>2, <1>3, <2>1
  <2>3. Picked(T) \in T
    BY <2>2 DEF Picked
  <2>4. g[T \ {Picked(T)}] = w[T \ {Picked(T)}]
    BY <2>1, <2>3
  <2> QED
    BY <1>2, <1>3, <2>1, <2>2, <2>4
<1>5. w[D] = Weight(f, D)
  OBVIOUS
<1> HIDE DEF w
<1> QED
  BY <1>4, <1>5

(* The fold is the weight.                                                 *)
THEOREM TotalIsWeight ==
  ASSUME NEW D, IsFiniteSet(D), NEW f \in [D -> Nat]
  PROVE  Total(f) = Weight(f, D)
<1>1. Total(f) = (CHOOSE g : Adds(f, D, g))[D]
  BY DEF Total, FoldFunction, FoldFunctionOnSet, MapThenFoldSet, Adds, Picked
<1>2. Adds(f, D, CHOOSE g : Adds(f, D, g))
  BY WeightAdds
<1> QED
  BY <1>1, <1>2, OnlyWeightAdds

-----------------------------------------------------------------------------
(* A sum is at most another when its places go to different places of the  *)
(* other that hold at least as much.                                       *)
THEOREM WeightIsAtMost ==
  ASSUME NEW S, NEW T, IsFiniteSet(T), NEW f, NEW h,
         \A x \in T : h[x] \in Nat,
         NEW m \in Injection(S, T),
         \A x \in S : f[x] \in Nat /\ f[x] <= h[m[x]]
  PROVE  Weight(f, S) <= Weight(h, T)
<1> DEFINE F == Units(f, S)
           H == Units(h, T)
           i == [u \in F |-> <<m[u[1]], u[2]>>]
<1>1. m \in [S -> T] /\ \A x, y \in S : m[x] = m[y] => x = y
  BY DEF Injection, IsInjective
<1>2. \A u \in F : /\ u[1] \in S /\ u[2] \in Nat /\ u = <<u[1], u[2]>>
                  /\ 1 <= u[2] /\ u[2] <= f[u[1]]
  BY DEF Units
<1>3. \A u \in F : i[u] \in H
  <2> SUFFICES ASSUME NEW u \in F PROVE <<m[u[1]], u[2]>> \in H
    OBVIOUS
  <2> DEFINE x == u[1]
             n == u[2]
  <2>1. x \in S /\ n \in Nat /\ 1 <= n /\ n <= f[x]
    BY <1>2
  <2>2. m[x] \in T /\ f[x] \in Nat /\ f[x] <= h[m[x]] /\ h[m[x]] \in Nat
    BY <1>1, <2>1
  <2> HIDE DEF x, n
  <2>3. n <= h[m[x]]
    BY <2>1, <2>2
  <2> QED
    BY <2>1, <2>2, <2>3 DEF Units, x, n
<1>4. \A u, v \in F : i[u] = i[v] => u = v
  <2> HIDE DEF F
  <2> QED
    BY <1>1, <1>2
<1>5. i \in Injection(F, H)
  <2> HIDE DEF F, H
  <2> QED
    BY <1>3, <1>4 DEF Injection, IsInjective
<1>6. IsFiniteSet(H)
  BY FiniteUnits
<1>7. Cardinality(F) <= Cardinality(H)
  <2> HIDE DEF F, H, i
  <2> QED
    BY <1>5, <1>6, FS_Injection
<1> QED
  BY <1>7 DEF Weight

(* The special case of the same places.                                    *)
THEOREM WeightIsMonotone ==
  ASSUME NEW S, NEW T, S \subseteq T, IsFiniteSet(T), NEW f, NEW h,
         \A x \in T : h[x] \in Nat,
         \A x \in S : f[x] \in Nat /\ f[x] <= h[x]
  PROVE  Weight(f, S) <= Weight(h, T)
<1> DEFINE m == [x \in S |-> x]
<1>1. m \in Injection(S, T)
  BY DEF Injection, IsInjective
<1>2. \A x \in S : f[x] <= h[m[x]]
  OBVIOUS
<1> HIDE DEF m
<1> QED
  BY <1>1, <1>2, WeightIsAtMost

(* Only the values on the set count.                                       *)
LEMMA WeightIsLocal ==
  ASSUME NEW S, NEW f, NEW h, \A x \in S : f[x] = h[x]
  PROVE  Weight(f, S) = Weight(h, S)
<1>1. Units(f, S) = Units(h, S)
  BY DEF Units
<1> QED
  BY <1>1 DEF Weight

(* Places that hold nothing do not count.                                  *)
LEMMA WeightOfSupport ==
  ASSUME NEW S, NEW T, S \subseteq T, NEW f, \A x \in T \ S : f[x] = 0
  PROVE  Weight(f, T) = Weight(f, S)
<1>1. Units(f, T) = Units(f, S)
  BY DEF Units
<1> QED
  BY <1>1 DEF Weight

(* A value that grows makes the sum grow by as much.                       *)
THEOREM WeightGrows ==
  ASSUME NEW S, IsFiniteSet(S), NEW f, NEW h, NEW x \in S, NEW n \in Nat,
         \A y \in S : f[y] \in Nat,
         \A y \in S : h[y] = IF y = x THEN f[y] + n ELSE f[y]
  PROVE  Weight(h, S) = Weight(f, S) + n
<1>1. h[x] = f[x] + n /\ f[x] \in Nat /\ \A y \in S : h[y] \in Nat
  OBVIOUS
<1>2. Weight(h, S \ {x}) = Weight(f, S \ {x})
  BY WeightIsLocal
<1>3. /\ Weight(f, S) = f[x] + Weight(f, S \ {x})
      /\ Weight(f, S \ {x}) \in Nat
  BY WithoutOne
<1>4. Weight(h, S) = h[x] + Weight(h, S \ {x})
  BY <1>1, WithoutOne
<1>5. \A i, j, k \in Nat : (i + k) + j = (i + j) + k
  OBVIOUS
<1>6. Weight(h, S) = (f[x] + n) + Weight(f, S \ {x})
  BY <1>1, <1>2, <1>4, Zenon
<1>7. (f[x] + n) + Weight(f, S \ {x}) = (f[x] + Weight(f, S \ {x})) + n
  BY <1>1, <1>3, <1>5, Zenon
<1> QED
  BY <1>3, <1>6, <1>7, Zenon
=============================================================================
